-------------------------- MODULE MemoryCacheProofs --------------------------
(***************************************************************************)
(* Proofs about MemoryCache, for any keys, ttls, clients and max_size.     *)
(***************************************************************************)
EXTENDS MemoryCache, TLAPS, SequenceTheorems

USE MemoryCacheAssumption, NoEntryAssumption

-----------------------------------------------------------------------------
\* The three ways a step changes the key order, each an Ordered sequence again.

Ordered(s) == s \in Seq(Keys) /\ IsInjective(s)

LEMMA TailOrdered ==
  ASSUME NEW s, Ordered(s), s # << >>
  PROVE  /\ Ordered(Tail(s))
         /\ Len(Tail(s)) = Len(s) - 1
         /\ Range(Tail(s)) = Range(s) \ {Head(s)}
         /\ Head(s) \in Range(s)
<1>1. /\ s \in Seq(Keys)
      /\ Len(s) \in Nat /\ DOMAIN s = 1..Len(s)
      /\ \A i, j \in 1..Len(s) : s[i] = s[j] => i = j
  BY LenProperties DEF Ordered, IsInjective
<1>2. /\ Tail(s) \in Seq(Keys)
      /\ Len(Tail(s)) = Len(s) - 1
      /\ \A i \in 1..Len(Tail(s)) : Tail(s)[i] = s[i + 1]
  BY <1>1, HeadTailProperties
<1>3. Len(s) > 0 /\ Head(s) = s[1]
  BY <1>1, EmptySeq
<1>4. DOMAIN Tail(s) = 1..(Len(s) - 1)
  BY <1>2, LenProperties
<1>5. IsInjective(Tail(s))
  <2>1. SUFFICES ASSUME NEW i \in 1..(Len(s) - 1), NEW j \in 1..(Len(s) - 1),
                        Tail(s)[i] = Tail(s)[j]
                 PROVE  i = j
    BY <1>4 DEF IsInjective
  <2>2. s[i + 1] = s[j + 1] /\ i + 1 \in 1..Len(s) /\ j + 1 \in 1..Len(s)
    BY <1>1, <1>2, <2>1
  <2> QED  BY <1>1, <2>2
<1>6. Range(Tail(s)) = {s[i + 1] : i \in 1..(Len(s) - 1)}
  BY <1>2, <1>4 DEF Range
<1>7. Range(s) = {s[i] : i \in 1..Len(s)}
  BY <1>1 DEF Range
<1>8. \A i \in 1..Len(s) : i # 1 => s[i] # s[1] /\ i - 1 \in 1..(Len(s) - 1) /\ (i - 1) + 1 = i
  BY <1>1, <1>3
<1>9. \A i \in 1..(Len(s) - 1) : i + 1 \in 1..Len(s) /\ i + 1 # 1
  BY <1>1
<1>10. Range(Tail(s)) = Range(s) \ {Head(s)}
  BY <1>3, <1>6, <1>7, <1>8, <1>9
<1> QED  BY <1>1, <1>2, <1>3, <1>5, <1>7, <1>10 DEF Ordered

LEMMA AppendOrdered ==
  ASSUME NEW s, Ordered(s), NEW k \in Keys, k \notin Range(s)
  PROVE  /\ Ordered(Append(s, k))
         /\ Len(Append(s, k)) = Len(s) + 1
         /\ Range(Append(s, k)) = Range(s) \union {k}
<1>1. /\ s \in Seq(Keys)
      /\ Len(s) \in Nat /\ DOMAIN s = 1..Len(s)
      /\ \A i, j \in 1..Len(s) : s[i] = s[j] => i = j
  BY LenProperties DEF Ordered, IsInjective
<1> DEFINE t == Append(s, k)
<1>2. /\ t \in Seq(Keys)
      /\ Len(t) = Len(s) + 1
      /\ \A i \in 1..Len(s) : t[i] = s[i]
      /\ t[Len(s) + 1] = k
  BY <1>1, AppendProperties
<1>3. DOMAIN t = 1..(Len(s) + 1)
  BY <1>2, LenProperties
<1>4. Range(s) = {s[i] : i \in 1..Len(s)} /\ Range(t) = {t[i] : i \in 1..(Len(s) + 1)}
  BY <1>1, <1>3 DEF Range
<1>5. \A i \in 1..(Len(s) + 1) : i \in 1..Len(s) \/ i = Len(s) + 1
  BY <1>1
<1>6. \A i \in 1..Len(s) : s[i] # k
  BY <1>4
<1>7. \A i, j \in 1..(Len(s) + 1) : t[i] = t[j] => i = j
  BY <1>1, <1>2, <1>5, <1>6
<1>8. IsInjective(t)
  BY <1>3, <1>7 DEF IsInjective
<1>9. Range(t) = Range(s) \union {k}
  <2>1. \A x \in Range(t) : x \in Range(s) \union {k}
    BY <1>2, <1>4, <1>5
  <2>2. \A i \in 1..Len(s) : i \in 1..(Len(s) + 1)
    BY <1>1
  <2>3. \A x \in Range(s) : x \in Range(t)
    BY <1>2, <1>4, <2>2
  <2>4. k \in Range(t)
    <3>1. Len(s) + 1 \in 1..(Len(s) + 1)
      BY <1>1
    <3> QED  BY <1>2, <1>4, <3>1
  <2> QED  BY <2>1, <2>3, <2>4
<1> QED  BY <1>2, <1>8, <1>9 DEF Ordered

LEMMA RemoveOrdered ==
  ASSUME NEW s, Ordered(s), NEW i \in 1..Len(s)
  PROVE  /\ Ordered(RemoveAt(s, i))
         /\ Len(RemoveAt(s, i)) = Len(s) - 1
         /\ Range(RemoveAt(s, i)) = Range(s) \ {s[i]}
<1>1. /\ s \in Seq(Keys)
      /\ Len(s) \in Nat /\ DOMAIN s = 1..Len(s)
      /\ \A a, b \in 1..Len(s) : s[a] = s[b] => a = b
  BY LenProperties DEF Ordered, IsInjective
<1> DEFINE n == Len(s)
           l == SubSeq(s, 1, i - 1)
           r == SubSeq(s, i + 1, n)
           t == RemoveAt(s, i)
<1>2. n \in Nat /\ i \in 1..n /\ n > 0
  BY <1>1
<1>3. \A a \in 1..n : s[a] \in Keys
  BY <1>1, ElementOfSeq
<1>4. /\ l \in Seq(Keys) /\ Len(l) = i - 1
      /\ \A a \in 1..(i - 1) : l[a] = s[a]
      /\ r \in Seq(Keys) /\ Len(r) = n - i
      /\ \A a \in 1..(n - i) : r[a] = s[i + a]
  <2>1. \A a \in 1..(i - 1) : s[a] \in Keys /\ 1 + a - 1 = a
    BY <1>2, <1>3
  <2>2. l \in Seq(Keys) /\ Len(l) = (IF 1 <= i - 1 THEN (i - 1) - 1 + 1 ELSE 0)
        /\ \A a \in 1..((i - 1) - 1 + 1) : l[a] = s[1 + a - 1]
    BY <1>2, <2>1, SubSeqProperties
  <2>3. \A a \in (i + 1)..n : s[a] \in Keys
    BY <1>2, <1>3
  <2>4. r \in Seq(Keys) /\ Len(r) = (IF i + 1 <= n THEN n - (i + 1) + 1 ELSE 0)
        /\ \A a \in 1..(n - (i + 1) + 1) : r[a] = s[(i + 1) + a - 1]
    BY <1>2, <2>3, SubSeqProperties
  <2>5. (i - 1) - 1 + 1 = i - 1 /\ n - (i + 1) + 1 = n - i
    BY <1>2
  <2>6. \A a \in 1..(n - i) : (i + 1) + a - 1 = i + a
    BY <1>2
  <2> HIDE DEF n, l, r
  <2>7. Len(l) = i - 1 /\ Len(r) = n - i
    BY <1>2, <2>2, <2>4
  <2>8. \A a \in 1..(i - 1) : l[a] = s[a]
    BY <2>1, <2>2, <2>5
  <2>9. \A a \in 1..(n - i) : r[a] = s[i + a]
    BY <2>4, <2>5, <2>6
  <2> QED  BY <2>2, <2>4, <2>7, <2>8, <2>9
<1>5. /\ t \in Seq(Keys)
      /\ Len(t) = n - 1
      /\ \A a \in 1..(n - 1) : t[a] = IF a < i THEN s[a] ELSE s[a + 1]
  <2>1. t = l \o r
    BY DEF RemoveAt
  <2>2. /\ t \in Seq(Keys)
        /\ Len(t) = Len(l) + Len(r)
        /\ \A a \in 1..(Len(l) + Len(r)) : t[a] = IF a <= Len(l) THEN l[a] ELSE r[a - Len(l)]
    <3> HIDE DEF l, r, t
    <3>1. l \in Seq(Keys) /\ r \in Seq(Keys)
      BY <1>4
    <3>2. /\ l \o r \in Seq(Keys)
          /\ Len(l \o r) = Len(l) + Len(r)
          /\ \A a \in 1..(Len(l) + Len(r)) : (l \o r)[a] = IF a <= Len(l) THEN l[a] ELSE r[a - Len(l)]
      BY <3>1, ConcatProperties
    <3> QED  BY <2>1, <3>2
  <2> HIDE DEF n, l, r, t
  <2>3. Len(l) + Len(r) = n - 1
    BY <1>2, <1>4
  <2>4. ASSUME NEW a \in 1..(n - 1)
        PROVE  t[a] = IF a < i THEN s[a] ELSE s[a + 1]
    <3>1. t[a] = IF a <= i - 1 THEN l[a] ELSE r[a - (i - 1)]
      BY <1>4, <2>2, <2>3
    <3>2. CASE a < i
      <4>1. a \in 1..(i - 1) /\ a <= i - 1
        BY <1>2, <3>2
      <4> QED  BY <1>4, <3>1, <3>2, <4>1
    <3>3. CASE ~(a < i)
      <4>1. a - (i - 1) \in 1..(n - i) /\ i + (a - (i - 1)) = a + 1 /\ ~(a <= i - 1)
        BY <1>2, <3>3
      <4> QED  BY <1>4, <3>1, <3>3, <4>1
    <3> QED  BY <3>2, <3>3
  <2> QED  BY <2>2, <2>3, <2>4
<1>6. DOMAIN t = 1..(n - 1)
  BY <1>5, LenProperties
<1>7. \A a, b \in 1..(n - 1) : t[a] = t[b] => a = b
  <2>1. SUFFICES ASSUME NEW a \in 1..(n - 1), NEW b \in 1..(n - 1), t[a] = t[b]
                 PROVE  a = b
    OBVIOUS
  <2> DEFINE up(x) == IF x < i THEN x ELSE x + 1
  <2>2. up(a) \in 1..n /\ up(b) \in 1..n
    BY <1>2
  <2>3. t[a] = s[up(a)] /\ t[b] = s[up(b)]
    BY <1>5
  <2>4. up(a) = up(b)
    BY <1>1, <2>1, <2>2, <2>3
  <2> QED  BY <1>2, <2>4
<1>8. IsInjective(t)
  BY <1>6, <1>7 DEF IsInjective
<1>9. Range(s) = {s[a] : a \in 1..n} /\ Range(t) = {t[a] : a \in 1..(n - 1)}
  BY <1>1, <1>6 DEF Range
<1>10. Range(t) \subseteq Range(s) \ {s[i]}
  <2>1. SUFFICES ASSUME NEW a \in 1..(n - 1)
                 PROVE  t[a] \in Range(s) \ {s[i]}
    BY <1>9
  <2>2. PICK b \in 1..n : b # i /\ t[a] = s[b]
    <3>1. CASE a < i
      BY <1>2, <1>5, <3>1
    <3>2. CASE ~(a < i)
      <4>1. a + 1 \in 1..n /\ a + 1 # i
        BY <1>2, <3>2
      <4> QED  BY <1>5, <3>2, <4>1
    <3> QED  BY <3>1, <3>2
  <2> QED  BY <1>1, <1>9, <2>2
<1>11. Range(s) \ {s[i]} \subseteq Range(t)
  <2>1. SUFFICES ASSUME NEW b \in 1..n, s[b] # s[i]
                 PROVE  s[b] \in Range(t)
    BY <1>9
  <2>2. PICK a \in 1..(n - 1) : t[a] = s[b]
    <3>1. CASE b < i
      <4>1. b \in 1..(n - 1)
        BY <1>2, <3>1
      <4> QED  BY <1>5, <3>1, <4>1
    <3>2. CASE ~(b < i)
      <4>1. b # i
        BY <2>1
      <4>2. b - 1 \in 1..(n - 1) /\ ~(b - 1 < i) /\ (b - 1) + 1 = b
        BY <1>2, <3>2, <4>1
      <4> QED  BY <1>5, <4>2
    <3> QED  BY <3>1, <3>2
  <2> QED  BY <1>9, <2>2
<1> QED  BY <1>5, <1>8, <1>10, <1>11 DEF Ordered

-----------------------------------------------------------------------------
\* The inductive invariant: an entry's own deadline is the one in force, and the
\* entry a key holds is the last one set for it.

DeadlinesKept ==
    \A k \in Stored : store[k].until # NoTtl => expiry[k] = store[k].until

HoldsLast == \A k \in Stored : store[k] = last[k]

Inv == TypeOK /\ Bounded /\ DeadlinesKept /\ HoldsLast

LEMMA InitInv == Init => Inv
<1> SUFFICES ASSUME Init PROVE Inv
  OBVIOUS
<1>1. TypeOK
  BY EmptySeq DEF Init, TypeOK, Deadlines
<1>2. Stored = {}
  BY DEF Init, Stored
<1>3. Len(order) = 0 /\ DOMAIN order = {}
  BY DEF Init
<1>4. Bounded
  BY <1>2, <1>3 DEF Init, Bounded, IsInjective, Range
<1> QED  BY <1>1, <1>2, <1>4 DEF Inv, DeadlinesKept, HoldsLast

\* k's place in the order is given up.
LEMMA WithoutKey ==
  ASSUME Ordered(order), NEW k \in Keys
  PROVE  /\ Ordered(OrderWithout(k))
         /\ Len(OrderWithout(k)) <= Len(order)
         /\ Range(OrderWithout(k)) = Range(order) \ {k}
<1>1. Range(order) = {order[i] : i \in 1..Len(order)} /\ Len(order) \in Nat
  BY LenProperties DEF Ordered, Range
<1>2. CASE Contains(order, k)
  <2> DEFINE i == CHOOSE i \in 1..Len(order) : order[i] = k
  <2>1. i \in 1..Len(order) /\ order[i] = k
    BY <1>2 DEF Contains
  <2>2. OrderWithout(k) = RemoveAt(order, i)
    BY <1>2 DEF OrderWithout
  <2> HIDE DEF i
  <2> QED  BY <1>1, <2>1, <2>2, RemoveOrdered
<1>3. CASE ~Contains(order, k)
  BY <1>1, <1>3 DEF Contains, OrderWithout
<1> QED  BY <1>2, <1>3

\* The oldest key makes room, and k has a place.
LEMMA WithKey ==
  ASSUME Ordered(order), Len(order) <= MaxSize, NEW k \in Keys
  PROVE  /\ Victims \subseteq Range(order)
         /\ Ordered(OrderWith(k))
         /\ Len(OrderWith(k)) <= MaxSize
         /\ Range(OrderWith(k)) = (Range(order) \ Victims) \union {k}
<1> DEFINE rest == IF Victims = {} THEN order ELSE Tail(order)
<1>1. Len(order) \in Nat /\ MaxSize \in Nat /\ MaxSize > 0
  BY LenProperties DEF Ordered, MemoryCacheAssumption
<1>2. /\ Victims \subseteq Range(order)
      /\ Ordered(rest)
      /\ Len(rest) <= MaxSize - 1
      /\ Range(rest) = Range(order) \ Victims
  <2>1. CASE Len(order) >= MaxSize
    <3>1. order # << >> /\ Victims = {Head(order)}
      BY <1>1, <2>1 DEF Victims
    <3>2. rest = Tail(order)
      BY <3>1
    <3> QED  BY <1>1, <3>1, <3>2, TailOrdered
  <2>2. CASE ~(Len(order) >= MaxSize)
    BY <1>1, <2>2 DEF Victims
  <2> QED  BY <2>1, <2>2
<1> HIDE DEF rest
<1>3. Range(rest) = {rest[i] : i \in 1..Len(rest)} /\ Len(rest) \in Nat
  BY <1>2, LenProperties DEF Ordered, Range
<1>4. Contains(rest, k) <=> k \in Range(rest)
  BY <1>3 DEF Contains
<1>5. OrderWith(k) = IF Contains(rest, k) THEN rest ELSE Append(rest, k)
  BY DEF OrderWith, rest
<1>6. CASE Contains(rest, k)
  BY <1>1, <1>2, <1>3, <1>4, <1>5, <1>6
<1>7. CASE ~Contains(rest, k)
  <2>1. k \notin Range(rest)
    BY <1>4, <1>7
  <2>2. /\ Ordered(Append(rest, k))
        /\ Len(Append(rest, k)) = Len(rest) + 1
        /\ Range(Append(rest, k)) = Range(rest) \union {k}
    BY <1>2, <2>1, AppendOrdered
  <2> QED  BY <1>1, <1>2, <1>3, <1>5, <1>7, <2>2
<1> QED  BY <1>6, <1>7

LEMMA ExpireInv ==
  ASSUME Inv, NEW c \in Clients, NEW k \in Keys, GetExpired(c, k)
  PROVE  Inv'
<1> USE DEF Inv
<1>1. /\ store' = [store EXCEPT ![k] = NoEntry]
      /\ expiry' = [expiry EXCEPT ![k] = NoTtl]
      /\ order' = OrderWithout(k)
      /\ view' = [view EXCEPT ![c] = NoEntry]
      /\ UNCHANGED <<now, last>>
  BY DEF GetExpired
<1>2. Ordered(order)
  BY DEF TypeOK, Bounded, Ordered
<1>3. Stored' = Stored \ {k}
  BY <1>1 DEF TypeOK, Stored
<1>4. TypeOK'
  BY <1>1, <1>2, WithoutKey DEF TypeOK, Ordered, Deadlines
<1>5. Bounded'
  <2>1. Len(order') <= MaxSize
    <3>1. Len(order') \in Nat /\ Len(order) \in Nat
      BY <1>4, LenProperties DEF TypeOK
    <3> QED  BY <1>1, <1>2, <3>1, WithoutKey DEF Bounded, MemoryCacheAssumption
  <2>2. IsInjective(order') /\ Range(order') = Stored'
    BY <1>1, <1>2, <1>3, WithoutKey DEF Bounded, Ordered
  <2>3. \A j \in Keys : expiry'[j] # NoTtl => j \in Stored'
    BY <1>1, <1>3 DEF Bounded, TypeOK
  <2> QED  BY <2>1, <2>2, <2>3 DEF Bounded
<1>6. DeadlinesKept' /\ HoldsLast'
  <2>1. \A j \in Stored' : j \in Stored /\ store'[j] = store[j] /\ expiry'[j] = expiry[j]
    BY <1>1, <1>3 DEF TypeOK, Stored
  <2> QED  BY <1>1, <2>1 DEF DeadlinesKept, HoldsLast
<1> QED  BY <1>4, <1>5, <1>6

LEMMA SetInv ==
  ASSUME Inv, NEW k \in Keys, NEW v \in Values, NEW ttl \in Ttls \union {NoTtl},
         Set(k, v, ttl)
  PROVE  Inv'
<1> USE DEF Inv
<1> DEFINE e == [val |-> v, until |-> Deadline(ttl)]
<1>1. /\ store' = StoreWith(k, e)
      /\ order' = OrderWith(k)
      /\ expiry' = ExpiryWith(k, ttl)
      /\ last' = [last EXCEPT ![k] = e]
      /\ UNCHANGED <<now, view>>
  BY DEF Set
<1>2. Deadline(ttl) \in Deadlines
  BY DEF Deadline, Deadlines, TypeOK, MemoryCacheAssumption
<1>3. e \in Entries /\ e # NoEntry /\ e.until = Deadline(ttl)
  BY <1>2 DEF Entries, NoEntryAssumption
<1> HIDE DEF e
<1>4. Ordered(order) /\ Len(order) <= MaxSize
  BY DEF TypeOK, Bounded, Ordered
<1>5. Victims \subseteq Stored
  BY <1>4, WithKey DEF Bounded
<1>6. Stored' = (Stored \ Victims) \union {k}
  BY <1>1, <1>3 DEF TypeOK, Stored, StoreWith
<1>7. TypeOK'
  BY <1>1, <1>2, <1>3, <1>4, WithKey
     DEF TypeOK, StoreWith, ExpiryWith, Ordered, Deadlines
<1>8. Bounded'
  <2>1. Len(order') <= MaxSize /\ IsInjective(order') /\ Range(order') = Stored'
    BY <1>1, <1>4, <1>6, WithKey DEF Bounded, Ordered
  <2>2. \A j \in Keys : expiry'[j] # NoTtl => j \in Stored'
    BY <1>1, <1>6 DEF Bounded, TypeOK, ExpiryWith
  <2> QED  BY <2>1, <2>2 DEF Bounded
<1>9. store'[k] = e /\ last'[k] = e
  BY <1>1 DEF StoreWith, TypeOK
<1>10. e.until # NoTtl => expiry'[k] = e.until
  BY <1>1, <1>3 DEF ExpiryWith, Deadline
<1>11. \A j \in Stored' \ {k} :
         j \in Stored /\ store'[j] = store[j] /\ expiry'[j] = expiry[j] /\ last'[j] = last[j]
  BY <1>1, <1>6 DEF StoreWith, ExpiryWith, Stored, TypeOK
<1>12. DeadlinesKept' /\ HoldsLast'
  BY <1>9, <1>10, <1>11 DEF DeadlinesKept, HoldsLast
<1> QED  BY <1>7, <1>8, <1>12

LEMMA NextInv == Inv /\ [Next]_vars => Inv'
<1> SUFFICES ASSUME Inv, [Next]_vars PROVE Inv'
  OBVIOUS
<1>1. ASSUME NEW c \in Clients, NEW k \in Keys, GetExpired(c, k)
      PROVE  Inv'
  BY <1>1, ExpireInv
<1>2. ASSUME NEW c \in Clients, NEW k \in Keys, Get(c, k)
      PROVE  Inv'
  <2>1. UNCHANGED <<store, order, expiry, now, last>>
    BY <1>2 DEF Get
  <2>2. view' \in [Clients -> Entries \union {NoEntry}]
    BY <1>2 DEF Get, Inv, TypeOK
  <2> QED  BY <2>1, <2>2 DEF Inv, TypeOK, Bounded, DeadlinesKept, HoldsLast, Stored
<1>3. ASSUME NEW k \in Keys, NEW v \in Values, NEW ttl \in Ttls \union {NoTtl},
             Set(k, v, ttl)
      PROVE  Inv'
  BY <1>3, SetInv
<1>4. CASE Clear
  <2>1. /\ store' = [k \in Keys |-> NoEntry] /\ last' = [k \in Keys |-> NoEntry]
        /\ order' = << >> /\ expiry' = [k \in Keys |-> NoTtl] /\ UNCHANGED <<now, view>>
    BY <1>4 DEF Clear
  <2>2. Stored' = {}
    BY <2>1 DEF Stored
  <2>3. Len(order') = 0 /\ DOMAIN order' = {}
    BY <2>1
  <2>4. TypeOK'
    BY <2>1, EmptySeq DEF Inv, TypeOK, Deadlines
  <2>5. Bounded'
    BY <2>1, <2>2, <2>3 DEF Bounded, IsInjective, Range, MemoryCacheAssumption
  <2> QED  BY <2>2, <2>4, <2>5 DEF Inv, DeadlinesKept, HoldsLast
<1>5. CASE Tick
  BY <1>5 DEF Tick, Inv, TypeOK, Bounded, DeadlinesKept, HoldsLast, Stored
<1>6. CASE UNCHANGED vars
  BY <1>6 DEF vars, Inv, TypeOK, Bounded, DeadlinesKept, HoldsLast, Stored
<1> QED  BY <1>1, <1>2, <1>3, <1>4, <1>5, <1>6 DEF Next

\* The cache keeps its inductive invariant.
THEOREM Invariant == Spec => []Inv
<1>1. Inv /\ [Next]_vars => Inv'
  BY NextInv
<1> QED  BY InitInv, <1>1, PTL DEF Spec

\* Every variable of the cache keeps its type, whatever keys, ttls and clients: an
\* expiry is only kept for a deadline and the order is a sequence of keys
\* (cache.py:115-166).
THEOREM MemoryTypeHolds == Spec => []TypeOK
<1>1. Inv => TypeOK
  BY DEF Inv
<1> QED  BY Invariant, <1>1, PTL

\* InMemoryCache never holds more than max_size entries, nor a deadline without an
\* entry (cache.py:115-138).
THEOREM BoundedHolds == Spec => []Bounded
<1>1. Inv => Bounded
  BY DEF Inv
<1> QED  BY Invariant, <1>1, PTL

\* No get returns an entry past the deadline its own set gave it (cache.py:115-133).
THEOREM FreshnessHolds == Spec => []ServableIsFresh
<1>1. Inv => ServableIsFresh
  <2> SUFFICES ASSUME Inv, NEW k \in Stored, ~Expired(k), store[k].until # NoTtl
               PROVE  store[k].until >= now
    BY DEF ServableIsFresh
  <2>1. expiry[k] = store[k].until
    BY DEF Inv, DeadlinesKept
  <2>2. k \in Keys /\ expiry[k] \in Nat /\ now \in Nat
    BY <2>1 DEF Inv, TypeOK, Stored, Deadlines
  <2> QED  BY <2>1, <2>2 DEF Expired
<1> QED  BY Invariant, <1>1, PTL

\* InMemoryCache implements the contract of a cache: each step is a set, a get, a
\* clear or a stutter of CacheContract.
THEOREM Implementation == Spec => MemoryImplementsContract
<1>1. Init => Contract!CInit
  BY DEF Init, Contract!CInit
<1>2. Inv /\ Inv' /\ [Next]_vars => [Contract!CNext]_(Contract!cvars)
  <2> SUFFICES ASSUME Inv, Inv', [Next]_vars
               PROVE  [Contract!CNext]_(Contract!cvars)
    OBVIOUS
  <2>1. ASSUME NEW c \in Clients, NEW k \in Keys, GetExpired(c, k)
        PROVE  Contract!CGet(c, k)
    BY <2>1 DEF GetExpired, Contract!CGet
  <2>2. ASSUME NEW c \in Clients, NEW k \in Keys, Get(c, k)
        PROVE  Contract!CGet(c, k)
    <3>1. store[k] = NoEntry \/ store[k] = last[k]
      BY DEF Inv, HoldsLast, Stored
    <3> QED  BY <2>2, <3>1 DEF Get, Contract!CGet
  <2>3. ASSUME NEW k \in Keys, NEW v \in Values, NEW ttl \in Ttls \union {NoTtl},
               Set(k, v, ttl)
        PROVE  Contract!CSet(k)
    <3> DEFINE e == [val |-> v, until |-> Deadline(ttl)]
    <3>1. last' = [last EXCEPT ![k] = e] /\ UNCHANGED view
      BY <2>3 DEF Set
    <3>2. e \in Entries
      BY DEF Deadline, Deadlines, Entries, Inv, TypeOK, MemoryCacheAssumption
    <3> HIDE DEF e
    <3>3. last'[k] = e
      BY <3>1 DEF Inv, TypeOK
    <3> QED  BY <3>1, <3>2, <3>3 DEF Contract!CSet
  <2>4. CASE Clear
    <3>1. Contract!CClear(Keys)
      BY <2>4 DEF Clear, Contract!CClear
    <3> QED  BY <3>1 DEF Contract!CNext
  <2>5. CASE Tick
    BY <2>5 DEF Tick, Contract!cvars
  <2>6. CASE UNCHANGED vars
    BY <2>6 DEF vars, Contract!cvars
  <2> QED  BY <2>1, <2>2, <2>3, <2>4, <2>5, <2>6 DEF Next, Contract!CNext
<1>3. Spec => Contract!CInit /\ [][Contract!CNext]_(Contract!cvars)
  BY Invariant, <1>1, <1>2, PTL DEF Spec
<1> QED  BY <1>3 DEF MemoryImplementsContract, Contract!CSpec
=============================================================================
