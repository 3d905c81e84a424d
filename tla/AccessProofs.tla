---------------------------- MODULE AccessProofs ----------------------------
(***************************************************************************)
(* Machine-checked proofs about Access, for any number of requests in      *)
(* flight, groups, users, invites and credentials, and any limits of the   *)
(* rate limiters.  What the tables promise does not depend on the limiters, *)
(* which only ever refuse a request: their methods come first, by           *)
(* themselves, and what the handlers do with them last.                     *)
(***************************************************************************)
EXTENDS Access, FiniteSetTheorems, TLAPS

-----------------------------------------------------------------------------
USE LimiterAssumption

(* The doubling delay.  Doubled is defined by recursion: that such a         *)
(* function exists, and what values it takes, is shown by looking at the      *)
(* first number that would be an exception.                                   *)

(* A set of numbers without a first one is empty. *)
LEMMA NoFirst ==
    ASSUME NEW S \in SUBSET Nat,
           \A n \in S : \E m \in S : m < n
    PROVE  S = {}
<1> SUFFICES ASSUME S # {} PROVE FALSE
  OBVIOUS
<1>1. PICK R : R = OpToRel(<, Nat)
  OBVIOUS
<1>2. IsWellFoundedOn(R, Nat)
  BY <1>1, NatLessThanWellFounded
<1>3. PICK x \in S : \A y \in S : ~(<<y, x>> \in R)
  BY <1>2, WFMin
<1>4. \A y \in S : <<y, x>> \in R <=> y < x
  BY <1>1 DEF OpToRel
<1> QED BY <1>3, <1>4

Further(d) == IF d < MaxDelay THEN 2 * d ELSE d

(* g holds the delays of the first n shifts. *)
DelaysTo(g, n) ==
  /\ g \in [0..n -> Nat]
  /\ g[0] = BaseDelay
  /\ \A k \in 1..n : g[k] = Further(g[k - 1])

(* A doubling at or below the limit stays a number. *)
LEMMA FurtherType == \A d \in Nat : Further(d) \in Nat
  BY DEF Further

(* A table of the delays up to any number of failures exists, by induction. *)
LEMMA DelaysExist == \A n \in Nat : \E g : DelaysTo(g, n)
<1> DEFINE S == {n \in Nat : ~\E g : DelaysTo(g, n)}
<1>1. ASSUME NEW n \in S PROVE \E m \in S : m < n
  <2>1. n # 0
    <3>1. DelaysTo([k \in 0..0 |-> BaseDelay], 0)
      BY DEF DelaysTo
    <3> QED BY <3>1
  <2> SUFFICES ASSUME n - 1 \notin S PROVE FALSE
    BY <2>1
  <2>2. n - 1 \in Nat
    BY <2>1
  <2>3. PICK g : DelaysTo(g, n - 1)
    BY <2>2
  <2>4. PICK h : h = [k \in 0..n |-> IF k = n THEN Further(g[n - 1]) ELSE g[k]]
    OBVIOUS
  <2>5. g[n - 1] \in Nat
    BY <2>2, <2>3 DEF DelaysTo
  <2>6. h \in [0..n -> Nat]
    <3>1. \A k \in 0..n : k # n => k \in 0..(n - 1)
      OBVIOUS
    <3>2. \A k \in 0..n : k # n => g[k] \in Nat
      BY <2>3, <3>1 DEF DelaysTo
    <3>3. Further(g[n - 1]) \in Nat
      BY <2>5, FurtherType
    <3> QED BY <2>4, <3>2, <3>3
  <2>7. h[0] = BaseDelay
    BY <2>1, <2>3, <2>4 DEF DelaysTo
  <2>8. \A k \in 1..n : h[k] = Further(h[k - 1])
    <3> SUFFICES ASSUME NEW k \in 1..n PROVE h[k] = Further(h[k - 1])
      OBVIOUS
    <3>1. h[k - 1] = g[k - 1]
      BY <2>4
    <3>2. CASE k = n
      BY ONLY <2>4, <3>1, <3>2, n \in Nat, k \in 1..n
    <3>3. CASE k # n
      <4>1. k \in 1..(n - 1) /\ k \in 0..n
        BY <3>3
      <4>2. h[k] = g[k]
        BY ONLY <2>4, <3>3, <4>1
      <4>3. g[k] = Further(g[k - 1])
        BY ONLY <2>3, <4>1 DEF DelaysTo
      <4> QED BY ONLY <3>1, <4>2, <4>3
    <3> QED BY ONLY <3>2, <3>3
  <2> QED BY <2>6, <2>7, <2>8 DEF DelaysTo
<1>2. S = {}
  <2> HIDE DEF S
  <2> QED BY <1>1, NoFirst DEF S
<1> QED BY <1>2

(* and it is the only one, so Delay computes it. *)
LEMMA DelaysUnique ==
    ASSUME NEW n \in Nat, NEW m \in Nat, NEW g, NEW h, DelaysTo(g, n), DelaysTo(h, m)
    PROVE  \A k \in Nat : k <= n /\ k <= m => g[k] = h[k]
<1> DEFINE S == {k \in Nat : k <= n /\ k <= m /\ g[k] # h[k]}
<1>1. ASSUME NEW k \in S PROVE \E j \in S : j < k
  <2>1. k # 0
    BY DEF DelaysTo
  <2>2. k - 1 \in Nat /\ k \in 1..n /\ k \in 1..m
    BY <2>1
  <2>3. g[k] = Further(g[k - 1]) /\ h[k] = Further(h[k - 1])
    BY <2>2 DEF DelaysTo
  <2>4. g[k - 1] # h[k - 1]
    BY <2>3
  <2> QED BY <2>2, <2>4
<1>2. S = {}
  <2> HIDE DEF S
  <2> QED BY <1>1, NoFirst DEF S
<1> QED BY <1>2

(* The recursion has its solution, and it takes natural numbers. *)
LEMMA DoubledType == Doubled \in [Nat -> Nat]
<1> DEFINE Body(g) == [shift \in Nat |->
             IF shift = 0 THEN BaseDelay
             ELSE LET d == g[shift - 1] IN IF d < MaxDelay THEN 2 * d ELSE d]
           D(n) == CHOOSE g : DelaysTo(g, n)
           F == [n \in Nat |-> D(n)[n]]
<1>1. \A n \in Nat : DelaysTo(D(n), n)
  BY DelaysExist
<1> HIDE DEF D
<1>2. \A n \in Nat : n # 0 => F[n] = Further(F[n - 1])
  <2> SUFFICES ASSUME NEW n \in Nat, n # 0 PROVE D(n)[n] = Further(D(n - 1)[n - 1])
    OBVIOUS
  <2>1. n - 1 \in Nat /\ n - 1 <= n /\ n \in 1..n
    OBVIOUS
  <2>2. DelaysTo(D(n), n) /\ DelaysTo(D(n - 1), n - 1)
    BY <1>1, <2>1
  <2>3. D(n)[n - 1] = D(n - 1)[n - 1]
    BY <2>1, <2>2, DelaysUnique
  <2> QED BY <2>1, <2>2, <2>3 DEF DelaysTo
<1>3. F[0] = BaseDelay
  BY <1>1 DEF DelaysTo
<1> HIDE DEF F
<1>4. F = Body(F)
  <2>1. \A n \in Nat : F[n] = Body(F)[n]
    BY <1>2, <1>3 DEF Further
  <2> QED BY <2>1 DEF F
<1>5. Doubled = CHOOSE g : g = Body(g)
  BY DEF Doubled
<1>6. Doubled = Body(Doubled)
  BY <1>4, <1>5
<1>7. \A n \in Nat : Doubled[n] = IF n = 0 THEN BaseDelay ELSE Further(Doubled[n - 1])
  BY <1>6 DEF Further
<1>8. DOMAIN Doubled = Nat /\ Doubled = [n \in Nat |-> Doubled[n]]
  BY <1>6
<1> DEFINE S == {n \in Nat : Doubled[n] \notin Nat}
<1>9. ASSUME NEW n \in S PROVE \E m \in S : m < n
  <2>1. n # 0
    BY <1>7
  <2>2. n - 1 \in Nat /\ Doubled[n] = Further(Doubled[n - 1])
    BY <1>7, <2>1
  <2>3. Doubled[n - 1] \notin Nat
    BY <2>2, FurtherType
  <2> QED BY <2>2, <2>3
<1>10. S = {}
  <2> HIDE DEF S
  <2> QED BY <1>9, NoFirst DEF S
<1> QED BY <1>8, <1>10

(* The delay after any number of failures is between zero and the limit. *)
LEMMA DelayType ==
    ASSUME NEW n \in Nat, n > FreeAttempts
    PROVE  Delay(n) \in 0..MaxDelay
<1>1. n - FreeAttempts - 1 \in Nat
  OBVIOUS
<1>2. PICK d \in Nat : d = Doubled[n - FreeAttempts - 1]
  BY <1>1, DoubledType
<1> QED BY <1>2 DEF Delay

-----------------------------------------------------------------------------
(* The limiters. *)

Entry(K) == [key : K, failures : Nat, wait : 0..MaxDelay]

(* One entry per key, *)
OnePerKey(entries) ==
  \A j, k \in DOMAIN entries : entries[j].key = entries[k].key => j = k
(* not too many of them, and no wait too long. *)
Bounded(entries, K) ==
  /\ entries \in Seq(Entry(K))
  /\ Len(entries) <= MaxEntries
  /\ OnePerKey(entries)

(* The elements of a concatenation. *)
LEMMA Concatenated ==
    ASSUME NEW S, NEW a \in Seq(S), NEW b \in Seq(S)
    PROVE  /\ a \o b \in Seq(S) /\ Len(a \o b) = Len(a) + Len(b)
           /\ \A k \in 1..Len(a) : (a \o b)[k] = a[k]
           /\ \A k \in 1..Len(b) : (a \o b)[Len(a) + k] = b[k]
OBVIOUS

(* An entry in front of the others, of a key that they do not have. *)
LEMMA PutInFront ==
    ASSUME NEW K, NEW s, Bounded(s, K), Len(s) < MaxEntries, NEW e \in Entry(K), ~Known(s, e.key)
    PROVE  Bounded(<<e>> \o s, K)
<1> DEFINE t == <<e>> \o s
<1>1. t \in Seq(Entry(K)) /\ Len(t) = Len(s) + 1
  BY DEF Bounded
<1>2. t[1] = e /\ \A k \in 2..Len(t) : t[k] = s[k - 1]
  BY <1>1 DEF Bounded
<1>3. \A k \in 2..Len(t) : k - 1 \in DOMAIN s /\ t[k].key # e.key
  BY <1>1, <1>2 DEF Bounded, Known
<1> HIDE DEF t
<1>4. OnePerKey(t)
  <2> SUFFICES ASSUME NEW j \in DOMAIN t, NEW k \in DOMAIN t, t[j].key = t[k].key PROVE j = k
    BY DEF OnePerKey
  <2>1. j \in 1..Len(t) /\ k \in 1..Len(t)
    BY <1>1
  <2>2. CASE j = 1 \/ k = 1
    BY <1>1, <1>2, <1>3, <2>1, <2>2
  <2>3. CASE j # 1 /\ k # 1
    <3>1. j \in 2..Len(t) /\ k \in 2..Len(t)
      BY <1>1, <2>1, <2>3
    <3>2. s[j - 1].key = s[k - 1].key
      BY ONLY <1>2, <3>1, t[j].key = t[k].key
    <3>3. j - 1 \in DOMAIN s /\ k - 1 \in DOMAIN s
      BY ONLY <1>3, <3>1
    <3>4. j - 1 = k - 1
      BY ONLY Bounded(s, K), <3>2, <3>3 DEF Bounded, OnePerKey
    <3> QED BY ONLY <1>1, <3>1, <3>4
  <2> QED BY <2>2, <2>3
<1> QED BY <1>1, <1>4 DEF Bounded, t

(* The part of a sequence from one place to another. *)
LEMMA Slice ==
    ASSUME NEW S, NEW s \in Seq(S), NEW i \in Nat \ {0}, NEW j \in 0..Len(s), i <= j + 1
    PROVE  /\ SubSeq(s, i, j) \in Seq(S) /\ Len(SubSeq(s, i, j)) = (j - i) + 1
           /\ \A k \in 1..((j - i) + 1) : SubSeq(s, i, j)[k] = s[(i - 1) + k]
<1>1. Len(s) \in Nat /\ j \in Nat /\ j <= Len(s)
  OBVIOUS
<1>2. SubSeq(s, i, j) \in Seq(S) /\ Len(SubSeq(s, i, j)) = (j - i) + 1
  BY <1>1
<1>3. \A k \in 1..((j - i) + 1) : SubSeq(s, i, j)[k] = s[(i - 1) + k]
  BY <1>1
<1> QED BY ONLY <1>2, <1>3

(* A sequence without the element at position p. *)
LEMMA OneOut ==
    ASSUME NEW S, NEW s \in Seq(S), NEW p \in 1..Len(s)
    PROVE  /\ TakeOut(s, p) \in Seq(S) /\ Len(TakeOut(s, p)) = Len(s) - 1
           /\ \A k \in 1..(p - 1) : TakeOut(s, p)[k] = s[k]
           /\ \A k \in p..(Len(s) - 1) : TakeOut(s, p)[k] = s[k + 1]
<1>0. PICK n \in Nat : Len(s) = n
  OBVIOUS
<1>p. p \in 1..n
  BY ONLY <1>0, p \in 1..Len(s)
<1> USE <1>p
<1>1. PICK a : a = SubSeq(s, 1, p - 1)
  OBVIOUS
<1>2. PICK b : b = SubSeq(s, p + 1, n)
  OBVIOUS
<1>3. TakeOut(s, p) = a \o b
  BY ONLY <1>0, <1>1, <1>2 DEF TakeOut
<1>4. a \in Seq(S) /\ Len(a) = p - 1 /\ \A k \in 1..(p - 1) : a[k] = s[k]
  BY <1>1, Slice
<1>5. b \in Seq(S) /\ Len(b) = n - p /\ \A k \in 1..(n - p) : b[k] = s[p + k]
  <2>1. p + 1 \in Nat \ {0} /\ n \in 0..n /\ p + 1 <= n + 1 /\ (n - (p + 1)) + 1 = n - p /\ (p + 1) - 1 = p
    OBVIOUS
  <2>2. /\ b \in Seq(S) /\ Len(b) = (n - (p + 1)) + 1
        /\ \A k \in 1..((n - (p + 1)) + 1) : b[k] = s[((p + 1) - 1) + k]
    BY ONLY <1>0, <1>2, <2>1, Slice, s \in Seq(S)
  <2> QED BY ONLY <2>1, <2>2
<1>6. a \o b \in Seq(S) /\ Len(a \o b) = n - 1
  <2>1. a \o b \in Seq(S) /\ Len(a \o b) = Len(a) + Len(b)
    BY ONLY <1>4, <1>5, Concatenated, Zenon
  <2>2. (p - 1) + (n - p) = n - 1
    OBVIOUS
  <2> QED BY ONLY <1>4, <1>5, <2>1, <2>2
<1>7. \A k \in 1..(p - 1) : (a \o b)[k] = s[k]
  BY ONLY <1>4, <1>5, Concatenated
<1>8. ASSUME NEW k \in p..(n - 1) PROVE (a \o b)[k] = s[k + 1]
  <2>1. PICK j \in 1..(n - p) : k = (p - 1) + j /\ p + j = k + 1
    <3>1. k - (p - 1) \in 1..(n - p)
      OBVIOUS
    <3> QED BY <3>1
  <2>2. (a \o b)[(p - 1) + j] = b[j]
    BY ONLY <1>4, <1>5, Concatenated, j \in 1..(n - p)
  <2> QED BY ONLY <1>5, <2>1, <2>2, j \in 1..(n - p)
<1> QED BY ONLY <1>0, <1>3, <1>6, <1>7, <1>8

(* The entries without the one at position p: shorter, and all of them from *)
(* the list.                                                                 *)
LEMMA TakenOut ==
    ASSUME NEW K, NEW s, Bounded(s, K), NEW p \in DOMAIN s
    PROVE  /\ Bounded(TakeOut(s, p), K)
           /\ Len(TakeOut(s, p)) = Len(s) - 1
           /\ ~Known(TakeOut(s, p), s[p].key)
<1> DEFINE At(k) == IF k < p THEN k ELSE k + 1
<1>1. PICK n \in Nat : Len(s) = n
  BY DEF Bounded
<1>2. s \in Seq(Entry(K)) /\ p \in 1..n /\ DOMAIN s = 1..n /\ n <= MaxEntries
  BY <1>1 DEF Bounded
<1>3. PICK t : t = TakeOut(s, p)
  OBVIOUS
<1>4. /\ t \in Seq(Entry(K)) /\ Len(t) = n - 1
      /\ \A k \in 1..(p - 1) : t[k] = s[k]
      /\ \A k \in p..(n - 1) : t[k] = s[k + 1]
  <2>1. p \in 1..Len(s)
    BY ONLY <1>1, <1>2
  <2>2. /\ TakeOut(s, p) \in Seq(Entry(K)) /\ Len(TakeOut(s, p)) = Len(s) - 1
        /\ \A k \in 1..(p - 1) : TakeOut(s, p)[k] = s[k]
        /\ \A k \in p..(Len(s) - 1) : TakeOut(s, p)[k] = s[k + 1]
    BY ONLY <1>2, <2>1, OneOut
  <2> QED BY ONLY <1>1, <1>3, <2>2
<1>5. DOMAIN t = 1..(n - 1)
  <2>1. DOMAIN t = 1..Len(t)
    BY ONLY <1>4
  <2> QED BY ONLY <1>4, <2>1
<1>6. ASSUME NEW k \in 1..(n - 1) PROVE At(k) \in 1..n /\ At(k) # p /\ t[k] = s[At(k)]
  <2>1. CASE k < p
    BY ONLY <1>2, <1>4, <2>1, k \in 1..(n - 1), n \in Nat
  <2>2. CASE ~(k < p)
    <3>1. k \in p..(n - 1) /\ k + 1 \in 1..n /\ k + 1 # p
      BY ONLY <1>2, <2>2, k \in 1..(n - 1), n \in Nat
    <3> QED BY ONLY <1>4, <2>2, <3>1
  <2> QED BY <2>1, <2>2
<1>7. \A j, k \in 1..(n - 1) : At(j) = At(k) => j = k
  BY ONLY <1>2, n \in Nat
<1> HIDE DEF At
<1>8. \A j, k \in 1..n : s[j].key = s[k].key => j = k
  BY <1>2 DEF Bounded, OnePerKey
<1>9. OnePerKey(t)
  BY ONLY <1>5, <1>6, <1>7, <1>8 DEF OnePerKey
<1>10. ~Known(t, s[p].key)
  BY ONLY <1>2, <1>5, <1>6, <1>8 DEF Known
<1>11. Len(t) <= MaxEntries
  BY <1>2, <1>4
<1> QED BY ONLY <1>1, <1>3, <1>4, <1>9, <1>10, <1>11 DEF Bounded

(* What MoveToFront and the removal of a known entry leave. *)
LEMMA FoundAt ==
    ASSUME NEW K, NEW s, Bounded(s, K), NEW key, Known(s, key)
    PROVE  /\ PositionOf(s, key) \in DOMAIN s
           /\ s[PositionOf(s, key)].key = key
           /\ EntryOf(s, key) \in Entry(K)
           /\ EntryOf(s, key).key = key
<1>1. PositionOf(s, key) \in DOMAIN s /\ s[PositionOf(s, key)].key = key
  BY DEF Known, PositionOf
<1> QED BY <1>1 DEF EntryOf, Bounded

(* Moving an entry to the front of the list keeps the bound and the keys. *)
LEMMA MovedToFront ==
    ASSUME NEW K, NEW s, Bounded(s, K), NEW key, Known(s, key)
    PROVE  /\ Bounded(MoveToFront(s, key), K)
           /\ Len(MoveToFront(s, key)) > 0
<1>1. PICK p \in DOMAIN s : p = PositionOf(s, key) /\ s[p].key = key
  BY FoundAt
<1>2. PICK e \in Entry(K) : e = EntryOf(s, key) /\ e.key = key
  BY FoundAt
<1>3. PICK t : t = TakeOut(s, p)
  OBVIOUS
<1>4. Bounded(t, K) /\ Len(t) = Len(s) - 1 /\ ~Known(t, key)
  BY <1>1, <1>3, TakenOut
<1>5. Len(t) < MaxEntries
  BY <1>4 DEF Bounded
<1>6. Bounded(<<e>> \o t, K)
  BY <1>2, <1>4, <1>5, PutInFront
<1>7. Len(<<e>> \o t) > 0
  BY <1>4 DEF Bounded
<1> QED BY <1>1, <1>2, <1>3, <1>6, <1>7 DEF MoveToFront, Without

(* Allow keeps the entries bounded. *)
LEMMA AllowKeeps ==
    ASSUME NEW K, NEW s, Bounded(s, K), NEW key
    PROVE  Bounded(AfterAllow(s, key), K)
  BY MovedToFront DEF AfterAllow

(* RecordSuccess keeps the entries bounded. *)
LEMMA SuccessKeeps ==
    ASSUME NEW K, NEW s, Bounded(s, K), NEW key
    PROVE  Bounded(RecordSuccess(s, key), K)
  BY FoundAt, TakenOut DEF RecordSuccess, Without

(* A full limiter makes room first. *)
LEMMA InsertKeeps ==
    ASSUME NEW K, NEW s, Bounded(s, K), NEW key \in K, ~Known(s, key)
    PROVE  Bounded(insertLocked(s, key), K) /\ Len(insertLocked(s, key)) > 0
<1>1. PICK room : room = IF Len(s) >= MaxEntries THEN SubSeq(s, 1, Len(s) - 1) ELSE s
  OBVIOUS
<1>2. PICK e : e = [key |-> key, failures |-> 0, wait |-> 0]
  OBVIOUS
<1>7. e \in Entry(K) /\ e.key = key
  <2>1. 0 \in 0..MaxDelay
    OBVIOUS
  <2> QED BY <1>2, <2>1 DEF Entry
<1>3. s \in Seq(Entry(K)) /\ Len(s) \in Nat /\ DOMAIN s = 1..Len(s)
  BY DEF Bounded
<1>4. Bounded(room, K) /\ Len(room) < MaxEntries /\ ~Known(room, key)
  <2>1. CASE Len(s) < MaxEntries
    BY <1>1, <1>3, <2>1
  <2>2. CASE Len(s) >= MaxEntries
    <3>1. Len(s) = MaxEntries /\ Len(s) > 0 /\ room = SubSeq(s, 1, Len(s) - 1)
      BY <1>1, <1>3, <2>2 DEF Bounded
    <3>2. /\ room \in Seq(Entry(K)) /\ Len(room) = Len(s) - 1 /\ DOMAIN room = 1..(Len(s) - 1)
          /\ \A k \in 1..(Len(s) - 1) : room[k] = s[k]
      BY <1>3, <3>1
    <3>3. \A k \in DOMAIN room : k \in DOMAIN s /\ room[k] = s[k]
      BY <1>3, <3>1, <3>2
    <3>4. OnePerKey(room)
      BY <3>3 DEF OnePerKey, Bounded
    <3>5. ~Known(room, key)
      BY <3>3 DEF Known
    <3> QED BY <3>1, <3>2, <3>4, <3>5 DEF Bounded
  <2> QED BY <1>3, <2>1, <2>2
<1>5. Bounded(<<e>> \o room, K)
  BY <1>4, <1>7, PutInFront
<1>6. Len(<<e>> \o room) > 0
  BY <1>4 DEF Bounded
<1> QED BY <1>1, <1>2, <1>5, <1>6 DEF insertLocked

(* RecordFailure keeps the entries bounded: it evicts before it inserts. *)
LEMMA FailureKeeps ==
    ASSUME NEW K, NEW s, Bounded(s, K), NEW key \in K
    PROVE  Bounded(RecordFailure(s, key), K)
<1>1. PICK f : f = IF Known(s, key) THEN MoveToFront(s, key) ELSE insertLocked(s, key)
  OBVIOUS
<1>2. Bounded(f, K) /\ Len(f) > 0
  BY <1>1, MovedToFront, InsertKeeps
<1>3. f \in Seq(Entry(K)) /\ 1 \in DOMAIN f /\ f[1] \in Entry(K)
  BY <1>2 DEF Bounded
<1>4. PICK n : n = IF f[1].failures < FailureCeiling THEN f[1].failures + 1 ELSE f[1].failures
  OBVIOUS
<1>5. n \in Nat
  BY <1>3, <1>4 DEF Entry
<1>6. PICK w : w = IF n <= FreeAttempts THEN f[1].wait ELSE Delay(n)
  OBVIOUS
<1>7. w \in 0..MaxDelay
  BY <1>3, <1>5, <1>6, DelayType DEF Entry
<1>8. PICK e : e = [f[1] EXCEPT !.failures = n, !.wait = w]
  OBVIOUS
<1>9. e \in Entry(K) /\ e.key = f[1].key
  BY <1>3, <1>5, <1>7, <1>8 DEF Entry
<1>10. PICK g : g = [f EXCEPT ![1] = e]
  OBVIOUS
<1>11. RecordFailure(s, key) = g
  <2>1. RecordFailure(s, key) = [f EXCEPT ![1].failures = n, ![1].wait = IF n <= FreeAttempts THEN @ ELSE Delay(n)]
    BY <1>1, <1>4 DEF RecordFailure
  <2> QED BY <1>3, <1>6, <1>8, <1>10, <2>1 DEF Entry
<1>12. g \in Seq(Entry(K)) /\ Len(g) = Len(f) /\ DOMAIN g = DOMAIN f
  BY <1>3, <1>9, <1>10
<1>13. \A k \in DOMAIN g : g[k].key = f[k].key
  BY <1>3, <1>9, <1>10, <1>12
<1> QED BY <1>2, <1>11, <1>12, <1>13 DEF Bounded, OnePerKey

(* The passing of time keeps the entries bounded. *)
LEMMA ElapseKeeps ==
    ASSUME NEW K, NEW s, Bounded(s, K)
    PROVE  Bounded(Elapse(s), K)
<1>1. s \in Seq(Entry(K)) /\ Len(s) \in Nat /\ DOMAIN s = 1..Len(s)
  BY DEF Bounded
<1>2. PICK t : t = Elapse(s)
  OBVIOUS
<1>3. DOMAIN t = 1..Len(s) /\ \A k \in 1..Len(s) : t[k] = [s[k] EXCEPT !.wait = IF @ = 0 THEN 0 ELSE @ - 1]
  BY <1>1, <1>2 DEF Elapse
<1>4. ASSUME NEW k \in 1..Len(s) PROVE t[k] \in Entry(K) /\ t[k].key = s[k].key
  <2>1. s[k] \in Entry(K)
    BY <1>1
  <2>2. PICK w : w = IF s[k].wait = 0 THEN 0 ELSE s[k].wait - 1
    OBVIOUS
  <2>3. w \in 0..MaxDelay
    BY <2>1, <2>2 DEF Entry
  <2>4. t[k] = [s[k] EXCEPT !.wait = w]
    BY <1>3, <2>2
  <2> QED BY <2>1, <2>3, <2>4 DEF Entry
<1>5. t = [k \in 1..Len(s) |-> t[k]]
  BY <1>1, <1>2 DEF Elapse
<1>6. t \in Seq(Entry(K)) /\ Len(t) = Len(s)
  BY <1>1, <1>4, <1>5
<1> QED BY <1>2, <1>3, <1>4, <1>1, <1>6 DEF Bounded, OnePerKey

(* One key or two, one after the other. *)
LEMMA AttemptKeeps ==
    ASSUME NEW K, NEW s, Bounded(s, K), NEW keys \in Seq(K), Len(keys) \in {1, 2}
    PROVE  /\ Bounded(AfterAllowAll(s, keys), K)
           /\ Bounded(FailAll(s, keys), K)
           /\ Bounded(SucceedAll(s, keys), K)
<1>1. keys[1] \in K /\ (Len(keys) # 1 => keys[2] \in K)
  OBVIOUS
<1>2. Bounded(FailAll(s, keys), K)
  BY <1>1, FailureKeeps DEF FailAll, Each
<1>3. Bounded(SucceedAll(s, keys), K)
  BY <1>1, SuccessKeeps DEF SucceedAll, Each
<1>4. PICK asked : asked = Asked(s, keys)
  OBVIOUS
<1>5. Bounded(AfterAllowAll(s, keys), K)
  BY <1>4, AllowKeeps DEF AfterAllowAll, Each
<1> QED BY <1>2, <1>3, <1>5
-----------------------------------------------------------------------------
HIDE LimiterAssumption
USE AccessAssumption

(* The invariant. *)

UserRow == [group : Group \cup {None}, role : {"none", "owner", "member"},
            password : Password \cup {None}, stale : BOOLEAN,
            invite : Invite \cup {None}, resets : Nat]
InviteRow == [group : Group \cup {None}, state : {"none", "open", "revoked", "expired"},
              redeemedBy : Name \cup {None}]
CredRow == [user : Name \cup {None}, state : {"none", "live", "ended"}, resets : Nat]

TablesType ==
  /\ groups \subseteq Group
  /\ users \in [Name -> UserRow]
  /\ invites \in [Invite -> InviteRow]
  /\ creds \in [Credential -> CredRow]

(* Foreign keys: a user, an invite and a live credential point at rows that *)
(* exist, so an unused username has nothing to inherit.                     *)
References ==
  /\ \A n \in Name : Exists(n) => users[n].group \in groups
  /\ \A n \in Name : ~Exists(n) => users[n].invite = None
  /\ \A i \in Invite : invites[i].state # "none" => invites[i].group \in groups
  /\ \A c \in Credential : creds[c].state = "live" => creds[c].user \in Name /\ Exists(creds[c].user)

(* What a request has read stays true until it acts on it: users, groups    *)
(* and invites do not go away.                                              *)
InFlight(r) ==
  /\ r.pc \in {"registerFirst", "registerNew", "redeem", "verify", "rehash", "mint", "scoped"}
       => r.name \in Name
  /\ r.pc \in {"registerFirst", "registerNew", "redeem", "verify", "rehash", "mint"}
       => r.password \in Password
  /\ r.pc = "registerNew" => open
  /\ r.pc = "redeem" => r.invite \in Invite /\ invites[r.invite].state # "none"
  /\ r.pc = "verify" /\ r.user.role # "none" => Exists(r.name)
  /\ r.pc \in {"rehash", "mint", "scoped"} => Exists(r.name)
  /\ r.pc = "scoped" => r.cred \in Credential /\ r.group \in groups

RequestsOK == req = [p \in Proc |-> req[p]] /\ \A p \in Proc : InFlight(req[p])

(* One owner per group, one group unless registration is open. *)
Owners(g) == {n \in Name : users[n].group = g /\ users[n].role = "owner"}
OneOwner == \A g \in groups : \E n \in Name : Owners(g) = {n}
OneGroup == open \/ \A g, h \in groups : g = h

AccessInv ==
  /\ TablesType /\ References /\ RequestsOK
  /\ OneOwner /\ OneGroup /\ OneMemberPerInvite /\ ResetCutsOff

tables == <<open, groups, users, invites, creds>>

-----------------------------------------------------------------------------
(* Requests in flight. *)

(* Tables that only grow keep what the other requests have read. *)
Grows ==
  /\ open' = open
  /\ groups \subseteq groups'
  /\ \A n \in Name : Exists(n) => Exists(n)'
  /\ \A i \in Invite : invites[i].state # "none" => invites'[i].state # "none"

(* One request moves on, to a state that is right. *)
Moved(p) == req' = [q \in Proc |-> req'[q]] /\ \A q \in Proc \ {p} : req'[q] = req[q]

(* A step of one request moves that request only. *)
LEMMA GoesMoves ==
    ASSUME RequestsOK, NEW p \in Proc, NEW from, NEW to, Goes(p, from, to)
    PROVE  Moved(p) /\ req[p].pc = from /\ req'[p] = to
  BY DEF RequestsOK, Goes, Moved

(* The other requests stay in order while the tables only grow. *)
LEMMA RequestMoves ==
    ASSUME Grows, RequestsOK, NEW p \in Proc, Moved(p), InFlight(req[p])'
    PROVE  RequestsOK'
<1>1. ASSUME NEW q \in Proc PROVE InFlight(req[q])'
  <2>1. CASE q = p
    BY <2>1
  <2>2. CASE q # p
    BY <2>2 DEF Moved, RequestsOK, InFlight, Grows
  <2> QED
    BY <2>1, <2>2
<1> QED
  BY <1>1 DEF RequestsOK, Moved

(* So do all of them when none takes a step. *)
LEMMA RequestsStay ==
    ASSUME Grows, RequestsOK, UNCHANGED req
    PROVE  RequestsOK'
<1>1. ASSUME NEW q \in Proc PROVE InFlight(req[q])'
  BY DEF RequestsOK, InFlight, Grows
<1> QED
  BY <1>1 DEF RequestsOK

(* Tables that do not change grow trivially. *)
LEMMA SameTablesGrow ==
    ASSUME UNCHANGED tables
    PROVE  Grows
  BY DEF tables, Grows, Exists

(* A request that has answered is idle. *)
LEMMA AnswerOK ==
    ASSUME Grows, RequestsOK, NEW p \in Proc, NEW from, Goes(p, from, Idle)
    PROVE  RequestsOK'
<1>1. Moved(p) /\ req'[p] = Idle
  BY GoesMoves
<1>2. InFlight(req[p])'
  BY <1>1 DEF InFlight, Idle
<1> QED
  BY <1>1, <1>2, RequestMoves

(* The steps that only read. *)
LEMMA ReadersOK ==
    ASSUME TablesType, References, RequestsOK, NEW p \in Proc
    PROVE  /\ \A n \in Name, pw \in Password : RegisterBegin(p, n, pw) => RequestsOK'
           /\ RegisterTooLate(p) => RequestsOK'
           /\ \A i \in Invite, n \in Name, pw \in Password : RedeemBegin(p, i, n, pw) => RequestsOK'
           /\ \A n \in Name, pw \in Password : LoginBegin(p, n, pw) => RequestsOK'
           /\ LoginVerified(p) => RequestsOK'
           /\ \A c \in Credential : TenantScope(p, c) => RequestsOK'
<1>0. InFlight(req[p])
  BY DEF RequestsOK
<1>1. ASSUME NEW n \in Name, NEW pw \in Password, RegisterBegin(p, n, pw) PROVE RequestsOK'
  <2> DEFINE r == [pc |-> IF HasAnyGroup THEN "registerNew" ELSE "registerFirst",
                   name |-> n, password |-> pw]
  <2>1. Grows /\ Goes(p, "idle", r) /\ (HasAnyGroup => open) /\ open' = open
    BY <1>1, SameTablesGrow DEF RegisterBegin, tables
  <2>2. Moved(p) /\ req'[p] = r
    BY <2>1, GoesMoves
  <2>3. InFlight(req[p])'
    BY <2>1, <2>2 DEF InFlight
  <2> QED
    BY <2>1, <2>2, <2>3, RequestMoves
<1>2. ASSUME RegisterTooLate(p) PROVE RequestsOK'
  <2>1. Grows /\ open' = open
    BY <1>2, SameTablesGrow DEF RegisterTooLate, tables
  <2>2. CASE ~open
    BY <1>2, <2>1, <2>2, AnswerOK DEF RegisterTooLate
  <2>3. CASE open
    <3> DEFINE r == [req[p] EXCEPT !.pc = "registerNew"]
    <3>1. Goes(p, "registerFirst", r)
      BY <1>2, <2>3 DEF RegisterTooLate
    <3>2. Moved(p) /\ req[p].pc = "registerFirst" /\ req'[p] = r
      BY <3>1, GoesMoves
    <3>3. InFlight(req[p])'
      BY <1>0, <2>1, <2>3, <3>2 DEF InFlight
    <3> QED
      BY <2>1, <3>2, <3>3, RequestMoves
  <2> QED
    BY <2>2, <2>3
<1>3. ASSUME NEW i \in Invite, NEW n \in Name, NEW pw \in Password, RedeemBegin(p, i, n, pw)
      PROVE  RequestsOK'
  <2> DEFINE r == [pc |-> "redeem", name |-> n, password |-> pw, invite |-> i]
  <2>1. Grows /\ Goes(p, "idle", r) /\ invites' = invites /\ invites[i].state = "open"
    BY <1>3, SameTablesGrow DEF RedeemBegin, tables, InviteRedeemable, GetInviteForRedeem
  <2>2. Moved(p) /\ req'[p] = r
    BY <2>1, GoesMoves
  <2>3. InFlight(req[p])'
    BY <2>1, <2>2 DEF InFlight
  <2> QED
    BY <2>1, <2>2, <2>3, RequestMoves
<1>4. ASSUME NEW n \in Name, NEW pw \in Password, LoginBegin(p, n, pw) PROVE RequestsOK'
  <2> DEFINE r == [pc |-> "verify", name |-> n, password |-> pw, user |-> users[n]]
  <2>1. Grows /\ Goes(p, "idle", r) /\ users' = users
    BY <1>4, SameTablesGrow DEF LoginBegin, tables, UserForLogin, GetUserForLogin
  <2>2. Moved(p) /\ req'[p] = r
    BY <2>1, GoesMoves
  <2>3. InFlight(req[p])'
    BY <2>1, <2>2 DEF InFlight, Exists
  <2> QED
    BY <2>1, <2>2, <2>3, RequestMoves
<1>5. ASSUME LoginVerified(p) PROVE RequestsOK'
  <2> DEFINE r == [req[p] EXCEPT !.pc = IF req[p].user.stale THEN "rehash" ELSE "mint"]
  <2>1. Grows /\ Goes(p, "verify", r) /\ users' = users /\ req[p].user.role # "none"
    BY <1>5, SameTablesGrow DEF LoginVerified, tables
  <2>2. Moved(p) /\ req[p].pc = "verify" /\ req'[p] = r
    BY <2>1, GoesMoves
  <2>3. InFlight(req[p])'
    BY <1>0, <2>1, <2>2 DEF InFlight, Exists
  <2> QED
    BY <2>1, <2>2, <2>3, RequestMoves
<1>6. ASSUME NEW c \in Credential, TenantScope(p, c) PROVE RequestsOK'
  <2> DEFINE r == [pc |-> "scoped", name |-> creds[c].user, cred |-> c,
                   role |-> users[creds[c].user].role, group |-> users[creds[c].user].group]
  <2>1. /\ Grows /\ Goes(p, "idle", r) /\ users' = users /\ groups' = groups
        /\ creds[c].state = "live"
    BY <1>6, SameTablesGrow DEF TenantScope, tables, Authenticate, SessionAuth,
                                DeviceTokenAuth, GetSessionForAuth, GetDeviceTokenForAuth
  <2>2. Moved(p) /\ req'[p] = r
    BY <2>1, GoesMoves
  <2>3. creds[c].user \in Name /\ Exists(creds[c].user) /\ users[creds[c].user].group \in groups
    BY <2>1 DEF References
  <2>4. InFlight(req[p])'
    BY <2>1, <2>2, <2>3 DEF InFlight, Exists
  <2> QED
    BY <2>1, <2>2, <2>4, RequestMoves
<1> QED
  BY <1>1, <1>2, <1>3, <1>4, <1>5, <1>6

-----------------------------------------------------------------------------
(* The tables. *)

TablesInv ==
  /\ TablesType /\ References
  /\ OneOwner /\ OneGroup /\ OneMemberPerInvite /\ ResetCutsOff

(* A step that leaves the tables alone keeps what is said of them. *)
LEMMA TablesStay ==
    ASSUME TablesInv, UNCHANGED tables
    PROVE  TablesInv'
  BY DEF TablesInv, TablesType, References, OneOwner, Owners, OneGroup, OneMemberPerInvite,
         ResetCutsOff, Exists, tables

(* The columns an INSERT of a user gives make a row. *)
LEMMA UserRowType ==
    ASSUME NEW g \in Group \cup {None}, NEW role \in {"none", "owner", "member"},
           NEW pw \in Password \cup {None}, NEW i \in Invite \cup {None}
    PROVE  [group |-> g, role |-> role, password |-> pw, stale |-> FALSE, invite |-> i,
            resets |-> 0] \in UserRow
  BY DEF UserRow

(* A new user has the columns the statement gives and inherits nothing. *)
LEMMA CreateUserRow ==
    ASSUME TablesType, NEW n \in Name, NEW g, NEW role, NEW pw, NEW i,
           users' = CreateUser(n, g, role, pw, i)
    PROVE  /\ users' = [m \in Name |-> users'[m]]
           /\ \A m \in Name \ {n} : users'[m] = users[m]
           /\ users'[n] = [group |-> g, role |-> role, password |-> pw, stale |-> FALSE,
                           invite |-> i, resets |-> 0]
  BY DEF TablesType, CreateUser, NoUser

(* The owner of a new group. *)
LEMMA NewOwner ==
    ASSUME TablesInv, NEW n \in Name, NEW pw \in Password, ~Exists(n),
           NEW g \in Group \ groups, groups' = groups \cup {g}, open \/ groups = {},
           users' = CreateUser(n, g, "owner", pw, None),
           UNCHANGED <<open, invites, creds>>
    PROVE  TablesInv' /\ Grows
<1>1. /\ users' = [m \in Name |-> users'[m]]
      /\ \A m \in Name \ {n} : users'[m] = users[m]
      /\ users'[n] = [group |-> g, role |-> "owner", password |-> pw, stale |-> FALSE,
                      invite |-> None, resets |-> 0]
  BY CreateUserRow DEF TablesInv
<1>2. users'[n] \in UserRow /\ users'[n].group = g /\ users'[n].role = "owner"
      /\ users'[n].invite = None /\ users'[n].resets = 0
  <2>1. g \in Group \cup {None} /\ pw \in Password \cup {None} /\ None \in Invite \cup {None}
    OBVIOUS
  <2>2. users'[n].group = g /\ users'[n].role = "owner" /\ users'[n].invite = None
        /\ users'[n].resets = 0
    BY <1>1
  <2> QED
    BY <1>1, <2>1, <2>2, UserRowType
<1>3. TablesType'
  <2>1. users' \in [Name -> UserRow]
    BY <1>1, <1>2 DEF TablesInv, TablesType
  <2> QED
    BY <2>1 DEF TablesInv, TablesType
<1>4. References'
  <2>1. \A c \in Credential : creds[c].state = "live" => creds[c].user \in Name \ {n}
    BY DEF TablesInv, References
  <2>2. \A m \in Name : Exists(m)' <=> m = n \/ Exists(m)
    BY <1>1, <1>2 DEF Exists
  <2>3. \A m \in Name : Exists(m)' => users'[m].group \in groups'
    BY <1>1, <1>2, <2>2 DEF TablesInv, References
  <2>4. \A m \in Name : ~Exists(m)' => users'[m].invite = None
    BY <1>1, <1>2, <2>2 DEF TablesInv, References
  <2>5. \A c \in Credential : creds'[c].state = "live" =>
          creds'[c].user \in Name /\ \A m \in Name : m = creds'[c].user => Exists(m)'
    BY <2>1, <2>2 DEF TablesInv, References
  <2> QED
    BY <2>3, <2>4, <2>5 DEF TablesInv, References, Exists
<1>5. OneOwner'
  <2>1. ASSUME NEW h \in groups PROVE \E m \in Name : Owners(h)' = {m}
    <3>1. users[n].role = "none" /\ h # g
      BY DEF Exists
    <3>2. Owners(h)' = Owners(h)
      BY <1>1, <1>2, <3>1 DEF Owners
    <3> QED
      BY <3>2 DEF TablesInv, OneOwner
  <2>2. Owners(g)' = {n}
    <3>1. ASSUME NEW m \in Name, m # n PROVE ~(users'[m].group = g /\ users'[m].role = "owner")
      <4>1. users'[m] = users[m]
        BY <1>1, <3>1
      <4>2. users[m].role = "owner" => users[m].group \in groups
        BY DEF TablesInv, References, Exists
      <4> QED
        BY <4>1, <4>2
    <3> QED
      BY <1>2, <3>1 DEF Owners
  <2> QED
    BY <2>1, <2>2 DEF OneOwner
<1>6. OneGroup'
  BY DEF TablesInv, OneGroup
<1>7. OneMemberPerInvite'
  <2>1. \A m \in Name, i \in Invite : users'[m].invite = i <=> users[m].invite = i
    BY <1>1, <1>2 DEF TablesInv, References
  <2>2. \A i \in Invite : {m \in Name : users'[m].invite = i} = {m \in Name : users[m].invite = i}
    BY <2>1
  <2> QED
    BY <2>2 DEF TablesInv, OneMemberPerInvite
<1>8. ResetCutsOff'
  BY <1>1 DEF TablesInv, References, ResetCutsOff
<1>9. Grows
  BY <1>1, <1>2 DEF Grows, Exists
<1> QED
  BY <1>3, <1>4, <1>5, <1>6, <1>7, <1>8, <1>9 DEF TablesInv

(* Register: the check and the insert are one statement. *)
LEMMA RegisterOK ==
    ASSUME AccessInv, NEW p \in Proc, Register(p)
    PROVE  TablesInv' /\ Grows
<1> DEFINE n == req[p].name
           pw == req[p].password
           g == FreshGroup
<1>1. req[p].pc = "registerFirst" /\ n \in Name /\ pw \in Password
  BY DEF Register, Goes, AccessInv, RequestsOK, InFlight
<1>2. groups = {} /\ groups' = groups \cup {g}
  BY DEF Register, RegisterFirstUser, CreateGroupIfNone
<1>3. g \in Group \ groups
  BY <1>2 DEF FreshGroup
<1>4. ~Exists(n)
  BY <1>1, <1>2 DEF AccessInv, References
<1>5. users' = CreateUser(n, g, "owner", pw, None) /\ UNCHANGED <<open, invites, creds>>
  BY DEF Register, RegisterFirstUser
<1>6. TablesInv
  BY DEF AccessInv, TablesInv
<1> HIDE DEF n, pw, g
<1> QED
  BY <1>1, <1>2, <1>3, <1>4, <1>5, <1>6, NewOwner

(* registerNewGroup: only where registration is open. *)
LEMMA RegisterNewOK ==
    ASSUME AccessInv, NEW p \in Proc, registerNewGroup(p)
    PROVE  TablesInv' /\ Grows
<1> DEFINE n == req[p].name
           pw == req[p].password
           g == FreshGroup
<1>1. req[p].pc = "registerNew" /\ n \in Name /\ pw \in Password /\ open
  BY DEF registerNewGroup, Goes, AccessInv, RequestsOK, InFlight
<1>2. groups # Group /\ groups' = groups \cup {g} /\ ~Exists(n)
  BY DEF registerNewGroup, RegisterNewGroup, CreateGroup
<1>3. g \in Group \ groups
  BY <1>2 DEF FreshGroup, AccessInv, TablesType
<1>5. users' = CreateUser(n, g, "owner", pw, None) /\ UNCHANGED <<open, invites, creds>>
  BY DEF registerNewGroup, RegisterNewGroup
<1>6. TablesInv
  BY DEF AccessInv, TablesInv
<1> HIDE DEF n, pw, g
<1> QED
  BY <1>1, <1>2, <1>3, <1>5, <1>6, NewOwner

(* Redeem: the username is free and the invite is still unused, so both     *)
(* sides of OneMemberPerInvite gain the same one.                            *)
LEMMA RedeemOK ==
    ASSUME AccessInv, NEW p \in Proc, Redeem(p)
    PROVE  TablesInv' /\ Grows
<1> DEFINE n == req[p].name
           pw == req[p].password
           i == req[p].invite
           g == invites[i].group
<1>1. /\ req[p].pc = "redeem" /\ n \in Name /\ pw \in Password
      /\ i \in Invite /\ invites[i].state # "none"
  BY DEF Redeem, Goes, AccessInv, RequestsOK, InFlight
<1>2. /\ ~Exists(n) /\ users' = CreateUser(n, g, "member", pw, i)
      /\ invites[i].redeemedBy = None /\ invites' = [invites EXCEPT ![i].redeemedBy = n]
      /\ UNCHANGED <<open, groups, creds>>
  BY DEF Redeem, RedeemInvite, MarkInviteRedeemed, GetInviteForRedeem
<1>3. g \in groups /\ g \in Group
  BY <1>1 DEF AccessInv, References, TablesType
<1> HIDE DEF n, pw, i, g
<1>4. /\ users' = [m \in Name |-> users'[m]]
      /\ \A m \in Name \ {n} : users'[m] = users[m]
      /\ users'[n] = [group |-> g, role |-> "member", password |-> pw, stale |-> FALSE,
                      invite |-> i, resets |-> 0]
  BY <1>1, <1>2, CreateUserRow DEF AccessInv
<1>5. /\ users'[n] \in UserRow /\ users'[n].group = g /\ users'[n].role = "member"
      /\ users'[n].invite = i /\ users'[n].resets = 0
  BY <1>1, <1>3, <1>4 DEF UserRow
<1>6. /\ invites' \in [Invite -> InviteRow]
      /\ invites'[i].redeemedBy = n
      /\ \A j \in Invite : invites'[j].state = invites[j].state /\ invites'[j].group = invites[j].group
      /\ \A j \in Invite \ {i} : invites'[j] = invites[j]
  BY <1>1, <1>2 DEF AccessInv, TablesType, InviteRow
<1>7. TablesType'
  <2>1. users' \in [Name -> UserRow]
    BY <1>4, <1>5 DEF AccessInv, TablesType
  <2> QED
    BY <1>2, <1>6, <2>1 DEF AccessInv, TablesType
<1>8. References'
  <2>1. \A c \in Credential : creds[c].state = "live" => creds[c].user \in Name \ {n}
    BY <1>2 DEF AccessInv, References
  <2>2. \A m \in Name : Exists(m)' <=> m = n \/ Exists(m)
    BY <1>4, <1>5 DEF Exists
  <2>3. \A m \in Name : Exists(m)' => users'[m].group \in groups'
    BY <1>2, <1>3, <1>4, <1>5, <2>2 DEF AccessInv, References
  <2>4. \A m \in Name : ~Exists(m)' => users'[m].invite = None
    BY <1>4, <2>2 DEF AccessInv, References
  <2>5. \A c \in Credential : creds'[c].state = "live" =>
          creds'[c].user \in Name /\ \A m \in Name : m = creds'[c].user => Exists(m)'
    BY <1>2, <2>1, <2>2 DEF AccessInv, References
  <2>6. \A j \in Invite : invites'[j].state # "none" => invites'[j].group \in groups'
    BY <1>2, <1>6 DEF AccessInv, References
  <2> QED
    BY <2>3, <2>4, <2>5, <2>6 DEF References, Exists
<1>9. OneOwner'
  <2>1. ASSUME NEW h \in groups PROVE Owners(h)' = Owners(h)
    <3>1. users[n].role = "none"
      BY <1>2 DEF Exists
    <3> QED
      BY <1>4, <1>5, <3>1 DEF Owners
  <2> QED
    BY <1>2, <2>1 DEF AccessInv, OneOwner
<1>10. OneGroup'
  BY <1>2 DEF AccessInv, OneGroup
<1>11. OneMemberPerInvite'
  <2>1. users[n].invite = None
    BY <1>1, <1>2 DEF AccessInv, References
  <2>2. {m \in Name : users'[m].invite = i} = {n}
    <3>1. {m \in Name : users[m].invite = i} = {}
      BY <1>1, <1>2 DEF AccessInv, OneMemberPerInvite
    <3> QED
      BY <1>1, <1>4, <1>5, <3>1
  <2>3. ASSUME NEW j \in Invite \ {i}
        PROVE  {m \in Name : users'[m].invite = j} = {m \in Name : users[m].invite = j}
    BY <1>4, <1>5, <2>1
  <2>4. n # None
    BY <1>1
  <2> QED
    BY <1>6, <2>2, <2>3, <2>4 DEF AccessInv, OneMemberPerInvite
<1>12. ResetCutsOff'
  BY <1>2, <1>4 DEF AccessInv, References, ResetCutsOff
<1>13. Grows
  BY <1>2, <1>4, <1>5, <1>6 DEF Grows, Exists
<1> QED
  BY <1>7, <1>8, <1>9, <1>10, <1>11, <1>12, <1>13 DEF TablesInv

(* Users change only in their password, its age and their resets. *)
SameUsers ==
  /\ users' \in [Name -> UserRow]
  /\ \A n \in Name : /\ users'[n].role = users[n].role /\ users'[n].group = users[n].group
                     /\ users'[n].invite = users[n].invite

(* A credential that is live afterwards was live before, for the same user  *)
(* and since the same reset.                                                 *)
NoNewCredentials ==
  /\ creds' \in [Credential -> CredRow]
  /\ \A c \in Credential : creds'[c].state = "live" =>
       creds[c].state = "live" /\ creds'[c].user = creds[c].user /\ creds'[c].resets = creds[c].resets

(* A step that changes only password columns and ends credentials keeps all but ResetCutsOff. *)
LEMMA SameUsersInv ==
    ASSUME TablesInv, SameUsers, NoNewCredentials, ResetCutsOff', UNCHANGED <<open, groups, invites>>
    PROVE  TablesInv' /\ Grows
<1>1. \A n \in Name : Exists(n)' <=> Exists(n)
  BY DEF SameUsers, Exists
<1>2. TablesType'
  BY DEF TablesInv, TablesType, SameUsers, NoNewCredentials
<1>3. References'
  <2>1. \A n \in Name : (Exists(n)' => users'[n].group \in groups') /\ (~Exists(n)' => users'[n].invite = None)
    BY <1>1 DEF TablesInv, References, SameUsers
  <2>2. \A c \in Credential : creds'[c].state = "live" =>
          creds'[c].user \in Name /\ \A m \in Name : m = creds'[c].user => Exists(m)'
    BY <1>1 DEF TablesInv, References, NoNewCredentials
  <2> QED
    BY <2>1, <2>2 DEF TablesInv, References, Exists
<1>4. OneOwner'
  <2>1. \A g \in groups : Owners(g)' = Owners(g)
    BY DEF SameUsers, Owners
  <2> QED
    BY <2>1 DEF TablesInv, OneOwner
<1>5. OneGroup' /\ OneMemberPerInvite'
  <2>1. \A i \in Invite : {m \in Name : users'[m].invite = i} = {m \in Name : users[m].invite = i}
    BY DEF SameUsers
  <2> QED
    BY <2>1 DEF TablesInv, OneGroup, OneMemberPerInvite
<1>6. Grows
  BY <1>1 DEF Grows
<1> QED
  BY <1>2, <1>3, <1>4, <1>5, <1>6 DEF TablesInv

(* The rehash after a login with an outdated hash writes the same password again. *)
LEMMA RehashOK ==
    ASSUME AccessInv, NEW p \in Proc, RehashPassword(p)
    PROVE  TablesInv' /\ Grows /\ RequestsOK'
<1> DEFINE n == req[p].name
           pw == req[p].password
           r == [req[p] EXCEPT !.pc = "mint"]
<1>1. req[p].pc = "rehash" /\ n \in Name /\ pw \in Password /\ Goes(p, "rehash", r)
  BY DEF RehashPassword, Goes, AccessInv, RequestsOK, InFlight
<1>2. users' = [users EXCEPT ![n].password = pw, ![n].stale = FALSE]
      /\ UNCHANGED <<open, groups, invites, creds>>
  BY DEF RehashPassword, UpdateUserPasswordHash
<1>3. SameUsers /\ \A m \in Name : users'[m].resets = users[m].resets
  <2> HIDE DEF n, pw
  <2>1. users \in [Name -> UserRow]
    BY DEF AccessInv, TablesType
  <2>2. /\ users' = [m \in Name |-> users'[m]]
        /\ \A m \in Name \ {n} : users'[m] = users[m]
        /\ users'[n] = [users[n] EXCEPT !.password = pw, !.stale = FALSE]
    BY <1>1, <1>2, <2>1
  <2>3. users'[n] \in UserRow /\ users'[n].role = users[n].role /\ users'[n].group = users[n].group
        /\ users'[n].invite = users[n].invite /\ users'[n].resets = users[n].resets
    <3>1. users[n] \in UserRow
      BY <1>1, <2>1
    <3>2. users'[n] \in UserRow
      BY <1>1, <2>2, <3>1 DEF UserRow
    <3> QED
      BY <2>2, <3>1, <3>2 DEF UserRow
  <2> QED
    BY <1>1, <2>1, <2>2, <2>3 DEF SameUsers
<1>4. NoNewCredentials /\ ResetCutsOff'
  BY <1>2, <1>3 DEF AccessInv, TablesType, NoNewCredentials, References, ResetCutsOff
<1>5. TablesInv' /\ Grows
  BY <1>2, <1>3, <1>4, SameUsersInv DEF AccessInv, TablesInv
<1>6. Moved(p) /\ req'[p] = r
  BY <1>1, GoesMoves DEF AccessInv
<1>7. InFlight(req[p])'
  <2>1. InFlight(req[p])
    BY DEF AccessInv, RequestsOK
  <2> QED
    BY <1>1, <1>5, <1>6, <2>1 DEF InFlight, Grows
<1> QED
  BY <1>5, <1>6, <1>7, RequestMoves DEF AccessInv

(* A new session or device token of a user that exists. *)
LEMMA IssueOK ==
    ASSUME TablesInv, NEW c \in Credential, NEW n \in Name, Exists(n),
           creds' = Issued(c, n), UNCHANGED <<open, groups, users, invites>>
    PROVE  TablesInv' /\ Grows
<1>1. /\ creds' = [d \in Credential |-> creds'[d]]
      /\ \A d \in Credential \ {c} : creds'[d] = creds[d]
      /\ creds'[c] = [user |-> n, state |-> "live", resets |-> users[n].resets]
  BY DEF Issued, TablesInv, TablesType
<1>2. users[n].resets \in Nat
  BY DEF TablesInv, TablesType, UserRow
<1>3. creds'[c] \in CredRow
  BY <1>1, <1>2 DEF CredRow
<1>4. TablesType'
  BY <1>1, <1>3 DEF TablesInv, TablesType
<1>5. References'
  BY <1>1 DEF TablesInv, References, Exists
<1>6. ResetCutsOff'
  BY <1>1 DEF TablesInv, ResetCutsOff
<1>7. OneOwner' /\ OneGroup' /\ OneMemberPerInvite' /\ Grows
  BY DEF TablesInv, OneOwner, Owners, OneGroup, OneMemberPerInvite, Grows, Exists
<1> QED
  BY <1>4, <1>5, <1>6, <1>7 DEF TablesInv

(* Ending a credential. *)
LEMMA EndOK ==
    ASSUME TablesInv, NEW c \in Credential, creds' = [creds EXCEPT ![c] = Ended(creds, c)],
           UNCHANGED <<open, groups, users, invites>>
    PROVE  TablesInv' /\ Grows
<1>1. NoNewCredentials
  BY DEF TablesInv, TablesType, NoNewCredentials, Ended, CredRow
<1>2. SameUsers
  BY DEF TablesInv, TablesType, SameUsers
<1>3. ResetCutsOff'
  BY <1>1 DEF TablesInv, ResetCutsOff, NoNewCredentials
<1> QED
  BY <1>1, <1>2, <1>3, SameUsersInv

(* Invites that come into being or end. *)
LEMMA InvitesOK ==
    ASSUME TablesInv, invites' \in [Invite -> InviteRow],
           \A i \in Invite : /\ invites'[i].redeemedBy = invites[i].redeemedBy
                             /\ invites[i].state # "none" => invites'[i].state # "none"
                             /\ invites'[i].state # "none" => invites'[i].group \in groups,
           UNCHANGED <<open, groups, users, creds>>
    PROVE  TablesInv' /\ Grows
  BY DEF TablesInv, TablesType, References, OneOwner, Owners, OneGroup, OneMemberPerInvite,
         ResetCutsOff, Exists, Grows

(* The reset-password command: the user's credentials end with the step     *)
(* that counts the reset.                                                    *)
LEMMA ResetOK ==
    ASSUME AccessInv, NEW n \in Name, NEW pw \in Password, ResetPassword(n, pw)
    PROVE  TablesInv' /\ Grows
<1>1. /\ users' = [[users EXCEPT ![n].password = pw, ![n].stale = FALSE] EXCEPT ![n].resets = @ + 1]
      /\ creds' = RevokeAllDeviceTokensForUser(RevokeAllSessionsForUser(creds, n), n)
      /\ UNCHANGED <<open, groups, invites>>
  BY DEF ResetPassword, UpdateUserPasswordHash
<1>2. users \in [Name -> UserRow] /\ creds \in [Credential -> CredRow]
  BY DEF AccessInv, TablesType
<1>3. SameUsers /\ \A m \in Name \ {n} : users'[m] = users[m]
  BY <1>1, <1>2 DEF SameUsers, UserRow
<1>4. \A c \in Credential :
        creds'[c] = IF creds[c].user = n THEN Ended(creds, c) ELSE creds[c]
  <2> DEFINE t == RevokeAllSessionsForUser(creds, n)
  <2>1. \A c \in Credential :
          t[c] = IF c \in Session /\ creds[c].user = n THEN Ended(creds, c) ELSE creds[c]
    BY DEF RevokeAllSessionsForUser
  <2>2. \A c \in Credential : creds'[c] =
          IF c \in DeviceToken /\ t[c].user = n THEN Ended(t, c) ELSE t[c]
    BY <1>1 DEF RevokeAllDeviceTokensForUser
  <2>3. \A c \in Credential : /\ Ended(creds, c).user = creds[c].user
                              /\ Ended(creds, c).state # "live"
    BY <1>2 DEF Ended, CredRow
  <2>4. \A c \in Credential : t[c].user = creds[c].user
    BY <2>1, <2>3
  <2>5. ASSUME NEW c \in Credential, creds[c].user # n PROVE creds'[c] = creds[c]
    BY <2>1, <2>2, <2>4, <2>5
  <2>6. ASSUME NEW c \in Credential, creds[c].user = n PROVE creds'[c] = Ended(creds, c)
    <3>1. CASE c \in Session
      <4>1. t[c] = Ended(creds, c)
        BY <2>1, <2>6, <3>1
      <4>2. Ended(creds, c) \in CredRow /\ Ended(creds, c).state # "live"
        BY <1>2 DEF Ended, CredRow
      <4>3. Ended(t, c) = t[c]
        BY <4>1, <4>2 DEF Ended, CredRow
      <4> QED
        BY <2>2, <4>1, <4>3
    <3>2. CASE c \notin Session
      <4>1. t[c] = creds[c] /\ c \in DeviceToken
        BY <2>1, <3>2 DEF Credential
      <4>2. creds'[c] = Ended(t, c)
        BY <2>2, <2>6, <4>1
      <4> QED
        BY <4>1, <4>2 DEF Ended
    <3> QED
      BY <3>1, <3>2
  <2> QED
    BY <2>5, <2>6
<1>5. NoNewCredentials
  <2>1. creds' = [c \in Credential |-> creds'[c]]
    BY <1>1 DEF RevokeAllDeviceTokensForUser
  <2>2. \A c \in Credential : Ended(creds, c) \in CredRow /\ Ended(creds, c).state # "live"
    BY <1>2 DEF Ended, CredRow
  <2> QED
    BY <1>2, <1>4, <2>1, <2>2 DEF NoNewCredentials
<1>6. ResetCutsOff'
  <2>1. \A c \in Credential : Ended(creds, c).state # "live"
    BY <1>2 DEF Ended, CredRow
  <2>2. ASSUME NEW c \in Credential, creds'[c].state = "live"
        PROVE  creds'[c].resets = users'[creds'[c].user].resets
    <3>1. creds[c].user # n /\ creds'[c] = creds[c]
      BY <1>4, <2>1, <2>2
    <3>2. creds[c].user \in Name
      BY <2>2, <3>1 DEF AccessInv, References
    <3> QED
      BY <1>3, <2>2, <3>1, <3>2 DEF AccessInv, ResetCutsOff
  <2> QED
    BY <2>2 DEF ResetCutsOff
<1> QED
  BY <1>1, <1>3, <1>5, <1>6, SameUsersInv DEF AccessInv, TablesInv

-----------------------------------------------------------------------------
(* Every step keeps the invariant. *)

(* The invariant is about the tables on one side, about requests on the other. *)
LEMMA Split == AccessInv <=> TablesInv /\ RequestsOK
  BY DEF AccessInv, TablesInv

(* POST /auth/register, every step of it. *)
LEMMA RegisterStep ==
    ASSUME AccessInv, NEW p \in Proc, registerHandler(p)
    PROVE  TablesInv' /\ RequestsOK'
<1> USE Split
<1>1. ASSUME UNCHANGED tables PROVE TablesInv' /\ Grows
  BY <1>1, TablesStay, SameTablesGrow
<1>2. CASE RateLimited("register", <<"ip">>)
  BY <1>1, <1>2, RequestsStay DEF RateLimited, tables
<1>3. CASE \E n \in Name, pw \in Password : RegisterBegin(p, n, pw)
  <2>1. UNCHANGED tables
    BY <1>3 DEF RegisterBegin, tables
  <2> QED
    BY <1>1, <1>3, <2>1, ReadersOK DEF TablesInv
<1>4. CASE RegisterRefused(p)
  BY <1>1, <1>4, RequestsStay DEF RegisterRefused, tables
<1>5. CASE Register(p)
  BY <1>5, RegisterOK, AnswerOK DEF Register
<1>6. CASE RegisterTooLate(p)
  <2>1. UNCHANGED tables
    BY <1>6 DEF RegisterTooLate, tables
  <2> QED
    BY <1>1, <1>6, <2>1, ReadersOK DEF TablesInv
<1>7. CASE registerNewGroup(p)
  BY <1>7, RegisterNewOK, AnswerOK DEF registerNewGroup
<1>8. CASE RegisterNameTaken(p)
  BY <1>1, <1>8, AnswerOK DEF RegisterNameTaken, tables
<1> QED
  BY <1>2, <1>3, <1>4, <1>5, <1>6, <1>7, <1>8 DEF registerHandler

(* POST /auth/register with an invite, every step of it. *)
LEMMA RedeemStep ==
    ASSUME AccessInv, NEW p \in Proc, inviteRedeemHandler(p)
    PROVE  TablesInv' /\ RequestsOK'
<1> USE Split
<1>1. ASSUME UNCHANGED tables PROVE TablesInv' /\ Grows
  BY <1>1, TablesStay, SameTablesGrow
<1>2. CASE \E i \in Invite : RateLimited("redeem", redeemKeys(i))
  BY <1>1, <1>2, RequestsStay DEF RateLimited, tables
<1>3. CASE \E i \in Invite, n \in Name, pw \in Password : RedeemBegin(p, i, n, pw)
  <2>1. UNCHANGED tables
    BY <1>3 DEF RedeemBegin, tables
  <2> QED
    BY <1>1, <1>3, <2>1, ReadersOK DEF TablesInv
<1>4. CASE \E i \in Invite : RedeemRefused(p, i)
  BY <1>1, <1>4, RequestsStay DEF RedeemRefused, tables
<1>5. CASE Redeem(p)
  BY <1>5, RedeemOK, AnswerOK DEF Redeem
<1>6. CASE RedeemRolledBack(p)
  BY <1>1, <1>6, AnswerOK DEF RedeemRolledBack, tables
<1> QED
  BY <1>2, <1>3, <1>4, <1>5, <1>6 DEF inviteRedeemHandler

(* POST /auth/login, every step of it. *)
LEMMA LoginStep ==
    ASSUME AccessInv, NEW p \in Proc, loginHandler(p)
    PROVE  TablesInv' /\ RequestsOK'
<1> USE Split
<1>1. ASSUME UNCHANGED tables PROVE TablesInv' /\ Grows
  BY <1>1, TablesStay, SameTablesGrow
<1>2. CASE \E n \in Name : RateLimited("login", loginKeys(n))
  BY <1>1, <1>2, RequestsStay DEF RateLimited, tables
<1>3. CASE \E n \in Name, pw \in Password : LoginBegin(p, n, pw)
  <2>1. UNCHANGED tables
    BY <1>3 DEF LoginBegin, tables
  <2> QED
    BY <1>1, <1>3, <2>1, ReadersOK DEF TablesInv
<1>4. CASE LoginRejected(p)
  BY <1>1, <1>4, AnswerOK DEF LoginRejected, tables
<1>5. CASE LoginVerified(p)
  <2>1. UNCHANGED tables
    BY <1>5 DEF LoginVerified, tables
  <2> QED
    BY <1>1, <1>5, <2>1, ReadersOK DEF TablesInv
<1>6. CASE RehashPassword(p)
  BY <1>6, RehashOK
<1>7. ASSUME NEW s \in Session, mintSession(p, s) PROVE TablesInv' /\ RequestsOK'
  <2>1. InFlight(req[p]) /\ req[p].pc = "mint" /\ Goes(p, "mint", Idle)
    BY <1>7 DEF RequestsOK, mintSession, Goes
  <2>2. PICK n \in Name : n = req[p].name /\ Exists(n)
    BY <2>1 DEF InFlight
  <2>3. creds' = Issued(s, n) /\ UNCHANGED <<open, groups, users, invites>> /\ s \in Credential
    BY <1>7, <2>2 DEF mintSession, CreateSession, InsertSession, Credential
  <2>4. TablesInv' /\ Grows
    BY <2>2, <2>3, IssueOK
  <2> QED
    BY <2>1, <2>4, AnswerOK
<1> QED
  BY <1>2, <1>3, <1>4, <1>5, <1>6, <1>7 DEF loginHandler

(* A scoped request acts for a user that exists, in a group that exists.    *)
LEMMA ScopedStep ==
    ASSUME AccessInv, NEW p \in Proc, ScopedRequest(p)
    PROVE  TablesInv' /\ RequestsOK'
<1> USE Split
<1>1. InFlight(req[p]) /\ req[p].pc = "scoped"
  BY DEF RequestsOK, ScopedRequest
<1>2. ASSUME Answers(p), TablesInv' /\ Grows PROVE TablesInv' /\ RequestsOK'
  BY <1>2, AnswerOK DEF Answers
<1>3. ASSUME NEW i \in Invite, inviteCreateHandler(p, i) PROVE TablesInv' /\ RequestsOK'
  <2>1. PICK g \in groups : g = req[p].group
    BY <1>1 DEF InFlight
  <2>2. /\ invites[i].state = "none" /\ invites' = [invites EXCEPT ![i].group = g, ![i].state = "open"]
        /\ Answers(p) /\ UNCHANGED <<open, groups, users, creds>>
    BY <1>3, <2>1 DEF inviteCreateHandler, CreateInvite, InsertInvite, Answers
  <2>3. invites \in [Invite -> InviteRow] /\ g \in Group
    BY <2>1 DEF TablesInv, TablesType
  <2>4. invites' \in [Invite -> InviteRow]
    BY <2>2, <2>3 DEF InviteRow
  <2>5. /\ invites'[i].redeemedBy = invites[i].redeemedBy
        /\ invites'[i].state = "open" /\ invites'[i].group = g
        /\ \A j \in Invite \ {i} : invites'[j] = invites[j]
    BY <2>2, <2>3 DEF InviteRow
  <2>6. \A j \in Invite : /\ invites'[j].redeemedBy = invites[j].redeemedBy
                          /\ invites[j].state # "none" => invites'[j].state # "none"
                          /\ invites'[j].state # "none" => invites'[j].group \in groups
    BY <2>1, <2>5 DEF TablesInv, References
  <2> QED
    BY <1>2, <2>2, <2>4, <2>6, InvitesOK
<1>4. ASSUME NEW i \in Invite, inviteRevokeHandler(p, i) PROVE TablesInv' /\ RequestsOK'
  <2>1. /\ invites' \in {invites, [invites EXCEPT ![i].state = "revoked"]}
        /\ invites' # invites => invites[i].state = "open"
        /\ Answers(p) /\ UNCHANGED <<open, groups, users, creds>>
    BY <1>4 DEF inviteRevokeHandler, RevokeInvite, ExpireInviteNow, Answers
  <2>2. invites \in [Invite -> InviteRow]
    BY DEF TablesInv, TablesType
  <2>3. invites' \in [Invite -> InviteRow]
    BY <2>1, <2>2 DEF InviteRow
  <2>4. \A j \in Invite : /\ invites'[j].redeemedBy = invites[j].redeemedBy
                          /\ invites[j].state # "none" => invites'[j].state # "none"
                          /\ invites'[j].state # "none" => invites'[j].group \in groups
    BY <2>1, <2>2 DEF TablesInv, References, InviteRow
  <2> QED
    BY <1>2, <2>1, <2>3, <2>4, InvitesOK
<1>5. ASSUME NEW d \in DeviceToken, deviceTokenIssueHandler(p, d) PROVE TablesInv' /\ RequestsOK'
  <2>1. PICK n \in Name : n = req[p].name /\ Exists(n)
    BY <1>1 DEF InFlight
  <2>2. creds' = Issued(d, n) /\ Answers(p) /\ UNCHANGED <<open, groups, users, invites>> /\ d \in Credential
    BY <1>5, <2>1 DEF deviceTokenIssueHandler, CreateDeviceToken, InsertDeviceToken, Answers, Credential
  <2> QED
    BY <1>2, <2>1, <2>2, IssueOK
<1>6. ASSUME NEW c \in Credential, creds' = [creds EXCEPT ![c] = Ended(creds, c)], Answers(p),
             UNCHANGED invites
      PROVE  TablesInv' /\ RequestsOK'
  BY <1>2, <1>6, EndOK DEF Answers
<1>7. ASSUME NEW d \in DeviceToken, deviceTokenRevokeHandler(p, d) PROVE TablesInv' /\ RequestsOK'
  BY <1>6, <1>7 DEF deviceTokenRevokeHandler, RevokeDeviceToken, SetDeviceTokenRevoked, Credential
<1>8. ASSUME NEW s \in Session, sessionRevokeHandler(p, s) PROVE TablesInv' /\ RequestsOK'
  BY <1>6, <1>8 DEF sessionRevokeHandler, RevokeSession, SetSessionRevoked, Credential
<1>9. ASSUME logoutHandler(p) PROVE TablesInv' /\ RequestsOK'
  <2>1. PICK s \in Session : s = req[p].cred
    BY <1>9 DEF logoutHandler
  <2> QED
    BY <1>6, <1>9, <2>1 DEF logoutHandler, RevokeCallingSession, RevokeSessionByTokenHash, Credential
<1> QED
  BY <1>3, <1>4, <1>5, <1>7, <1>8, <1>9 DEF ScopedRequest

(* Marking a row's hash outdated changes no other column. *)
LEMMA StaleRow ==
    ASSUME NEW u \in UserRow, NEW b \in BOOLEAN
    PROVE  LET v == [u EXCEPT !.stale = b]
           IN  /\ v \in UserRow /\ v.role = u.role /\ v.group = u.group
               /\ v.invite = u.invite /\ v.resets = u.resets
<1>1. [u EXCEPT !.stale = b] \in UserRow
  BY DEF UserRow
<1> QED
  BY <1>1 DEF UserRow

(* A restart with other hashing parameters drops the requests and keeps the tables. *)
LEMMA RestartStep ==
    ASSUME AccessInv, Restart
    PROVE  TablesInv' /\ RequestsOK'
<1> USE Split
<1>1. req' = [p \in Proc |-> Idle] /\ UNCHANGED <<open, groups, invites, creds>>
      /\ users' \in {users, [n \in Name |-> [users[n] EXCEPT !.stale = Exists(n)]]}
  BY DEF Restart
<1>2. users \in [Name -> UserRow]
  BY DEF TablesInv, TablesType
<1>3. SameUsers /\ \A n \in Name : users'[n].resets = users[n].resets
  <2>1. CASE users' = users
    BY <1>2, <2>1 DEF SameUsers
  <2>2. CASE users' = [n \in Name |-> [users[n] EXCEPT !.stale = Exists(n)]]
    <3>1. \A n \in Name : users'[n] = [users[n] EXCEPT !.stale = Exists(n)]
      BY <2>2
    <3>2. \A n \in Name : users[n] \in UserRow /\ Exists(n) \in BOOLEAN
      BY <1>2 DEF Exists
    <3>3. ASSUME NEW n \in Name
          PROVE  /\ users'[n] \in UserRow
                 /\ users'[n].role = users[n].role /\ users'[n].group = users[n].group
                 /\ users'[n].invite = users[n].invite /\ users'[n].resets = users[n].resets
      <4>1. PICK b \in BOOLEAN : users'[n] = [users[n] EXCEPT !.stale = b]
        BY <3>1, <3>2
      <4> QED
        BY <3>2, <4>1, StaleRow
    <3> QED
      BY <2>2, <3>3 DEF SameUsers
  <2> QED
    BY <1>1, <2>1, <2>2
<1>4. NoNewCredentials /\ ResetCutsOff'
  BY <1>1, <1>3 DEF TablesInv, TablesType, NoNewCredentials, References, ResetCutsOff
<1>5. \A p \in Proc : InFlight(req[p])'
  BY <1>1 DEF InFlight, Idle
<1> QED
  BY <1>1, <1>3, <1>4, <1>5, SameUsersInv DEF RequestsOK

(* Every step keeps the invariant. *)
LEMMA NextStep ==
    ASSUME AccessInv, [Next]_vars
    PROVE  AccessInv'
<1> USE Split
<1>0. ASSUME TablesInv', RequestsOK' PROVE AccessInv'
  BY <1>0 DEF AccessInv, TablesInv
<1>1. ASSUME UNCHANGED tables PROVE TablesInv' /\ Grows
  BY <1>1, TablesStay, SameTablesGrow
<1>2. ASSUME NEW p \in Proc, registerHandler(p) \/ inviteRedeemHandler(p) \/ loginHandler(p)
      PROVE  AccessInv'
  BY <1>0, <1>2, RegisterStep, RedeemStep, LoginStep
<1>3. ASSUME NEW p \in Proc, ScopedRequest(p) PROVE AccessInv'
  BY <1>0, <1>3, ScopedStep
<1>4. ASSUME NEW p \in Proc, NEW c \in Credential, TenantScope(p, c) PROVE AccessInv'
  <2>1. UNCHANGED tables
    BY <1>4 DEF TenantScope, tables
  <2> QED
    BY <1>0, <1>1, <1>4, <2>1, ReadersOK DEF TablesInv
<1>5. ASSUME NEW n \in Name, NEW pw \in Password, ResetPassword(n, pw) PROVE AccessInv'
  <2>1. UNCHANGED req
    BY <1>5 DEF ResetPassword
  <2> QED
    BY <1>0, <1>5, <2>1, ResetOK, RequestsStay
<1>6. ASSUME NEW s \in Session, ExpireSession(s) PROVE AccessInv'
  <2>1. /\ s \in Credential /\ creds' = [creds EXCEPT ![s] = Ended(creds, s)]
        /\ UNCHANGED <<open, groups, users, invites>> /\ UNCHANGED req
    BY <1>6 DEF ExpireSession, Credential
  <2> QED
    BY <1>0, <2>1, EndOK, RequestsStay
<1>7. ASSUME NEW i \in Invite, ExpireInvite(i) PROVE AccessInv'
  <2>1. /\ invites[i].state = "open" /\ invites' = [invites EXCEPT ![i].state = "expired"]
        /\ UNCHANGED <<open, groups, users, creds>> /\ UNCHANGED req
    BY <1>7 DEF ExpireInvite
  <2>2. invites \in [Invite -> InviteRow]
    BY DEF TablesInv, TablesType
  <2>3. invites' \in [Invite -> InviteRow]
    BY <2>1, <2>2 DEF InviteRow
  <2>4. \A j \in Invite : /\ invites'[j].redeemedBy = invites[j].redeemedBy
                          /\ invites[j].state # "none" => invites'[j].state # "none"
                          /\ invites'[j].state # "none" => invites'[j].group \in groups
    BY <2>1, <2>2 DEF TablesInv, References, InviteRow
  <2> QED
    BY <1>0, <2>1, <2>3, <2>4, InvitesOK, RequestsStay
<1>8. CASE Tick \/ UNCHANGED vars
  <2>1. UNCHANGED tables /\ UNCHANGED req
    BY <1>8 DEF Tick, vars, tables
  <2> QED
    BY <1>0, <1>1, <2>1, RequestsStay
<1>9. CASE Restart
  BY <1>0, <1>9, RestartStep
<1> QED
  BY <1>2, <1>3, <1>4, <1>5, <1>6, <1>7, <1>8, <1>9 DEF Next

(* The empty database satisfies it. *)
LEMMA InitOK == Init => AccessInv
<1> SUFFICES ASSUME Init PROVE AccessInv
  OBVIOUS
<1>1. TablesType
  BY DEF Init, TablesType, NoUser, NoInvite, NoCred, UserRow, InviteRow, CredRow
<1>2. References
  BY DEF Init, References, NoUser, NoInvite, NoCred, Exists
<1>3. RequestsOK
  BY DEF Init, RequestsOK, InFlight, Idle
<1>4. OneOwner /\ OneGroup /\ ResetCutsOff
  BY DEF Init, OneOwner, OneGroup, ResetCutsOff, NoCred
<1>5. OneMemberPerInvite
  BY DEF Init, OneMemberPerInvite, NoUser, NoInvite
<1> QED
  BY <1>1, <1>2, <1>3, <1>4, <1>5 DEF AccessInv

(* The invariant holds throughout. *)
LEMMA AccessInvCorrect == Spec => []AccessInv
  BY InitOK, NextStep, PTL DEF Spec

-----------------------------------------------------------------------------
(* The results. *)

(* However many registrations race, a closed installation has one group and *)
(* every group one owner: CreateGroupIfNone checks and inserts at once.      *)
THEOREM OneFirstGroupCorrect == Spec => []OneFirstGroup
<1>1. ASSUME AccessInv PROVE OneFirstGroup
  <2>1. open \/ Cardinality(groups) <= 1
    <3>1. CASE open \/ groups = {}
      BY <3>1, FS_EmptySet
    <3>2. CASE ~open /\ groups # {}
      <4>1. PICK g \in groups : TRUE
        BY <3>2
      <4>2. groups = {g}
        BY <1>1, <3>2, <4>1 DEF AccessInv, OneGroup
      <4>3. Cardinality(groups) = 1
        BY <4>2, FS_Singleton
      <4> QED
        BY <4>3
    <3> QED
      BY <3>1, <3>2
  <2>2. ASSUME NEW g \in groups PROVE Cardinality(Owners(g)) = 1
    BY <1>1, FS_Singleton DEF AccessInv, OneOwner
  <2> QED
    BY <2>1, <2>2 DEF OneFirstGroup, Owners
<1> QED
  BY <1>1, AccessInvCorrect, PTL

(* However many requests race for an invite, revoke it or let it expire, it *)
(* is marked redeemed exactly when the one user who came in with it exists.  *)
THEOREM OneMemberPerInviteCorrect == Spec => []OneMemberPerInvite
<1>1. AccessInv => OneMemberPerInvite
  BY DEF AccessInv
<1> QED
  BY <1>1, AccessInvCorrect, PTL

(* A password reset ends every session and device token issued before it,    *)
(* whichever requests are in flight.                                         *)
THEOREM ResetCutsOffCorrect == Spec => []ResetCutsOff
<1>1. AccessInv => ResetCutsOff
  BY DEF AccessInv
<1> QED
  BY <1>1, AccessInvCorrect, PTL

-----------------------------------------------------------------------------
USE LimiterAssumption

(* The limiters of the handlers. *)

Key == {"ip"} \cup Name \cup Invite

LimitersBounded ==
  DOMAIN limiter = Limiter /\ \A l \in Limiter : Bounded(limiter[l], Key)

KeyList == {<<"ip">>} \cup {<<"ip", k>> : k \in Name \cup Invite}

(* What an attempt may do to the entries it is counted by. *)
Counted(s, keys) ==
  {AfterAllowAll(s, keys), FailAll(s, keys), SucceedAll(s, keys), FailAll(AfterAllowAll(s, keys), keys)}

Counts(l, keys) == \E t \in Counted(limiter[l], keys) : limiter' = [limiter EXCEPT ![l] = t]

(* The keys a handler passes are one or two. *)
LEMMA KeyListType ==
    ASSUME NEW keys \in KeyList
    PROVE  keys \in Seq(Key) /\ Len(keys) \in {1, 2}
<1>1. CASE keys = <<"ip">>
  BY <1>1 DEF Key
<1>2. ASSUME NEW k \in Name \cup Invite, keys = <<"ip", k>> PROVE keys \in Seq(Key) /\ Len(keys) \in {1, 2}
  BY <1>2 DEF Key
<1> QED BY <1>1, <1>2 DEF KeyList

(* Handlers that count an attempt under all its keys keep the entries bounded. *)
LEMMA CountsKeeps ==
    ASSUME LimitersBounded, NEW l \in Limiter, NEW keys \in KeyList, Counts(l, keys)
    PROVE  LimitersBounded'
<1>1. PICK t \in Counted(limiter[l], keys) : limiter' = [limiter EXCEPT ![l] = t]
  BY DEF Counts
<1>2. PICK s : s = limiter[l] /\ Bounded(s, Key)
  BY DEF LimitersBounded
<1>3. keys \in Seq(Key) /\ Len(keys) \in {1, 2}
  BY KeyListType
<1>4. PICK a : a = AfterAllowAll(s, keys)
  OBVIOUS
<1>5. Bounded(a, Key) /\ Bounded(FailAll(s, keys), Key) /\ Bounded(SucceedAll(s, keys), Key)
  BY <1>2, <1>3, <1>4, AttemptKeeps
<1>6. Bounded(FailAll(a, keys), Key)
  BY <1>3, <1>5, AttemptKeeps
<1>7. Bounded(t, Key)
  BY <1>1, <1>2, <1>4, <1>5, <1>6 DEF Counted
<1> QED BY <1>1, <1>7 DEF LimitersBounded

(* Every attempt is counted under keys of the request. *)
LEMMA AttemptsCount ==
    ASSUME AccessInv, NEW p \in Proc, registerHandler(p) \/ inviteRedeemHandler(p) \/ loginHandler(p)
    PROVE  UNCHANGED limiter \/ \E l \in Limiter, keys \in KeyList : Counts(l, keys)
<1>1. CASE registerHandler(p)
  <2>1. "register" \in Limiter /\ <<"ip">> \in KeyList
    BY DEF Limiter, KeyList
  <2>2. UNCHANGED limiter \/ Counts("register", <<"ip">>)
    BY <1>1 DEF registerHandler, RateLimited, Admitted, RegisterBegin, RegisterRefused, Register,
       RegisterTooLate, registerNewGroup, RegisterNameTaken, registerRateLimitRecord, Counts, Counted
  <2> QED BY <2>1, <2>2
<1>2. CASE inviteRedeemHandler(p)
  <2>1. "redeem" \in Limiter /\ \A i \in Invite : redeemKeys(i) \in KeyList
    BY DEF Limiter, KeyList, redeemKeys
  <2>2. CASE \E i \in Invite : \/ RateLimited("redeem", redeemKeys(i)) \/ RedeemRefused(p, i)
                               \/ \E n \in Name, pw \in Password : RedeemBegin(p, i, n, pw)
    <3>1. PICK i \in Invite : Counts("redeem", redeemKeys(i))
      BY <2>2 DEF RateLimited, Admitted, RedeemRefused, RedeemBegin, Counts, Counted
    <3> QED BY <2>1, <3>1
  <2>3. CASE Redeem(p) \/ RedeemRolledBack(p)
    <3>1. PICK i \in Invite : i = req[p].invite
      BY <2>3 DEF Redeem, RedeemRolledBack, Goes, AccessInv, RequestsOK, InFlight
    <3>2. Counts("redeem", redeemKeys(i))
      BY <2>3, <3>1 DEF Redeem, RedeemRolledBack, inviteRedeemRateLimitRecord, Counts, Counted
    <3> QED BY <2>1, <3>2
  <2> QED BY <1>2, <2>2, <2>3 DEF inviteRedeemHandler
<1>3. CASE loginHandler(p)
  <2>1. "login" \in Limiter /\ \A n \in Name : loginKeys(n) \in KeyList
    BY DEF Limiter, KeyList, loginKeys
  <2>2. CASE \E n \in Name : \/ RateLimited("login", loginKeys(n))
                             \/ \E pw \in Password : LoginBegin(p, n, pw)
    <3>1. PICK n \in Name : Counts("login", loginKeys(n))
      BY <2>2 DEF RateLimited, Admitted, LoginBegin, Counts, Counted
    <3> QED BY <2>1, <3>1
  <2>3. CASE LoginRejected(p) \/ \E s \in Session : mintSession(p, s)
    <3>1. PICK n \in Name : n = req[p].name
      BY <2>3 DEF LoginRejected, mintSession, Goes, AccessInv, RequestsOK, InFlight
    <3>2. Counts("login", loginKeys(n))
      BY <2>3, <3>1 DEF LoginRejected, mintSession, Counts, Counted
    <3> QED BY <2>1, <3>2
  <2>4. CASE LoginVerified(p) \/ RehashPassword(p)
    BY <2>4 DEF LoginVerified, RehashPassword
  <2> QED BY <1>3, <2>2, <2>3, <2>4 DEF loginHandler
<1> QED BY <1>1, <1>2, <1>3

(* Every step keeps both limiters bounded. *)
LEMMA LimitersStep ==
    ASSUME AccessInv, LimitersBounded, [Next]_vars
    PROVE  LimitersBounded'
<1>1. ASSUME UNCHANGED limiter PROVE LimitersBounded'
  BY <1>1 DEF LimitersBounded
<1>2. ASSUME NEW p \in Proc, registerHandler(p) \/ inviteRedeemHandler(p) \/ loginHandler(p)
      PROVE  LimitersBounded'
  BY <1>1, <1>2, AttemptsCount, CountsKeeps
<1>3. ASSUME NEW p \in Proc, ScopedRequest(p) PROVE LimitersBounded'
  BY <1>1, <1>3 DEF ScopedRequest, inviteCreateHandler, inviteRevokeHandler, deviceTokenIssueHandler,
     deviceTokenRevokeHandler, sessionRevokeHandler, logoutHandler, Answers
<1>4. ASSUME NEW p \in Proc, NEW c \in Credential, TenantScope(p, c) PROVE LimitersBounded'
  BY <1>1, <1>4 DEF TenantScope
<1>5. CASE \/ \E n \in Name, pw \in Password : ResetPassword(n, pw)
           \/ \E s \in Session : ExpireSession(s)
           \/ \E i \in Invite : ExpireInvite(i)
  BY <1>1, <1>5 DEF ResetPassword, ExpireSession, ExpireInvite
<1>6. CASE Tick
  BY <1>6, ElapseKeeps DEF Tick, LimitersBounded
<1>7. CASE Restart
  <2>1. Bounded(<<>>, Key)
    BY DEF Bounded, OnePerKey
  <2> QED BY <1>7, <2>1 DEF Restart, LimitersBounded
<1>8. CASE UNCHANGED vars
  BY <1>1, <1>8 DEF vars
<1> QED BY <1>2, <1>3, <1>4, <1>5, <1>6, <1>7, <1>8 DEF Next

(* Whatever mix of attempts, failures, successes and restarts, each limiter   *)
(* stays within its table, has one entry per key and makes nobody wait longer *)
(* than MaxDelay.                                                              *)
THEOREM TypeOKCorrect == Spec => []TypeOK
<1>1. Init => LimitersBounded
  <2>1. Bounded(<<>>, Key)
    BY DEF Bounded, OnePerKey
  <2> QED BY <2>1 DEF Init, LimitersBounded
<1>2. ASSUME AccessInv, LimitersBounded PROVE TypeOK
  <2>1. /\ groups \subseteq Group
        /\ \A n \in Name : users[n].role \in {"none", "owner", "member"}
        /\ \A i \in Invite : invites[i].state \in {"none", "open", "revoked", "expired"}
        /\ \A c \in Credential : creds[c].state \in {"none", "live", "ended"}
    BY <1>2 DEF AccessInv, TablesType, UserRow, InviteRow, CredRow
  <2>2. ASSUME NEW l \in Limiter, NEW k \in DOMAIN limiter[l] PROVE limiter[l][k].wait <= MaxDelay
    <3>1. limiter[l][k] \in Entry(Key)
      BY <1>2, <2>2 DEF LimitersBounded, Bounded
    <3> QED BY <3>1 DEF Entry
  <2>3. \A l \in Limiter : Len(limiter[l]) <= MaxEntries /\ OnePerKey(limiter[l])
    BY <1>2 DEF LimitersBounded, Bounded
  <2> QED BY <2>1, <2>2, <2>3 DEF TypeOK, OnePerKey
<1> QED BY <1>1, <1>2, LimitersStep, AccessInvCorrect, PTL DEF Spec
=============================================================================
