-------------------------- MODULE PullReaderProofs --------------------------
(***************************************************************************)
(* Proofs about the change feed and about Pull, which implements it as long *)
(* as no transaction commits during a pull, for any tables, rows, limits    *)
(* and transactions.                                                        *)
(***************************************************************************)
EXTENDS PullReader, FiniteSetTheorems, TLAPS

----------------------------------------------------------------------------
(* The feed. *)

(* NoSkip needs two more facts: a row is never newer than the counter, so   *)
(* the rows of the next transaction lie beyond every watermark, and a        *)
(* watermark never passes the counter.                                       *)
FeedInv ==
    /\ counter \in Nat
    /\ watermark \in 0..counter
    /\ rows \in [Entity -> 0..counter]
    /\ replica \in [Entity -> Nat]
    /\ NoSkip

(* Transactions and deliveries keep FeedInv. *)
LEMMA FeedInductive ==
    ASSUME FeedInv, [Next]_vars
    PROVE  FeedInv'
<1>1. ASSUME NEW S \in SUBSET Entity, Write(S) PROVE FeedInv'
  <2>1. counter' = counter + 1 /\ counter' \in Nat /\ watermark' \in 0..counter'
    BY <1>1 DEF FeedInv, Write
  <2>2. \A e \in Entity : rows'[e] = IF e \in S THEN counter + 1 ELSE rows[e]
    BY <1>1 DEF Write
  <2>3. rows' \in [Entity -> 0..counter']
    BY <1>1 DEF FeedInv, Write
  <2>4. NoSkip'
    BY <1>1, <2>2 DEF FeedInv, NoSkip, Write
  <2> QED
    BY <1>1, <2>1, <2>3, <2>4 DEF FeedInv, Write
<1>2. ASSUME NEW w \in watermark + 1 .. counter, Deliver(w) PROVE FeedInv'
  <2>1. \A e \in Entity :
          replica'[e] = IF rows[e] \in watermark + 1 .. w THEN rows[e] ELSE replica[e]
    BY <1>2 DEF Deliver
  <2>2. replica' \in [Entity -> Nat]
    BY <1>2 DEF FeedInv, Deliver
  <2>3. NoSkip'
    BY <1>2, <2>1 DEF FeedInv, NoSkip, Deliver
  <2> QED
    BY <1>2, <2>2, <2>3 DEF FeedInv, Deliver
<1>3. CASE UNCHANGED vars
  BY <1>3 DEF FeedInv, NoSkip, vars
<1> QED
  BY <1>1, <1>2, <1>3 DEF Next

(* A feed that delivers whole transactions in change_seq order skips         *)
(* nothing: the reason why Pull may hand out one number as the cursor of     *)
(* eleven tables.                                                            *)
THEOREM NoSkipCorrect == Spec => []NoSkip
<1>1. Init => FeedInv
  BY DEF Init, FeedInv, NoSkip
<1>2. FeedInv /\ [Next]_vars => FeedInv'
  BY FeedInductive
<1>3. FeedInv => NoSkip
  BY DEF FeedInv
<1> QED
  BY <1>1, <1>2, <1>3, PTL DEF Spec

----------------------------------------------------------------------------
(* Pull.  What holds whether or not transactions commit during a pull: no   *)
(* cursor and no candidate is ahead of the counter.                          *)
Bounded ==
    /\ TypeOK
    /\ rows \in [Entity -> 0..counter]
    /\ watermark \in 0..counter
    /\ \A c \in fetched \cup first \cup page.members : c.seq \in 0..counter
    /\ page.next \in 0..counter
    /\ pc = "atSeq" => fetched # {}

(* The rest holds until then.  What fetchSince has found in source k: *)
FetchedFrom(k) == {c \in fetched : TableOf[c.id] = k}
Gathered(k) == FetchedFrom(k) \in Oldest(ChangedSince(k, watermark), Limit + 1)

(* The first group, as far as it lies in the sources before k. *)
GroupBefore(k) == {CandidateOf(e) : e \in {d \in Entity : TableOf[d] < k /\ rows[d] = FirstSeq}}

(* The page is the delivery of every change after the watermark up to next. *)
Whole ==
    /\ page.next \in watermark..counter
    /\ page.members = {CandidateOf(e) : e \in {d \in Entity : rows[d] \in watermark + 1 .. page.next}}

Phases ==
    /\ pc = "idle" => table = 1 /\ fetched = {} /\ first = {}
    /\ pc = "since" =>
         /\ page = [NoPage EXCEPT !.next = watermark] /\ first = {}
         /\ \A c \in fetched : TableOf[c.id] < table
         /\ \A k \in 1 .. table - 1 : Gathered(k)
    /\ pc = "atSeq" =>
         /\ \A k \in 1..NumTables : Gathered(k)
         /\ first = GroupBefore(table)
    /\ pc = "probe" =>
         /\ Whole /\ ~page.more
         /\ \A e \in Entity : TableOf[e] < table => rows[e] <= page.next
    /\ pc = "reply" =>
         /\ Whole
         /\ page.more <=> \E e \in Entity : rows[e] > page.next

PullInv == Bounded /\ (~raced => NoSkip /\ Phases)

----------------------------------------------------------------------------
(* Numbers and sets. *)

(* A set of naturals that is not empty has a least element, *)
LEMMA MinOf ==
    ASSUME NEW S \in SUBSET Nat, S # {}
    PROVE  Min(S) \in S /\ \A y \in S : Min(S) <= y
<1>1. PICK R : R = OpToRel(<, Nat)
  OBVIOUS
<1>2. IsWellFoundedOn(R, Nat)
  BY <1>1, NatLessThanWellFounded
<1>3. PICK x \in S : \A y \in S : ~(<<y, x>> \in R)
  BY <1>2, WFMin
<1>4. \A y \in S : <<y, x>> \in R <=> y < x
  BY <1>1 DEF OpToRel
<1>5. ASSUME NEW y \in S PROVE x <= y
  <2>1. x \in Nat /\ y \in Nat
    OBVIOUS
  <2>2. ~(y < x)
    BY <1>3, <1>4
  <2> QED BY <2>1, <2>2
<1> QED
  BY <1>5 DEF Min

(* and, if it is bounded, a greatest one. *)
LEMMA MaxOf ==
    ASSUME NEW n \in Nat, NEW S \in SUBSET (0..n), S # {}
    PROVE  Max(S) \in S /\ \A y \in S : y <= Max(S)
<1>1. PICK T : T = {n - s : s \in S}
  OBVIOUS
<1>2. T \in SUBSET Nat /\ T # {}
  <2>1. \A s \in S : n - s \in Nat
    OBVIOUS
  <2> QED BY <1>1, <2>1
<1>3. Min(T) \in T /\ \A y \in T : Min(T) <= y
  BY <1>2, MinOf
<1>4. PICK m \in S : n - m = Min(T)
  BY <1>1, <1>3
<1>5. \A y \in S : n - m <= n - y
  BY <1>1, <1>3, <1>4
<1>6. \A y \in S : m >= y
  BY <1>5
<1> QED
  BY <1>6 DEF Max

(* ORDER BY ... LIMIT n leaves something out only when it returns n rows. *)
LEMMA OldestOf ==
    ASSUME NEW C, IsFiniteSet(C), NEW n \in Nat \ {0}, NEW R \in Oldest(C, n)
    PROVE  /\ R \subseteq C /\ IsFiniteSet(R)
           /\ C # {} => R # {}
           /\ R # C => Cardinality(R) = n
           /\ \A r \in R, q \in C \ R : r.seq <= q.seq
<1>1. /\ R \in SUBSET C /\ Cardinality(R) = Min({n, Cardinality(C)})
      /\ \A r \in R, q \in C \ R : r.seq <= q.seq
  BY DEF Oldest
<1>2. IsFiniteSet(R) /\ Cardinality(R) <= Cardinality(C) /\ (Cardinality(C) = Cardinality(R) => C = R)
  BY <1>1, FS_Subset
<1>3. Cardinality(C) \in Nat /\ (Cardinality(C) = 0 <=> C = {})
  BY FS_CardinalityType, FS_EmptySet
<1>4. {n, Cardinality(C)} \in SUBSET Nat /\ {n, Cardinality(C)} # {}
  BY <1>3
<1>5. Min({n, Cardinality(C)}) \in {n, Cardinality(C)}
  BY <1>4, MinOf
<1>6. R # C => Cardinality(R) = n
  BY <1>1, <1>2, <1>5
<1>7. C # {} => R # {}
  BY <1>1, <1>3, <1>5, FS_EmptySet
<1> QED
  BY <1>1, <1>2, <1>6, <1>7

----------------------------------------------------------------------------
(* The page that FetchAtSeq puts together. *)

(* The first group is the oldest one found. *)
LEMMA FirstSeqOf ==
    ASSUME Bounded, fetched # {}
    PROVE  /\ FirstSeq \in 0..counter
           /\ \E c \in fetched : c.seq = FirstSeq
           /\ \A c \in fetched : FirstSeq <= c.seq
<1>1. PICK S : S = {c.seq : c \in fetched}
  OBVIOUS
<1>2. counter \in Nat /\ S \in SUBSET Nat /\ S # {} /\ S \in SUBSET (0..counter)
  BY <1>1 DEF Bounded, TypeOK
<1>3. Min(S) \in S /\ \A y \in S : Min(S) <= y
  BY <1>2, MinOf
<1> QED
  BY <1>1, <1>2, <1>3 DEF FirstSeq

(* Where the page ends: at the first group, or at a later group up to which  *)
(* everything fits.                                                          *)
LastOf(g) == Max({FirstSeq} \cup {s \in LaterSeqs : Fits(g, s)})

(* The end lies at a group of the candidates, no group that fits beyond it. *)
LEMMA LastIs ==
    ASSUME Bounded, fetched # {}, NEW g
    PROVE  /\ LastOf(g) \in 0..counter /\ FirstSeq <= LastOf(g)
           /\ LastOf(g) = FirstSeq \/ (LastOf(g) \in LaterSeqs /\ Fits(g, LastOf(g)))
           /\ \A s \in LaterSeqs : Fits(g, s) => s <= LastOf(g)
<1>1. PICK S : S = {FirstSeq} \cup {s \in LaterSeqs : Fits(g, s)}
  OBVIOUS
<1>2. counter \in Nat /\ S \in SUBSET (0..counter) /\ S # {}
  BY <1>1, FirstSeqOf DEF Bounded, TypeOK, LaterSeqs
<1>3. Max(S) \in S /\ \A y \in S : y <= Max(S)
  BY <1>2, MaxOf
<1> QED
  BY <1>1, <1>2, <1>3 DEF LastOf

(* Whatever the first group, the page has its type. *)
LEMMA PageTyped ==
    ASSUME Bounded, fetched # {}, NEW g \in SUBSET Candidate, \A c \in g : c.seq \in 0..counter
    PROVE  /\ PageFrom(g) \in [members : SUBSET Candidate, next : Nat, more : BOOLEAN]
           /\ PageFrom(g).next = LastOf(g) /\ PageFrom(g).next \in 0..counter
           /\ PageFrom(g).members = g \cup Upto(LastOf(g))
           /\ PageFrom(g).more =
                (Cardinality(g) <= Limit /\ {s \in LaterSeqs : Fits(g, s)} # LaterSeqs)
           /\ \A c \in PageFrom(g).members : c.seq \in 0..counter
<1>1. PICK last : last = LastOf(g)
  OBVIOUS
<1>2. last \in 0..counter /\ counter \in Nat
  BY <1>1, LastIs DEF Bounded, TypeOK
<1>3. Upto(last) \subseteq fetched /\ fetched \in SUBSET Candidate
  BY DEF Upto, Bounded, TypeOK
<1>4. PICK more : more = (Cardinality(g) <= Limit /\ {s \in LaterSeqs : Fits(g, s)} # LaterSeqs)
  OBVIOUS
<1>5. more \in BOOLEAN
  BY <1>4
<1>6. PageFrom(g) = [members |-> g \cup Upto(last), next |-> last, more |-> more]
  BY <1>1, <1>4 DEF PageFrom, LastOf
<1> QED
  BY <1>1, <1>2, <1>3, <1>4, <1>5, <1>6 DEF Bounded

(* The image of a finite set is finite. *)
LEMMA ImageFinite ==
    ASSUME NEW X, IsFiniteSet(X), NEW f, DOMAIN f = X, f = [x \in X |-> f[x]]
    PROVE  IsFiniteSet({f[x] : x \in X})
<1>1. PICK T : T = {f[x] : x \in X}
  OBVIOUS
<1>2. f \in [X -> T] /\ \A t \in T : \E x \in X : f[x] = t
  BY <1>1
<1>3. f \in Surjection(X, T)
  BY <1>2 DEF Surjection
<1> QED
  BY <1>1, <1>3, FS_Surjection

(* A query returns finitely many rows. *)
LEMMA ChangedFinite ==
    ASSUME NEW k, NEW w
    PROVE  IsFiniteSet(ChangedSince(k, w))
<1>1. PICK X : X = {d \in Entity : TableOf[d] = k /\ rows[d] > w}
  OBVIOUS
<1>2. X \in SUBSET Entity /\ IsFiniteSet(X)
  BY <1>1, EntityAssumption, FS_Subset
<1>3. PICK f : f = [e \in X |-> CandidateOf(e)]
  OBVIOUS
<1>4. IsFiniteSet({f[x] : x \in X})
  BY <1>2, <1>3, ImageFinite
<1>5. ChangedSince(k, w) = {f[x] : x \in X}
  BY <1>1, <1>3 DEF ChangedSince
<1> QED
  BY <1>4, <1>5

(* What the candidates of one source say of a row that is due.  If it is not *)
(* among them, Limit + 1 rows that are no newer are.                          *)
LEMMA SourceOf ==
    ASSUME Bounded, \A k \in 1..NumTables : Gathered(k), NEW e \in Entity, rows[e] > watermark,
           NEW R, R = FetchedFrom(TableOf[e])
    PROVE  /\ R # {} /\ R \subseteq fetched /\ IsFiniteSet(R)
           /\ CandidateOf(e) \notin fetched =>
                Cardinality(R) = Limit + 1 /\ \A r \in R : r.seq <= rows[e]
           /\ \E r \in R : r.seq <= rows[e]
<1>1. PICK k \in 1..NumTables : k = TableOf[e]
  BY TableAssumption
<1>2. PICK C : C = ChangedSince(k, watermark)
  OBVIOUS
<1>3. IsFiniteSet(C) /\ R \in Oldest(C, Limit + 1) /\ Limit + 1 \in Nat \ {0}
  BY <1>1, <1>2, ChangedFinite, LimitAssumption DEF Gathered
<1>4. CandidateOf(e) \in C /\ CandidateOf(e).seq = rows[e] /\ CandidateOf(e).id = e
  BY <1>1, <1>2 DEF ChangedSince, CandidateOf
<1>5. /\ R \subseteq C /\ IsFiniteSet(R) /\ R # {}
      /\ R # C => Cardinality(R) = Limit + 1
      /\ \A r \in R, q \in C \ R : r.seq <= q.seq
  BY <1>3, <1>4, OldestOf
<1>6. R \subseteq fetched /\ (CandidateOf(e) \in fetched => CandidateOf(e) \in R)
  BY <1>1, <1>4 DEF FetchedFrom
<1>7. CASE CandidateOf(e) \in R
  <2>1. rows[e] \in Nat
    BY DEF Bounded, TypeOK
  <2> QED BY <1>4, <1>5, <1>6, <1>7, <2>1
<1>8. CASE CandidateOf(e) \notin R
  <2>1. R # C /\ \A r \in R : r.seq <= rows[e]
    BY <1>4, <1>5, <1>8
  <2> QED BY <1>5, <1>6, <2>1
<1> QED
  BY <1>7, <1>8

(* A candidate is a row that is due, as it is. *)
LEMMA FetchedIs ==
    ASSUME Bounded, \A k \in 1..NumTables : Gathered(k), NEW c \in fetched
    PROVE  /\ c.id \in Entity /\ c = CandidateOf(c.id) /\ c.seq = rows[c.id]
           /\ c.seq > watermark
<1>1. c.id \in Entity
  BY DEF Bounded, TypeOK, Candidate
<1>2. PICK k \in 1..NumTables : k = TableOf[c.id]
  BY <1>1, TableAssumption
<1>3. c \in ChangedSince(k, watermark)
  BY <1>2 DEF Gathered, FetchedFrom, Oldest
<1>4. PICK d \in Entity : c = CandidateOf(d) /\ rows[d] > watermark
  BY <1>3 DEF ChangedSince
<1> QED
  BY <1>1, <1>4 DEF CandidateOf

(* The first group, whole. *)
Group == {CandidateOf(e) : e \in {d \in Entity : rows[d] = FirstSeq}}

(* The first group is the oldest one due, and all its candidates are in it. *)
LEMMA GroupIs ==
    ASSUME Bounded, fetched # {}, \A k \in 1..NumTables : Gathered(k)
    PROVE  /\ Group \in SUBSET Candidate /\ IsFiniteSet(Group) /\ Cardinality(Group) \in Nat \ {0}
           /\ \A c \in Group : c.seq = FirstSeq
           /\ \A e \in Entity : rows[e] > watermark => FirstSeq <= rows[e]
           /\ FirstSeq > watermark
           /\ \A c \in fetched : c.seq = FirstSeq => c \in Group
<1>1. FirstSeq \in 0..counter /\ (\E c \in fetched : c.seq = FirstSeq)
        /\ \A c \in fetched : FirstSeq <= c.seq
  BY FirstSeqOf
<1>2. PICK X : X = {d \in Entity : rows[d] = FirstSeq}
  OBVIOUS
<1>3. X \in SUBSET Entity /\ IsFiniteSet(X)
  BY <1>2, EntityAssumption, FS_Subset
<1>4. PICK f : f = [e \in X |-> CandidateOf(e)]
  OBVIOUS
<1>5. IsFiniteSet({f[x] : x \in X})
  BY <1>3, <1>4, ImageFinite
<1>6. Group = {f[x] : x \in X}
  BY <1>2, <1>4 DEF Group
<1>7. \A e \in Entity : rows[e] \in Nat
  BY DEF Bounded, TypeOK
<1>8. Group \in SUBSET Candidate /\ \A c \in Group : c.seq = FirstSeq
  BY <1>1, <1>7 DEF Group, CandidateOf, Candidate
<1>9. \A c \in fetched : c.seq = FirstSeq => c \in Group
  BY FetchedIs DEF Group
<1>10. FirstSeq > watermark
  BY <1>1, FetchedIs
<1>11. Group # {}
  BY <1>1, <1>9
<1>12. Cardinality(Group) \in Nat \ {0}
  BY <1>5, <1>6, <1>11, FS_CardinalityType, FS_EmptySet
<1>13. ASSUME NEW e \in Entity, rows[e] > watermark PROVE FirstSeq <= rows[e]
  <2>1. PICK r \in fetched : r.seq <= rows[e]
    BY <1>13, SourceOf
  <2>2. FirstSeq <= r.seq /\ r.seq \in Nat /\ FirstSeq \in Nat
    BY <1>1, FetchedIs, <1>7
  <2> QED BY <1>7, <2>1, <2>2
<1> QED
  BY <1>5, <1>6, <1>8, <1>9, <1>10, <1>12, <1>13

(* Finitely many candidates lie on the page. *)
LEMMA UptoFinite ==
    ASSUME Bounded, \A k \in 1..NumTables : Gathered(k), NEW s
    PROVE  IsFiniteSet(Upto(s))
<1>1. Upto(s) \subseteq {CandidateOf(d) : d \in Entity}
  BY FetchedIs DEF Upto
<1>2. PICK f : f = [d \in Entity |-> CandidateOf(d)]
  OBVIOUS
<1>3. IsFiniteSet({f[d] : d \in Entity})
  BY <1>2, EntityAssumption, ImageFinite
<1>4. Upto(s) \in SUBSET {f[d] : d \in Entity}
  BY <1>1, <1>2
<1> QED
  BY <1>3, <1>4, FS_Subset

(* No row up to the end of the page was cut off by a source's LIMIT: the      *)
(* Limit + 1 candidates the source returned instead would all lie on the      *)
(* page, which holds at most Limit rows when it goes beyond the first group.  *)
LEMMA NothingCutOff ==
    ASSUME Bounded, fetched # {}, \A k \in 1..NumTables : Gathered(k),
           NEW e \in Entity, rows[e] > FirstSeq, rows[e] <= LastOf(Group)
    PROVE  CandidateOf(e) \in fetched
<1>1. PICK g, last, R : g = Group /\ last = LastOf(Group) /\ R = FetchedFrom(TableOf[e])
  OBVIOUS
<1>2. SUFFICES ASSUME CandidateOf(e) \notin fetched PROVE FALSE
  OBVIOUS
<1>3. /\ FirstSeq \in Nat /\ last \in Nat /\ rows[e] \in Nat /\ watermark \in Nat
      /\ FirstSeq > watermark
  BY <1>1, FirstSeqOf, LastIs, GroupIs DEF Bounded, TypeOK
<1>4. last # FirstSeq /\ rows[e] <= last
  BY <1>1, <1>3
<1>5. Cardinality(g) + Cardinality(Upto(last)) <= Limit
  BY <1>1, <1>4, LastIs DEF Fits
<1>6. /\ R \subseteq fetched /\ IsFiniteSet(R) /\ Cardinality(R) = Limit + 1
      /\ \A r \in R : r.seq <= rows[e]
  BY <1>1, <1>2, <1>3, SourceOf
<1>7. PICK U : U = Upto(last)
  OBVIOUS
<1>8. ASSUME NEW r \in R PROVE r \in g \cup U
  <2>1. r \in fetched /\ r.seq \in Nat /\ FirstSeq <= r.seq /\ r.seq <= last
    <3>1. r \in fetched /\ FirstSeq <= r.seq /\ r.seq <= rows[e]
      BY <1>6, FirstSeqOf
    <3>2. r.seq \in Nat
      BY <3>1, FetchedIs DEF Bounded, TypeOK
    <3> QED BY <1>3, <1>4, <3>1, <3>2
  <2>2. CASE r.seq = FirstSeq
    BY <1>1, <2>1, <2>2, GroupIs
  <2>3. CASE r.seq > FirstSeq
    BY <1>7, <2>1, <2>3 DEF Upto
  <2> QED BY <1>3, <2>1, <2>2, <2>3
<1>9. IsFiniteSet(g) /\ Cardinality(g) \in Nat
  BY <1>1, GroupIs
<1>10. IsFiniteSet(U) /\ Cardinality(U) \in Nat
  BY <1>7, UptoFinite, FS_CardinalityType
<1>11. /\ IsFiniteSet(g \cup U)
       /\ Cardinality(g \cup U) = Cardinality(g) + Cardinality(U) - Cardinality(g \cap U)
  BY <1>9, <1>10, FS_Union
<1>12. Cardinality(g \cap U) \in Nat
  <2>1. g \cap U \in SUBSET g
    OBVIOUS
  <2> QED BY <1>9, <2>1, FS_Subset, FS_CardinalityType
<1>13. Cardinality(R) <= Cardinality(g \cup U)
  <2>1. R \in SUBSET (g \cup U)
    BY <1>8
  <2> QED BY <1>11, <2>1, FS_Subset
<1> QED
  BY <1>5, <1>6, <1>7, <1>9, <1>10, <1>11, <1>12, <1>13, LimitAssumption

(* The members of the page are exactly the rows due up to its end. *)
LEMMA PageWhole ==
    ASSUME Bounded, fetched # {}, \A k \in 1..NumTables : Gathered(k),
           NEW P, P = PageFrom(Group)
    PROVE  /\ P.next \in watermark..counter
           /\ P.members = {CandidateOf(e) : e \in {d \in Entity : rows[d] \in watermark + 1 .. P.next}}
<1>1. /\ \A c \in Group : c.seq = FirstSeq
      /\ \A e \in Entity : rows[e] > watermark => FirstSeq <= rows[e]
      /\ FirstSeq > watermark /\ Group \in SUBSET Candidate
      /\ FirstSeq \in 0..counter /\ counter \in Nat /\ watermark \in Nat
  BY GroupIs, FirstSeqOf DEF Bounded, TypeOK
<1>2. PICK last : last = LastOf(Group)
  OBVIOUS
<1>3. last \in 0..counter /\ FirstSeq <= last
  BY <1>2, LastIs
<1>4. P.next = last /\ P.members = Group \cup Upto(last)
  <2>1. \A c \in Group : c.seq \in 0..counter
    BY <1>1
  <2> QED BY <1>1, <1>2, <2>1, PageTyped
<1>5. last \in watermark..counter
  BY <1>1, <1>3
<1>6. ASSUME NEW e \in Entity, rows[e] \in watermark + 1 .. last
      PROVE  CandidateOf(e) \in Group \cup Upto(last)
  <2>1. rows[e] > watermark /\ rows[e] <= last /\ FirstSeq <= rows[e] /\ rows[e] \in Nat
    BY <1>1, <1>6 DEF Bounded, TypeOK
  <2>2. CASE rows[e] = FirstSeq
    BY <2>2 DEF Group
  <2>3. CASE rows[e] > FirstSeq
    <3>1. CandidateOf(e) \in fetched
      BY <1>2, <2>1, <2>3, NothingCutOff
    <3> QED BY <2>1, <2>3, <3>1 DEF Upto, CandidateOf
  <2> QED BY <1>1, <2>1, <2>2, <2>3
<1>7. ASSUME NEW c \in Group \cup Upto(last)
      PROVE  \E e \in Entity : rows[e] \in watermark + 1 .. last /\ c = CandidateOf(e)
  <2>1. CASE c \in Group
    <3>1. PICK e \in Entity : rows[e] = FirstSeq /\ c = CandidateOf(e)
      BY <2>1 DEF Group
    <3>2. rows[e] \in watermark + 1 .. last
      BY <1>1, <1>3, <3>1
    <3> QED BY <3>1, <3>2
  <2>2. CASE c \in Upto(last)
    <3>1. c \in fetched /\ c.seq <= last
      BY <2>2 DEF Upto
    <3>2. c.id \in Entity /\ c = CandidateOf(c.id) /\ c.seq = rows[c.id] /\ c.seq > watermark
      BY <3>1, FetchedIs
    <3>3. rows[c.id] \in Nat
      BY <3>2 DEF Bounded, TypeOK
    <3>4. rows[c.id] \in watermark + 1 .. last
      BY <1>1, <1>3, <3>1, <3>2, <3>3
    <3> QED BY <3>2, <3>4
  <2> QED BY <1>7, <2>1, <2>2
<1> QED
  BY <1>4, <1>5, <1>6, <1>7

(* When a group did not fit, it is still to come. *)
LEMMA PageMore ==
    ASSUME Bounded, fetched # {}, \A k \in 1..NumTables : Gathered(k),
           NEW P, P = PageFrom(Group), P.more
    PROVE  \E e \in Entity : rows[e] > P.next
<1>1. PICK last : last = LastOf(Group)
  OBVIOUS
<1>2. Group \in SUBSET Candidate /\ \A c \in Group : c.seq \in 0..counter
  BY GroupIs, FirstSeqOf
<1>3. P.next = last /\ {s \in LaterSeqs : Fits(Group, s)} # LaterSeqs
  BY <1>1, <1>2, PageTyped
<1>4. PICK s \in LaterSeqs : ~Fits(Group, s)
  BY <1>3
<1>5. PICK c \in fetched : c.seq = s /\ s # FirstSeq
  BY <1>4 DEF LaterSeqs
<1>6. /\ s \in Nat /\ FirstSeq \in Nat /\ FirstSeq <= s /\ last \in Nat
      /\ last = FirstSeq \/ Fits(Group, last)
  BY <1>1, <1>5, FirstSeqOf, LastIs DEF Bounded, TypeOK
<1>7. s > last
  <2>1. CASE last = FirstSeq
    BY <1>5, <1>6, <2>1
  <2>2. CASE Fits(Group, last)
    <3>1. SUFFICES ASSUME s <= last PROVE FALSE
      BY <1>6
    <3>2. Upto(s) \in SUBSET Upto(last)
      BY <1>6, <3>1 DEF Upto, Bounded
    <3>3. IsFiniteSet(Upto(last))
      BY UptoFinite
    <3>4. Cardinality(Upto(s)) <= Cardinality(Upto(last)) /\ IsFiniteSet(Upto(s))
      BY <3>2, <3>3, FS_Subset
    <3>5. /\ Cardinality(Upto(s)) \in Nat /\ Cardinality(Upto(last)) \in Nat
          /\ Cardinality(Group) \in Nat
      BY <3>3, <3>4, FS_CardinalityType, GroupIs
    <3> QED BY <1>4, <2>2, <3>4, <3>5, LimitAssumption DEF Fits
  <2> QED BY <1>6, <2>1, <2>2
<1>8. c.id \in Entity /\ rows[c.id] > last
  BY <1>5, <1>7, FetchedIs
<1> QED
  BY <1>3, <1>8

----------------------------------------------------------------------------
(* The steps.  A read leaves rows and watermark alone. *)

(* A pull starts from nothing. *)
LEMMA StartPullOK ==
    ASSUME PullInv, StartPull, UNCHANGED raced
    PROVE  PullInv'
<1>1. Bounded'
  BY DEF PullInv, Bounded, TypeOK, StartPull, NoPage, vars, Candidate
<1>2. ~raced => NoSkip' /\ Phases'
  <2>1. ASSUME ~raced PROVE NoSkip'
    BY <2>1 DEF PullInv, NoSkip, StartPull, vars
  <2>2. ASSUME ~raced PROVE Phases'
    <3>1. table = 1 /\ fetched = {} /\ first = {} /\ pc' = "since"
      BY <2>2 DEF PullInv, Phases, StartPull
    <3>2. table' = 1 /\ fetched' = {} /\ first' = {} /\ page' = [NoPage EXCEPT !.next = watermark]
          /\ watermark' = watermark
      BY <3>1 DEF StartPull, vars
    <3>3. 1 .. table' - 1 = {}
      BY <3>2
    <3> QED BY <3>1, <3>2, <3>3 DEF Phases, NoPage
  <2> QED BY <2>1, <2>2
<1> QED
  BY <1>1, <1>2 DEF PullInv

(* fetchSince of one more source. *)
LEMMA FetchSinceOK ==
    ASSUME PullInv, FetchSince, UNCHANGED raced
    PROVE  PullInv'
<1>0. /\ counter' = counter /\ rows' = rows /\ watermark' = watermark /\ replica' = replica
      /\ first' = first /\ page' = page /\ raced' = raced /\ pc = "since"
  BY DEF FetchSince, vars
<1>1. PICK C : C = ChangedSince(table, watermark)
  OBVIOUS
<1>2. PICK R \in Oldest(C, Limit + 1) :
         /\ fetched' = fetched \cup R
         /\ table' = IF table < NumTables THEN table + 1 ELSE 1
         /\ pc' = IF table < NumTables THEN "since"
                  ELSE IF fetched' = {} THEN "reply" ELSE "atSeq"
  BY <1>1 DEF FetchSince, NextTable
<1>3. /\ counter \in Nat /\ rows \in [Entity -> Nat] /\ table \in 1..NumTables
      /\ NumTables \in Nat /\ watermark \in Nat /\ fetched \in SUBSET Candidate
  BY LimitAssumption DEF PullInv, Bounded, TypeOK
<1>4. R \in SUBSET C /\ \A c \in C : c \in Candidate /\ TableOf[c.id] = table /\ c.seq \in 0..counter
  <2>1. \A e \in Entity : rows[e] \in 0..counter /\ rows[e] \in Nat
    BY <1>3 DEF PullInv, Bounded
  <2> QED BY <1>1, <1>2, <2>1 DEF Oldest, ChangedSince, CandidateOf, Candidate
<1>5. Bounded'
  <2>1. TypeOK'
    BY <1>0, <1>2, <1>3, <1>4 DEF PullInv, Bounded, TypeOK
  <2> QED BY <1>0, <1>2, <1>4, <2>1 DEF PullInv, Bounded
<1>6. ASSUME ~raced PROVE Phases'
  <2>1. /\ page = [NoPage EXCEPT !.next = watermark] /\ first = {}
        /\ \A c \in fetched : TableOf[c.id] < table
        /\ \A k \in 1 .. table - 1 : Gathered(k)
    BY <1>0, <1>6 DEF PullInv, Phases
  <2>2. ASSUME NEW k \in 1..table PROVE Gathered(k)'
    <3>1. ChangedSince(k, watermark)' = ChangedSince(k, watermark)
      BY <1>0 DEF ChangedSince, CandidateOf
    <3>2. CASE k = table
      <4>1. {c \in fetched' : TableOf[c.id] = k} = R
        BY <1>2, <1>3, <1>4, <2>1, <3>2
      <4> QED BY <1>1, <1>2, <3>1, <3>2, <4>1 DEF Gathered, FetchedFrom, Oldest
    <3>3. CASE k # table
      <4>1. {c \in fetched' : TableOf[c.id] = k} = {c \in fetched : TableOf[c.id] = k}
        BY <1>2, <1>4, <3>3
      <4>2. k \in 1 .. table - 1
        BY <1>3, <3>3
      <4> QED BY <2>1, <3>1, <4>1, <4>2 DEF Gathered, FetchedFrom, Oldest
    <3> QED BY <3>2, <3>3
  <2>3. \A c \in fetched' : TableOf[c.id] <= table
    <3>1. \A c \in fetched : TableOf[c.id] <= table
      <4>1. \A c \in fetched : TableOf[c.id] \in 1..NumTables
        BY <1>3, TableAssumption DEF Candidate
      <4> QED BY <1>3, <2>1, <4>1
    <3> QED BY <1>2, <1>3, <1>4, <3>1
  <2>4. CASE table < NumTables
    <3>1. pc' = "since" /\ table' = table + 1 /\ table' - 1 = table
      BY <1>2, <1>3, <2>4
    <3>2. \A c \in fetched' : TableOf[c.id] < table'
      <4>1. \A c \in fetched' : TableOf[c.id] \in 1..NumTables
        BY <1>5, TableAssumption DEF Bounded, TypeOK, Candidate
      <4> QED BY <1>3, <2>3, <3>1, <4>1
    <3> QED BY <1>0, <2>1, <2>2, <3>1, <3>2 DEF Phases
  <2>5. CASE table = NumTables
    <3>1. table' = 1 /\ \A k \in 1..NumTables : Gathered(k)'
      BY <1>2, <1>3, <2>2, <2>5
    <3>2. CASE fetched' # {}
      <4>1. pc' = "atSeq"
        BY <1>2, <1>3, <2>5, <3>2
      <4>2. GroupBefore(table)' = {}
        <5>1. \A d \in Entity : ~(TableOf[d] < table')
          BY <3>1, TableAssumption, <1>3
        <5> QED BY <5>1 DEF GroupBefore
      <4> QED BY <1>0, <2>1, <3>1, <4>1, <4>2 DEF Phases
    <3>3. CASE fetched' = {}
      <4>1. pc' = "reply"
        BY <1>2, <1>3, <2>5, <3>3
      <4>2. ASSUME NEW e \in Entity PROVE ~(rows[e] > watermark)
        <5>1. PICK k \in 1..NumTables : k = TableOf[e]
          BY TableAssumption
        <5>2. PICK D : D = ChangedSince(k, watermark)
          OBVIOUS
        <5>3. {} \in Oldest(D, Limit + 1)
          BY <1>0, <3>1, <3>3, <5>2 DEF Gathered, FetchedFrom, Oldest, ChangedSince, CandidateOf
        <5>4. D = {}
          BY <5>2, <5>3, ChangedFinite, OldestOf, LimitAssumption
        <5> QED BY <5>1, <5>2, <5>4 DEF ChangedSince
      <4>3. page.next = watermark /\ page.members = {} /\ page.more = FALSE
        BY <2>1 DEF NoPage
      <4>4. \A e \in Entity : rows[e] \notin watermark + 1 .. watermark
        BY <1>3
      <4>5. watermark \in watermark..counter
        BY DEF PullInv, Bounded, TypeOK
      <4>6. Whole'
        BY <1>0, <4>3, <4>4, <4>5 DEF Whole
      <4> QED BY <1>0, <4>1, <4>2, <4>3, <4>6 DEF Phases
    <3> QED BY <3>2, <3>3
  <2> QED BY <1>3, <2>4, <2>5
<1>7. ~raced => NoSkip'
  BY <1>0 DEF PullInv, NoSkip
<1> QED
  BY <1>0, <1>5, <1>6, <1>7 DEF PullInv

(* fetchAtSeq of one more source; after the last the page is put together. *)
LEMMA FetchAtSeqOK ==
    ASSUME PullInv, FetchAtSeq, UNCHANGED raced
    PROVE  PullInv'
<1>0. /\ counter' = counter /\ rows' = rows /\ watermark' = watermark /\ replica' = replica
      /\ fetched' = fetched /\ raced' = raced /\ pc = "atSeq"
  BY DEF FetchAtSeq, vars
<1>1. PICK g : g = first \cup ChangedAt(table, FirstSeq)
  OBVIOUS
<1>2. /\ first' = g
      /\ page' = IF table < NumTables THEN page ELSE PageFrom(g)
      /\ table' = IF table < NumTables THEN table + 1 ELSE 1
      /\ pc' = IF table < NumTables THEN "atSeq" ELSE IF page'.more THEN "reply" ELSE "probe"
  BY <1>1 DEF FetchAtSeq, NextTable
<1>3. /\ counter \in Nat /\ rows \in [Entity -> Nat] /\ table \in 1..NumTables
      /\ NumTables \in Nat /\ watermark \in Nat /\ Bounded /\ fetched # {}
  BY <1>0, LimitAssumption DEF PullInv, Bounded, TypeOK
<1>4. g \in SUBSET Candidate /\ \A c \in g : c.seq \in 0..counter
  <2>1. \A e \in Entity : rows[e] \in 0..counter /\ rows[e] \in Nat
    BY <1>3 DEF Bounded
  <2>2. \A c \in ChangedAt(table, FirstSeq) : c \in Candidate /\ c.seq \in 0..counter
    BY <2>1 DEF ChangedAt, CandidateOf, Candidate
  <2> QED BY <1>1, <1>3, <2>2 DEF Bounded, TypeOK
<1>5. /\ PageFrom(g) \in [members : SUBSET Candidate, next : Nat, more : BOOLEAN]
      /\ PageFrom(g).next \in 0..counter
      /\ \A c \in PageFrom(g).members : c.seq \in 0..counter
  BY <1>3, <1>4, PageTyped
<1>6. Bounded'
  <2>1. /\ page' \in [members : SUBSET Candidate, next : Nat, more : BOOLEAN]
        /\ page'.next \in 0..counter
        /\ \A c \in page'.members : c.seq \in 0..counter
    BY <1>2, <1>3, <1>5 DEF Bounded, TypeOK
  <2>2. table' \in 1..NumTables /\ pc' \in {"idle", "since", "atSeq", "probe", "reply"}
    BY <1>2, <1>3
  <2>3. TypeOK'
    BY <1>0, <1>2, <1>3, <1>4, <2>1, <2>2 DEF Bounded, TypeOK
  <2> QED BY <1>0, <1>2, <1>3, <1>4, <2>1, <2>3 DEF Bounded
<1>7. ASSUME ~raced PROVE Phases'
  <2>1. (\A k \in 1..NumTables : Gathered(k)) /\ first = GroupBefore(table)
    BY <1>0, <1>7 DEF PullInv, Phases
  <2>2. \A k \in 1..NumTables : Gathered(k)'
    BY <1>0, <2>1 DEF Gathered, FetchedFrom, Oldest, ChangedSince, CandidateOf
  <2>3. g = {CandidateOf(e) : e \in {d \in Entity : TableOf[d] <= table /\ rows[d] = FirstSeq}}
    <3>1. \A d \in Entity : TableOf[d] <= table <=> (TableOf[d] < table \/ TableOf[d] = table)
      BY <1>3, TableAssumption
    <3> QED BY <1>1, <2>1, <3>1 DEF GroupBefore, ChangedAt
  <2>4. CASE table < NumTables
    <3>1. pc' = "atSeq" /\ table' = table + 1
      BY <1>2, <2>4
    <3>2. \A d \in Entity : TableOf[d] <= table <=> TableOf[d] < table'
      BY <1>3, <3>1, TableAssumption
    <3>3. FirstSeq' = FirstSeq
      BY <1>0 DEF FirstSeq
    <3>4. first' = GroupBefore(table)'
      BY <1>0, <1>2, <2>3, <3>2, <3>3 DEF GroupBefore, CandidateOf
    <3> QED BY <2>2, <3>1, <3>4 DEF Phases
  <2>5. CASE table = NumTables
    <3>1. g = Group
      <4>1. \A d \in Entity : TableOf[d] <= table
        BY <1>3, <2>5, TableAssumption
      <4> QED BY <2>3, <4>1 DEF Group
    <3>2. page' = PageFrom(Group) /\ table' = 1 /\ pc' = IF page'.more THEN "reply" ELSE "probe"
      BY <1>2, <1>3, <2>5, <3>1
    <3>3. PICK P : P = PageFrom(Group)
      OBVIOUS
    <3>4. /\ P.next \in watermark..counter
          /\ P.members = {CandidateOf(e) : e \in {d \in Entity : rows[d] \in watermark + 1 .. P.next}}
          /\ P.more => \E e \in Entity : rows[e] > P.next
          /\ P.more \in BOOLEAN
      BY <1>3, <1>5, <2>1, <3>1, <3>3, PageWhole, PageMore
    <3>5. Whole'
      BY <1>0, <3>2, <3>3, <3>4 DEF Whole, CandidateOf
    <3>6. \A e \in Entity : ~(TableOf[e] < table')
      BY <1>3, <3>2, TableAssumption
    <3> QED BY <1>0, <3>2, <3>3, <3>4, <3>5, <3>6 DEF Phases
  <2> QED BY <1>3, <2>4, <2>5
<1>8. ~raced => NoSkip'
  BY <1>0 DEF PullInv, NoSkip
<1> QED
  BY <1>0, <1>6, <1>7, <1>8 DEF PullInv

(* The probe of one more source. *)
LEMMA ProbeHasMoreOK ==
    ASSUME PullInv, ProbeHasMore, UNCHANGED raced
    PROVE  PullInv'
<1>0. /\ counter' = counter /\ rows' = rows /\ watermark' = watermark /\ replica' = replica
      /\ fetched' = fetched /\ first' = first /\ raced' = raced /\ pc = "probe"
  BY DEF ProbeHasMore, vars
<1>1. /\ counter \in Nat /\ rows \in [Entity -> Nat] /\ table \in 1..NumTables
      /\ NumTables \in Nat /\ watermark \in Nat /\ Bounded
      /\ page \in [members : SUBSET Candidate, next : Nat, more : BOOLEAN]
  BY LimitAssumption DEF PullInv, Bounded, TypeOK
<1>2. ~raced => NoSkip'
  BY <1>0 DEF PullInv, NoSkip
<1>3. CASE ChangedSince(table, page.next) # {}
  <2>1. page' = [page EXCEPT !.more = TRUE] /\ pc' = "reply" /\ table' = 1
    BY <1>3 DEF ProbeHasMore
  <2>2. /\ page' \in [members : SUBSET Candidate, next : Nat, more : BOOLEAN]
        /\ page'.next = page.next /\ page'.members = page.members /\ page'.more = TRUE
    BY <1>1, <2>1
  <2>3. Bounded'
    BY <1>0, <1>1, <2>1, <2>2 DEF Bounded, TypeOK
  <2>4. ASSUME ~raced PROVE Phases'
    <3>1. Whole'
      BY <1>0, <2>2, <2>4 DEF PullInv, Phases, Whole, CandidateOf
    <3>2. \E e \in Entity : rows[e] > page.next
      BY <1>3 DEF ChangedSince
    <3> QED BY <1>0, <2>1, <2>2, <3>1, <3>2 DEF Phases
  <2> QED BY <1>0, <1>2, <2>3, <2>4 DEF PullInv
<1>4. CASE ChangedSince(table, page.next) = {}
  <2>1. /\ page' = page /\ table' = IF table < NumTables THEN table + 1 ELSE 1
        /\ pc' = IF table < NumTables THEN "probe" ELSE "reply"
    BY <1>4 DEF ProbeHasMore, NextTable
  <2>2. Bounded'
    <3>1. table' \in 1..NumTables /\ pc' \in {"idle", "since", "atSeq", "probe", "reply"}
      BY <1>1, <2>1
    <3> QED BY <1>0, <1>1, <2>1, <3>1 DEF Bounded, TypeOK
  <2>3. ASSUME ~raced PROVE Phases'
    <3>1. Whole' /\ ~page.more
      BY <1>0, <2>1, <2>3 DEF PullInv, Phases, Whole, CandidateOf
    <3>2. ASSUME NEW e \in Entity, TableOf[e] <= table PROVE rows[e] <= page.next
      <4>1. TableOf[e] \in Nat /\ rows[e] \in Nat /\ page.next \in Nat
        BY <1>1, TableAssumption
      <4>2. TableOf[e] = table => ~(rows[e] > page.next)
        BY <1>4 DEF ChangedSince
      <4>3. TableOf[e] < table => rows[e] <= page.next
        BY <1>0, <2>3 DEF PullInv, Phases
      <4> QED BY <1>1, <3>2, <4>1, <4>2, <4>3
    <3>3. CASE table < NumTables
      <4>1. pc' = "probe" /\ \A e \in Entity : TableOf[e] < table' => TableOf[e] <= table
        BY <1>1, <2>1, <3>3, TableAssumption
      <4> QED BY <1>0, <2>1, <3>1, <3>2, <4>1 DEF Phases
    <3>4. CASE table = NumTables
      <4>1. pc' = "reply" /\ \A e \in Entity : TableOf[e] <= table
        BY <1>1, <2>1, <3>4, TableAssumption
      <4>2. ~\E e \in Entity : rows[e] > page.next
        BY <1>1, <3>2, <4>1
      <4> QED BY <1>0, <1>1, <2>1, <3>1, <4>1, <4>2 DEF Phases
    <3> QED BY <1>1, <3>3, <3>4
  <2> QED BY <1>0, <1>2, <2>2, <2>3 DEF PullInv
<1> QED
  BY <1>3, <1>4

(* A pull ends with nothing left of it. *)
LEMMA EndPullOK ==
    ASSUME EndPull
    PROVE  /\ pc' = "idle" /\ table' = 1 /\ fetched' = {} /\ first' = {}
           /\ page' \in [members : SUBSET Candidate, next : Nat, more : BOOLEAN]
           /\ page'.members = {} /\ page'.next = 0
           /\ Phases'
  BY DEF EndPull, NoPage, Phases

(* A page that is applied is a delivery of the feed, or nothing. *)
LEMMA ApplyDelivers ==
    ASSUME PullInv, ~raced, Apply
    PROVE  Next \/ UNCHANGED vars
<1>1. /\ counter \in Nat /\ watermark \in 0..counter /\ rows \in [Entity -> 0..counter]
      /\ replica \in [Entity -> Nat] /\ Whole
  BY DEF PullInv, Bounded, TypeOK, Apply, Phases
<1>2. PICK w, M : w = page.next /\ M = page.members
  OBVIOUS
<1>3. /\ w \in watermark..counter
      /\ M = {CandidateOf(e) : e \in {d \in Entity : rows[d] \in watermark + 1 .. w}}
  BY <1>1, <1>2 DEF Whole
<1>4. /\ watermark' = w /\ counter' = counter /\ rows' = rows
      /\ replica' = [e \in Entity |->
           IF \E c \in M : c.id = e THEN Max({c.seq : c \in {d \in M : d.id = e}}) ELSE replica[e]]
  BY <1>2 DEF Apply
<1>5. ASSUME NEW e \in Entity
      PROVE  replica'[e] = IF rows[e] \in watermark + 1 .. w THEN rows[e] ELSE replica[e]
  <2>1. CASE rows[e] \in watermark + 1 .. w
    <3>1. CandidateOf(e) \in M /\ CandidateOf(e).id = e /\ CandidateOf(e).seq = rows[e]
      BY <1>3, <2>1 DEF CandidateOf
    <3>2. \A c \in M : c.id = e => c = CandidateOf(e)
      BY <1>3 DEF CandidateOf
    <3>3. {c.seq : c \in {d \in M : d.id = e}} = {rows[e]}
      BY <3>1, <3>2
    <3>4. {rows[e]} \in SUBSET (0..counter) /\ {rows[e]} # {}
      BY <1>1
    <3>5. Max({rows[e]}) \in {rows[e]}
      BY <1>1, <3>4, MaxOf
    <3> QED BY <1>4, <2>1, <3>1, <3>3, <3>5
  <2>2. CASE rows[e] \notin watermark + 1 .. w
    <3>1. ~\E c \in M : c.id = e
      BY <1>3, <2>2 DEF CandidateOf
    <3> QED BY <1>4, <2>2, <3>1
  <2> QED BY <2>1, <2>2
<1>6. replica' = [e \in Entity |->
                    IF rows[e] \in watermark + 1 .. w THEN rows[e] ELSE replica[e]]
  BY <1>4, <1>5
<1>7. CASE w = watermark
  <2>1. \A e \in Entity : rows[e] \notin watermark + 1 .. w
    BY <1>1, <1>7
  <2>2. replica' = replica
    BY <1>1, <1>6, <2>1
  <2> QED BY <1>4, <1>7, <2>2 DEF vars
<1>8. CASE w # watermark
  <2>1. w \in watermark + 1 .. counter
    BY <1>1, <1>3, <1>8
  <2>2. Deliver(w)
    BY <1>4, <1>6 DEF Deliver
  <2> QED BY <2>1, <2>2 DEF Next
<1> QED
  BY <1>7, <1>8

(* Until a transaction commits during a pull, the feed's invariant holds. *)
LEMMA FeedInvOf ==
    ASSUME PullInv, ~raced
    PROVE  FeedInv
  BY DEF PullInv, Bounded, TypeOK, FeedInv

(* The device applies the page, *)
LEMMA ApplyOK ==
    ASSUME PullInv, Apply, UNCHANGED raced
    PROVE  PullInv'
<1>1. /\ counter \in 0..MaxSeq /\ counter' = counter /\ rows' = rows /\ raced' = raced
      /\ page.next \in 0..counter /\ watermark' = page.next /\ EndPull
      /\ replica \in [Entity -> Nat]
  BY DEF PullInv, Bounded, TypeOK, Apply
<1>2. ASSUME NEW e \in Entity PROVE replica'[e] \in Nat
  <2>1. CASE \E c \in page.members : c.id = e
    <3>1. PICK S : S = {c.seq : c \in {d \in page.members : d.id = e}}
      OBVIOUS
    <3>2. counter \in Nat /\ S \in SUBSET (0..counter) /\ S # {}
      BY <1>1, <2>1, <3>1, LimitAssumption DEF PullInv, Bounded
    <3>3. PICK m \in S : m = Max(S)
      BY <3>2, MaxOf
    <3>4. m \in 0..counter
      BY <3>2
    <3>5. m \in Nat
      BY <3>4
    <3> QED BY <2>1, <3>1, <3>3, <3>5 DEF Apply
  <2>2. CASE ~\E c \in page.members : c.id = e
    BY <1>1, <2>2 DEF Apply
  <2> QED BY <2>1, <2>2
<1>3. replica' \in [Entity -> Nat]
  BY <1>2 DEF Apply
<1>4. TypeOK'
  BY <1>1, <1>3, EndPullOK, LimitAssumption DEF PullInv, Bounded, TypeOK
<1>5. Bounded'
  <2>1. counter \in Nat /\ 0 \in 0..counter
    BY <1>1, LimitAssumption
  <2> QED BY <1>1, <1>4, <2>1, EndPullOK DEF PullInv, Bounded
<1>6. ~raced => NoSkip'
  BY FeedInvOf, ApplyDelivers, FeedInductive DEF FeedInv
<1> QED
  BY <1>1, <1>5, <1>6, EndPullOK DEF PullInv

(* or never sees it. *)
LEMMA LoseReplyOK ==
    ASSUME PullInv, LoseReply, UNCHANGED raced
    PROVE  PullInv'
<1>1. EndPull /\ UNCHANGED vars
  BY DEF LoseReply
<1>2. counter \in Nat /\ 0 \in 0..counter
  BY LimitAssumption DEF PullInv, Bounded, TypeOK
<1>3. Bounded'
  BY <1>1, <1>2, EndPullOK, LimitAssumption DEF PullInv, Bounded, TypeOK, vars
<1>4. ~raced => NoSkip'
  BY <1>1 DEF PullInv, NoSkip, vars
<1> QED
  BY <1>1, <1>3, <1>4, EndPullOK DEF PullInv

(* A commit between two pulls leaves the handler idle; one during a pull       *)
(* ends what is claimed.                                                      *)
LEMMA CommitOK ==
    ASSUME PullInv, Commit
    PROVE  PullInv'
<1>1. PICK S \in SUBSET Entity : Write(S)
  BY DEF Commit
<1>2. /\ counter \in Nat /\ counter' = counter + 1 /\ counter' \in 0..MaxSeq
      /\ watermark' = watermark /\ replica' = replica /\ UNCHANGED readerVars
      /\ rows' = [e \in Entity |-> IF e \in S THEN counter + 1 ELSE rows[e]]
  BY <1>1, LimitAssumption DEF PullInv, Bounded, TypeOK, Commit, Write
<1>3. rows' \in [Entity -> 0..counter'] /\ 0..counter \subseteq 0..counter'
  BY <1>2 DEF PullInv, Bounded
<1>4. rows' \in [Entity -> Nat]
  BY <1>2, <1>3
<1>5. raced' \in BOOLEAN
  BY DEF Commit, PullInv, Bounded, TypeOK
<1>6. Bounded'
  BY <1>2, <1>3, <1>4, <1>5 DEF PullInv, Bounded, TypeOK, readerVars
<1>7. ASSUME ~raced' PROVE NoSkip' /\ Phases'
  <2>1. ~raced /\ pc = "idle"
    BY <1>7 DEF Commit, PullInv, Bounded, TypeOK
  <2>2. NoSkip'
    BY <1>1, <2>1, FeedInvOf, FeedInductive DEF Next, FeedInv
  <2>3. Phases'
    BY <1>2, <2>1 DEF PullInv, Phases, readerVars
  <2> QED BY <2>2, <2>3
<1> QED
  BY <1>6, <1>7 DEF PullInv

----------------------------------------------------------------------------
(* The results. *)

(* The invariant holds of a new group and device, *)
LEMMA PullInvInit == PullInit => PullInv
<1> SUFFICES ASSUME PullInit PROVE PullInv
  OBVIOUS
<1>1. page \in [members : SUBSET Candidate, next : Nat, more : BOOLEAN]
        /\ page.members = {} /\ page.next = 0
  BY DEF PullInit, NoPage
<1>2. TypeOK
  <2>1. counter \in 0..MaxSeq /\ table \in 1..NumTables /\ watermark \in Nat
    BY LimitAssumption DEF PullInit, Init
  <2>2. rows \in [Entity -> Nat] /\ replica \in [Entity -> Nat]
    BY DEF PullInit, Init
  <2>3. /\ fetched \in SUBSET Candidate /\ first \in SUBSET Candidate /\ raced \in BOOLEAN
        /\ pc \in {"idle", "since", "atSeq", "probe", "reply"}
    BY DEF PullInit
  <2> QED BY <1>1, <2>1, <2>2, <2>3 DEF TypeOK
<1>3. Bounded
  BY <1>1, <1>2 DEF PullInit, Init, Bounded
<1> QED
  BY <1>3 DEF PullInit, Init, NoSkip, Phases, PullInv

(* and every step keeps it. *)
LEMMA PullInvNext == PullInv /\ [PullNext]_allVars => PullInv'
<1> SUFFICES ASSUME PullInv, [PullNext]_allVars PROVE PullInv'
  OBVIOUS
<1>1. CASE UNCHANGED allVars
  <2>1. /\ counter' = counter /\ rows' = rows /\ watermark' = watermark /\ replica' = replica
        /\ pc' = pc /\ table' = table /\ fetched' = fetched /\ first' = first /\ page' = page
        /\ raced' = raced
    BY <1>1 DEF allVars, vars, readerVars
  <2>2. Bounded' /\ (~raced => NoSkip')
    BY <2>1 DEF PullInv, Bounded, TypeOK, NoSkip
  <2>3. ASSUME NEW k PROVE Gathered(k)' <=> Gathered(k)
    BY <2>1 DEF Gathered, FetchedFrom, Oldest, ChangedSince, CandidateOf
  <2>4. GroupBefore(table)' = GroupBefore(table) /\ (Whole' <=> Whole)
    BY <2>1 DEF GroupBefore, FirstSeq, CandidateOf, Whole
  <2>5. ~raced => Phases'
    BY <2>1, <2>3, <2>4 DEF PullInv, Phases
  <2> QED BY <2>1, <2>2, <2>5 DEF PullInv
<1> QED
  BY <1>1, StartPullOK, FetchSinceOK, FetchAtSeqOK, ProbeHasMoreOK, ApplyOK, LoseReplyOK, CommitOK
     DEF PullNext, Read, Receive, Lose

(* The invariant of Pull, its device and the other requests' transactions.    *)
THEOREM PullInvariant == PullSpec => []PullInv
  BY PullInvInit, PullInvNext, PTL DEF PullSpec

(* The handler's state has its types, also when transactions commit during a  *)
(* pull.                                                                       *)
THEOREM TypeOKCorrect == PullSpec => []TypeOK
<1>1. PullInv => TypeOK
  BY DEF PullInv, Bounded
<1> QED BY <1>1, PullInvariant, PTL

(* While no transaction commits during a pull the device misses nothing at or  *)
(* below its watermark, whatever the page size and however a transaction is    *)
(* spread over the tables.                                                     *)
THEOREM NoSkipUnlessRacedCorrect == PullSpec => []NoSkipUnlessRaced
<1>1. PullInv => NoSkipUnlessRaced
  BY DEF PullInv, NoSkipUnlessRaced
<1> QED BY <1>1, PullInvariant, PTL

(* probeHasMore and the group cutting agree on has_more.                       *)
THEOREM HasMoreHonestCorrect == PullSpec => []HasMoreHonest
<1>1. PullInv => HasMoreHonest
  BY DEF PullInv, HasMoreHonest, Phases
<1> QED BY <1>1, PullInvariant, PTL

(* Pull implements ChangeFeed until a transaction commits during a pull: an     *)
(* applied page is a delivery of whole transactions, every other step of the    *)
(* reader leaves the feed alone.                                                *)
THEOREM FeedCorrect == PullSpec => Feed
<1>1. PullInit => Init
  BY DEF PullInit
<1>2. ASSUME PullInv, [PullNext]_allVars PROVE [raced' \/ Next]_vars
  <2>1. CASE Commit
    BY <2>1 DEF Commit, Next
  <2>2. CASE Read
    BY <2>2 DEF Read, StartPull, FetchSince, FetchAtSeq, ProbeHasMore
  <2>3. CASE Receive
    <3>1. raced' = raced /\ raced \in BOOLEAN
      BY <1>2, <2>3 DEF Receive, PullInv, Bounded, TypeOK
    <3> QED BY <1>2, <2>3, <3>1, ApplyDelivers DEF Receive
  <2>4. CASE Lose
    BY <2>4 DEF Lose, LoseReply
  <2>5. CASE UNCHANGED allVars
    BY <2>5 DEF allVars
  <2> QED BY <1>2, <2>1, <2>2, <2>3, <2>4, <2>5 DEF PullNext
<1> QED
  BY <1>1, <1>2, PullInvariant, PTL DEF PullSpec, Feed
============================================================================
