----------------------------- MODULE PullReader -----------------------------
(***************************************************************************)
(* sync.Reader.Pull: a page is put together from autocommit reads of one   *)
(* table after another, so transactions of other requests may commit        *)
(* between any two of them.  The device applies the page and pulls again    *)
(* from next_watermark, or never sees the reply and repeats the pull.       *)
(***************************************************************************)
EXTENDS ChangeFeed, FiniteSets, FiniteSetsExt

CONSTANTS
    NumTables,   \* the tableSources, read in this order
    TableOf,     \* entity -> 1..NumTables
    Limit,       \* the request's limit
    MaxSeq       \* bound on the transactions

ASSUME LimitAssumption == Limit \in Nat \ {0} /\ NumTables \in Nat \ {0} /\ MaxSeq \in Nat
ASSUME TableAssumption == TableOf \in [Entity -> 1..NumTables]
ASSUME EntityAssumption == IsFiniteSet(Entity)

VARIABLES
    pc,        \* what the handler does next
    table,     \* the source it reads next
    fetched,   \* the candidates of fetchSince
    first,     \* the members of the first group, read again by fetchAtSeq
    page,      \* [members, next, more]: the page under construction
    raced      \* history: a transaction has committed during a pull

readerVars == <<pc, table, fetched, first, page>>
allVars == <<vars, readerVars, raced>>

Candidate == [id : Entity, seq : Nat]
NoPage == [members |-> {}, next |-> 0, more |-> FALSE]

TypeOK ==
    /\ counter \in 0..MaxSeq
    /\ rows \in [Entity -> Nat]
    /\ watermark \in Nat
    /\ replica \in [Entity -> Nat]
    /\ pc \in {"idle", "since", "atSeq", "probe", "reply"}
    /\ table \in 1..NumTables
    /\ fetched \in SUBSET Candidate
    /\ first \in SUBSET Candidate
    /\ page \in [members : SUBSET Candidate, next : Nat, more : BOOLEAN]
    /\ raced \in BOOLEAN

PullInit ==
    /\ Init
    /\ pc = "idle"
    /\ table = 1
    /\ fetched = {}
    /\ first = {}
    /\ page = NoPage
    /\ raced = FALSE

----------------------------------------------------------------------------
(* The queries. *)

CandidateOf(e) == [id |-> e, seq |-> rows[e]]

(* WHERE change_seq > since, of source k *)
ChangedSince(k, since) ==
    {CandidateOf(e) : e \in {d \in Entity : TableOf[d] = k /\ rows[d] > since}}

(* ORDER BY change_seq LIMIT n: ties are broken as the database likes. *)
Oldest(C, n) ==
    {R \in SUBSET C : /\ Cardinality(R) = Min({n, Cardinality(C)})
                      /\ \A r \in R, q \in C \ R : r.seq <= q.seq}

(* WHERE change_seq = seq *)
ChangedAt(k, seq) ==
    {CandidateOf(e) : e \in {d \in Entity : TableOf[d] = k /\ rows[d] = seq}}

----------------------------------------------------------------------------
(* The handler. *)

(* Reads of sources 1..NumTables: the next one, or the state after the last. *)
NextTable(after) ==
    /\ table' = IF table < NumTables THEN table + 1 ELSE 1
    /\ pc' = IF table < NumTables THEN pc ELSE after

StartPull ==
    /\ pc = "idle"
    /\ pc' = "since"
    /\ page' = [NoPage EXCEPT !.next = watermark]
    /\ UNCHANGED <<vars, table, fetched, first>>

FetchSince ==
    /\ pc = "since"
    /\ \E R \in Oldest(ChangedSince(table, watermark), Limit + 1) :
          /\ fetched' = fetched \cup R
          /\ NextTable(IF fetched' = {} THEN "reply" ELSE "atSeq")
    /\ UNCHANGED <<vars, first, page>>

FirstSeq == Min({c.seq : c \in fetched})

(* The page out of the first group g and the later groups of fetched: whole *)
(* groups while they fit the limit, the first one whatever its size.         *)
Upto(s) == {c \in fetched : c.seq > FirstSeq /\ c.seq <= s}
(* Mutant: one row too many. *)
Fits_OffByOne(g, s) == Cardinality(g) + Cardinality(Upto(s)) <= Limit + 1

Fits(g, s) == Cardinality(g) + Cardinality(Upto(s)) <= Limit
LaterSeqs == {c.seq : c \in fetched} \ {FirstSeq}

(* Mutants: the first group as fetchSince truncated it; a first group over  *)
(* the limit is put off.                                                     *)
PageFrom_Truncated(g) ==
    [members |-> {c \in fetched : c.seq = FirstSeq}, next |-> FirstSeq, more |-> LaterSeqs # {}]
PageFrom_PutOff(g) ==
    IF Cardinality(g) > Limit THEN [members |-> {}, next |-> watermark, more |-> TRUE]
    ELSE [members |-> g, next |-> FirstSeq, more |-> LaterSeqs # {}]

PageFrom(g) ==
    LET fitting == {s \in LaterSeqs : Fits(g, s)}
        last    == Max({FirstSeq} \cup fitting)
    IN  [members |-> g \cup Upto(last),
         next    |-> last,
         more    |-> Cardinality(g) <= Limit /\ fitting # LaterSeqs]

FetchAtSeq ==
    /\ pc = "atSeq"
    /\ first' = first \cup ChangedAt(table, FirstSeq)
    /\ page' = IF table < NumTables THEN page ELSE PageFrom(first')
    /\ NextTable(IF page'.more THEN "reply" ELSE "probe")
    /\ UNCHANGED <<vars, fetched>>

(* Mutant: the probe counts the page's own last group. *)
ProbeHasMore_Inclusive ==
    /\ pc = "probe"
    /\ LET found == ChangedSince(table, page.next - 1) # {}
       IN  IF found
           THEN /\ page' = [page EXCEPT !.more = TRUE]
                /\ pc' = "reply"
                /\ table' = 1
           ELSE /\ NextTable("reply")
                /\ UNCHANGED page
    /\ UNCHANGED <<vars, fetched, first>>

ProbeHasMore ==
    /\ pc = "probe"
    /\ LET found == ChangedSince(table, page.next) # {}
       IN  IF found
           THEN /\ page' = [page EXCEPT !.more = TRUE]
                /\ pc' = "reply"
                /\ table' = 1
           ELSE /\ NextTable("reply")
                /\ UNCHANGED page
    /\ UNCHANGED <<vars, fetched, first>>

----------------------------------------------------------------------------
(* The device. *)

EndPull ==
    /\ pc' = "idle"
    /\ table' = 1
    /\ fetched' = {}
    /\ first' = {}
    /\ page' = NoPage

Apply ==
    /\ pc = "reply"
    /\ watermark' = page.next
    /\ replica' = [e \in Entity |->
         IF \E c \in page.members : c.id = e
         THEN Max({c.seq : c \in {d \in page.members : d.id = e}})
         ELSE replica[e]]
    /\ EndPull
    /\ UNCHANGED <<counter, rows>>

LoseReply ==
    /\ pc = "reply"
    /\ EndPull
    /\ UNCHANGED vars

----------------------------------------------------------------------------
(* Transactions of other requests commit at any time. *)
Commit ==
    /\ counter < MaxSeq
    /\ \E S \in SUBSET Entity \ {{}} : Write(S)
    /\ raced' = (raced \/ pc # "idle")
    /\ UNCHANGED readerVars

Read == (StartPull \/ FetchSince \/ FetchAtSeq \/ ProbeHasMore) /\ UNCHANGED raced
Receive == Apply /\ UNCHANGED raced
Lose == LoseReply /\ UNCHANGED raced

PullNext == Commit \/ Read \/ Receive \/ Lose

(* A handler runs to its end, a device keeps pulling, and a reply that is    *)
(* sent again and again arrives at last.                                     *)
Fairness == WF_allVars(Read) /\ SF_allVars(Receive)

PullSpec == PullInit /\ [][PullNext]_allVars /\ Fairness

----------------------------------------------------------------------------
(* Properties.  Some hold as long as no transaction has committed during a   *)
(* pull; NoSkip itself does not survive one.                                 *)

(* Until then Pull's table by table reads, its per-table LIMIT and its group *)
(* cutting add up to atomic deliveries of whole transactions: the reader     *)
(* implements ChangeFeed.                                                    *)
Feed == Init /\ [][raced' \/ Next]_vars

(* Until then no row at or before the device's watermark is missing from its *)
(* replica.                                                                  *)
NoSkipUnlessRaced == raced \/ NoSkip

(* has_more is honest: a reply says so exactly when a row remains beyond     *)
(* its next_watermark.                                                       *)
HasMoreHonest ==
    raced \/ (pc = "reply" => (page.more <=> \E e \in Entity : rows[e] > page.next))

(* When the group falls silent the device ends up with exactly the server's *)
(* rows: no page size, not even one smaller than a transaction, wedges it.   *)
Converges == <>[](raced \/ replica = rows)

(* Even when transactions commit during pulls, the device's watermark        *)
(* reaches the newest row once they stop.                                    *)
WatermarkCatchesUp == <>[](\A e \in Entity : rows[e] <= watermark)

=============================================================================
