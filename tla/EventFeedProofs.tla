-------------------------- MODULE EventFeedProofs --------------------------
(***************************************************************************)
(* Proofs about the event feed, for every log, page size and number of      *)
(* connections: the types of the server and of the client, the exactness    *)
(* of a live subscription (LiveIsExact), the order of what a client applies *)
(* (AppliedInOrder), and that only a subscribe makes a client pass over a   *)
(* row (OnlySubscribesLose).                                                *)
(*                                                                         *)
(* The last two rest on FeedInv: what is on its way to a client on each     *)
(* socket continues from what the client has passed.                        *)
(***************************************************************************)
EXTENDS EventFeed, SequenceTheorems, FiniteSetTheorems, WellFoundedInduction, TLAPS

-----------------------------------------------------------------------------
(***************************************************************************)
(* Pages.                                                                  *)
(***************************************************************************)
IsAscending(s) == \A i, j \in DOMAIN s : i < j => s[i] < s[j]
Sortable(n) == \A S \in SUBSET (1..n) : \E s \in [1..Cardinality(S) -> S] : IsAscending(s)

\* A finite set of rows can be put in order: a row more goes to the end.
LEMMA SortsOneMore ==
  ASSUME NEW n \in Nat, Sortable(n)
  PROVE  Sortable(n + 1)
<1> SUFFICES ASSUME NEW S \in SUBSET (1..(n + 1))
             PROVE  \E s \in [1..Cardinality(S) -> S] : IsAscending(s)
  BY DEF Sortable
<1>1. CASE n + 1 \notin S
  <2>1. S \in SUBSET (1..n) BY <1>1
  <2> QED BY <2>1 DEF Sortable
<1>2. CASE n + 1 \in S
  <2> DEFINE T == S \ {n + 1}
             k == Cardinality(T)
  <2>1. T \in SUBSET (1..n) OBVIOUS
  <2>2. IsFiniteSet(T)
    <3>1. IsFiniteSet(1..n) BY FS_Interval
    <3> QED BY <2>1, <3>1, FS_Subset
  <2>3. k \in Nat BY <2>2, FS_CardinalityType
  <2>4. Cardinality(S) = k + 1
    <3>1. S = T \cup {n + 1} /\ n + 1 \notin T BY <1>2
    <3> QED BY <2>2, <3>1, FS_AddElement
  <2>5. PICK s \in [1..k -> T] : IsAscending(s) BY <2>1 DEF Sortable
  <2> DEFINE r == [i \in 1..(k + 1) |-> IF i <= k THEN s[i] ELSE n + 1]
  <2>6. T \subseteq S /\ T \subseteq 1..n OBVIOUS
  <2>10. \A i \in 1..k : s[i] \in S /\ s[i] \in 1..n BY <2>5, <2>6
  <2> HIDE DEF T, k
  <2>9. \A i \in 1..(k + 1) : i \in 1..k \/ ~(i <= k) BY <2>3
  <2>7. r \in [1..(k + 1) -> S] BY <1>2, <2>9, <2>10
  <2>8. IsAscending(r)
    <3> SUFFICES ASSUME NEW i \in 1..(k + 1), NEW j \in 1..(k + 1), i < j PROVE r[i] < r[j]
      BY <2>3 DEF IsAscending
    <3>0. i \in 1..k /\ i <= k BY <2>3
    <3>1. i \in 1..k /\ s[i] \in 1..n /\ r[i] = s[i] BY <2>10, <3>0
    <3>2. CASE j <= k
      <4>1. r[j] = s[j] /\ j \in 1..k BY <2>3, <3>2
      <4> QED BY <2>5, <3>1, <4>1 DEF IsAscending
    <3>3. CASE ~(j <= k)
      <4>1. r[j] = n + 1 BY <2>3, <3>3
      <4> QED BY <3>1, <4>1
    <3> QED BY <3>2, <3>3
  <2> HIDE DEF r
  <2> QED BY <2>4, <2>7, <2>8
<1> QED BY <1>1, <1>2

LEMMA AllSortable == \A n \in Nat : Sortable(n)
<1> DEFINE Bad == {n \in Nat : ~Sortable(n)}
           R == OpToRel(<, Nat)
<1>1. Sortable(0)
  <2> SUFFICES ASSUME NEW S \in SUBSET (1..0)
               PROVE  \E s \in [1..Cardinality(S) -> S] : IsAscending(s)
    BY DEF Sortable
  <2>0. S = {} OBVIOUS
  <2>1. Cardinality(S) = 0 BY <2>0, FS_EmptySet
  <2> DEFINE s == [i \in 1..0 |-> 0]
  <2>2. s \in [1..Cardinality(S) -> S] BY <2>1
  <2>3. IsAscending(s) BY DEF IsAscending
  <2> QED BY <2>2, <2>3
<1> SUFFICES ASSUME Bad # {} PROVE FALSE OBVIOUS
<1>2. PICK n \in Bad : \A m \in Bad : ~(<<m, n>> \in R)
  <2>1. IsWellFoundedOn(R, Nat) BY NatLessThanWellFounded
  <2>2. Bad \subseteq Nat OBVIOUS
  <2> HIDE DEF Bad, R
  <2> QED BY <2>1, <2>2, WFMin
<1>3. n \in Nat /\ n # 0 /\ ~Sortable(n) BY <1>1
<1>4. n - 1 \in Nat /\ n - 1 < n BY <1>3
<1>8. ~(n - 1 \in Bad)
  <2>1. \A m \in Nat : m < n => <<m, n>> \in R BY <1>3 DEF OpToRel
  <2>2. <<n - 1, n>> \in R BY <1>4, <2>1
  <2> HIDE DEF Bad, R
  <2> QED BY <1>2, <2>2
<1>5. Sortable(n - 1) BY <1>4, <1>8
<1>6. Sortable((n - 1) + 1) BY <1>4, <1>5, SortsOneMore
<1>7. (n - 1) + 1 = n BY <1>3
<1> QED BY <1>3, <1>6, <1>7

\* The rows of a page, in order and each once.
LEMMA AscendingIs ==
  ASSUME NEW n \in Nat, NEW S \in SUBSET (1..n)
  PROVE  /\ Ascending(S) \in Seq(S) /\ IsAscending(Ascending(S))
         /\ {Ascending(S)[i] : i \in DOMAIN Ascending(S)} = S
<1> DEFINE s == Ascending(S)
           k == Cardinality(S)
<1>1. s \in [1..k -> S] /\ IsAscending(s)
  <2>1. \E r \in [1..k -> S] : IsAscending(r) BY AllSortable DEF Sortable
  <2> QED BY <2>1 DEF Ascending, IsAscending
<1>2. IsFiniteSet(S) /\ IsFiniteSet(1..n)
  <2>1. IsFiniteSet(1..n) BY FS_Interval
  <2> QED BY <2>1, FS_Subset
<1>3. k \in Nat BY <1>2, FS_CardinalityType
<1>4. Cardinality(1..k) = k /\ IsFiniteSet(1..k) BY <1>3, FS_Interval
<1>5. S \subseteq Nat OBVIOUS
<1> HIDE DEF s, k
<1>6. s \in Injection(1..k, S)
  <2> SUFFICES ASSUME NEW i \in 1..k, NEW j \in 1..k, s[i] = s[j] PROVE i = j
    BY <1>1 DEF Injection, IsInjective
  <2>1. DOMAIN s = 1..k /\ s[i] \in Nat /\ s[j] \in Nat BY <1>1, <1>5
  <2>2. ~(i < j) /\ ~(j < i) BY <1>1, <2>1 DEF IsAscending
  <2> QED BY <1>3, <2>2
<1>7. s \in Surjection(1..k, S)
  <2>1. Cardinality(1..k) = Cardinality(S) BY <1>4 DEF k
  <2> QED BY <1>2, <1>6, <2>1, FS_Injection
<1>8. {s[i] : i \in DOMAIN s} = S BY <1>1, <1>7 DEF Surjection
<1>9. s \in Seq(S) BY <1>1, <1>3, SeqDef
<1> QED BY <1>1, <1>8, <1>9 DEF s

\* What was sent of a log: the events among the messages, their order and their rows.
EventsOf(d) == {i \in DOMAIN d : d[i].type = "event"}
Seqs(d) == {d[i].seq : i \in EventsOf(d)}
Exactly(d, S) == /\ \A i, j \in EventsOf(d) : i < j => d[i].seq < d[j].seq
                 /\ Seqs(d) = S

LEMMA PageItemsAre ==
  ASSUME NEW since \in Nat, NEW top \in Int, top <= MaxSeq
  PROVE  PageItems(since, top) \in SUBSET (1..MaxSeq)
BY SeqAssumption DEF PageItems

\* Two pages that meet are one.
LEMMA PagesJoin ==
  ASSUME NEW a \in Int, NEW n \in Int, NEW m \in Int, a <= n, n <= m
  PROVE  PageItems(a, n) \cup PageItems(n, m) = PageItems(a, m)
<1>1. ASSUME NEW e PROVE e \in PageItems(a, n) \cup PageItems(n, m) <=> e \in PageItems(a, m)
  <2>1. e \in (a + 1)..n \/ e \in (n + 1)..m <=> e \in (a + 1)..m OBVIOUS
  <2> QED BY <2>1 DEF PageItems
<1> QED BY <1>1

\* A page is sent as its items, in order.
LEMMA PageIs ==
  ASSUME NEW since \in Nat, NEW top \in Int, top <= MaxSeq
  PROVE  /\ PageEvents(since, top) \in Seq([type : {"event"}, seq : 1..MaxSeq])
         /\ Exactly(PageEvents(since, top), PageItems(since, top))
<1> DEFINE S == PageItems(since, top)
           s == Ascending(S)
           p == PageEvents(since, top)
           E == [type : {"event"}, seq : 1..MaxSeq]
<1>1. S \in SUBSET (1..MaxSeq) /\ MaxSeq \in Nat BY PageItemsAre, SeqAssumption
<1>2. s \in Seq(S) /\ IsAscending(s) /\ {s[i] : i \in DOMAIN s} = S BY <1>1, AscendingIs
<1>3. p = [i \in DOMAIN s |-> Event(s[i])] BY DEF PageEvents
<1> HIDE DEF s, S, p
<1>4. Len(s) \in Nat /\ DOMAIN s = 1..Len(s) /\ \A i \in 1..Len(s) : s[i] \in S BY <1>2
<1>5. p \in [1..Len(s) -> E]
  <2>1. \A i \in 1..Len(s) : Event(s[i]) \in E BY <1>1, <1>4 DEF Event
  <2> QED BY <1>3, <1>4, <2>1
<1>6. p \in Seq(E)
  <2> HIDE DEF E
  <2> QED BY <1>4, <1>5, SeqDef
<1>7. DOMAIN p = DOMAIN s /\ \A i \in DOMAIN s : p[i].type = "event" /\ p[i].seq = s[i]
  BY <1>3 DEF Event
<1>8. EventsOf(p) = DOMAIN s BY <1>7 DEF EventsOf
<1>9. Exactly(p, S) BY <1>2, <1>7, <1>8 DEF Exactly, Seqs, IsAscending
<1> QED BY <1>6, <1>9 DEF p, S

LEMMA EventIsMessage == [type : {"event"}, seq : 1..MaxSeq] \subseteq Messages
BY DEF Messages

\* What is cut off a page leaves the items before the cut.
LEMMA PageCut ==
  ASSUME NEW since \in Nat, NEW top \in Int, top <= MaxSeq, NEW k \in DOMAIN PageEvents(since, top)
  PROVE  LET p == PageEvents(since, top)  s == p[k].seq IN
         /\ SubSeq(p, 1, k - 1) \in Seq([type : {"event"}, seq : 1..MaxSeq])
         /\ s \in (since + 1)..top
         /\ Exactly(SubSeq(p, 1, k - 1), PageItems(since, s - 1))
<1> DEFINE p == PageEvents(since, top)
           E == [type : {"event"}, seq : 1..MaxSeq]
           r == SubSeq(p, 1, k - 1)
<1>1. p \in Seq(E) /\ Exactly(p, PageItems(since, top)) BY PageIs
<1> HIDE DEF p, E, r
<1>2. Len(p) \in Nat /\ DOMAIN p = 1..Len(p) /\ k \in 1..Len(p)
  <2>1. k \in DOMAIN p BY DEF p
  <2> QED BY <1>1, <2>1
<1>3. \A i \in 1..Len(p) : p[i] \in E BY <1>1, <1>2
<1>4. r \in Seq(E) /\ DOMAIN r = 1..(k - 1) /\ \A i \in 1..(k - 1) : r[i] = p[i]
  <2>1. \A i \in 1..(k - 1) : p[i] \in E BY <1>2, <1>3
  <2>2. /\ r \in Seq(E) /\ Len(r) = IF 1 <= k - 1 THEN k - 1 - 1 + 1 ELSE 0
        /\ \A i \in 1..(k - 1 - 1 + 1) : r[i] = p[1 + i - 1]
    BY <1>2, <2>1, SubSeqProperties DEF r
  <2>3. DOMAIN r = 1..Len(r) BY <2>2
  <2> QED BY <1>2, <2>2, <2>3
<1>5. \A i \in 1..Len(p) : p[i].type = "event" /\ p[i].seq \in Nat BY <1>3 DEF E
<1>6. EventsOf(p) = 1..Len(p) /\ EventsOf(r) = 1..(k - 1)
  <2>1. 1..(k - 1) \subseteq 1..Len(p) BY <1>2
  <2> QED BY <1>2, <1>4, <1>5, <2>1 DEF EventsOf
<1>7. /\ \A i, j \in 1..Len(p) : i < j => p[i].seq < p[j].seq
      /\ {p[i].seq : i \in 1..Len(p)} = PageItems(since, top)
  BY <1>1, <1>6 DEF Exactly, Seqs
<1>8. p[k].seq \in PageItems(since, top) BY <1>2, <1>7
<1>9. p[k].seq \in (since + 1)..top BY <1>8 DEF PageItems
<1>10. {p[i].seq : i \in 1..(k - 1)} = PageItems(since, p[k].seq - 1)
  <2>1. ASSUME NEW i \in 1..(k - 1) PROVE p[i].seq \in PageItems(since, p[k].seq - 1)
    <3>1. i \in 1..Len(p) /\ i < k BY <1>2
    <3>2. p[i].seq < p[k].seq /\ p[i].seq \in PageItems(since, top) BY <1>2, <1>7, <3>1
    <3> QED BY <1>9, <3>2 DEF PageItems
  <2>2. ASSUME NEW e \in PageItems(since, p[k].seq - 1) PROVE e \in {p[i].seq : i \in 1..(k - 1)}
    <3>1. e \in PageItems(since, top) /\ e \in Int /\ e < p[k].seq BY <1>9 DEF PageItems
    <3>2. PICK i \in 1..Len(p) : p[i].seq = e BY <1>7, <3>1
    <3>3. i # k /\ ~(k < i)
      <4>1. p[k].seq \in Int /\ ~(p[k].seq < p[i].seq) /\ p[i].seq # p[k].seq BY <1>2, <1>5, <3>1, <3>2
      <4>2. k < i => p[k].seq < p[i].seq BY <1>2, <1>7, <3>2
      <4> QED BY <4>1, <4>2
    <3>4. i \in 1..(k - 1) BY <1>2, <3>2, <3>3
    <3> QED BY <3>2, <3>4
  <2> QED BY <2>1, <2>2
<1>11. Exactly(r, PageItems(since, p[k].seq - 1))
  <2>1. \A i \in 1..(k - 1) : r[i].seq = p[i].seq /\ i \in 1..Len(p) BY <1>2, <1>4
  <2>2. Seqs(r) = {p[i].seq : i \in 1..(k - 1)} BY <1>6, <2>1 DEF Seqs
  <2> QED BY <1>6, <1>7, <1>10, <2>1, <2>2 DEF Exactly
<1> QED BY <1>4, <1>9, <1>11 DEF p, E, r

\* Later rows are sent after earlier ones.
LEMMA SentOnTop ==
  ASSUME NEW d \in Seq(Messages), NEW p \in Seq(Messages), NEW S, NEW T,
         Exactly(d, S), Exactly(p, T), S \subseteq Int, T \subseteq Int,
         \A a \in S, b \in T : a < b
  PROVE  d \o p \in Seq(Messages) /\ Exactly(d \o p, S \cup T)
<1> DEFINE r == d \o p
           n == Len(d)
<1>1. /\ r \in Seq(Messages) /\ DOMAIN r = 1..(n + Len(p)) /\ n \in Nat /\ Len(p) \in Nat
      /\ DOMAIN d = 1..n /\ DOMAIN p = 1..Len(p)
      /\ \A i \in 1..(n + Len(p)) : r[i] = IF i <= n THEN d[i] ELSE p[i - n]
  BY ConcatProperties
<1> HIDE DEF r, n
<1>2. \A i \in EventsOf(d) : i \in EventsOf(r) /\ r[i].seq = d[i].seq /\ d[i].seq \in S /\ i \in 1..n
  BY <1>1 DEF EventsOf, Exactly, Seqs
<1>3. \A i \in EventsOf(p) : /\ n + i \in EventsOf(r) /\ r[n + i].seq = p[i].seq /\ p[i].seq \in T
                             /\ i \in 1..Len(p)
  <2> SUFFICES ASSUME NEW i \in EventsOf(p)
               PROVE  n + i \in EventsOf(r) /\ r[n + i].seq = p[i].seq /\ p[i].seq \in T /\ i \in 1..Len(p)
    OBVIOUS
  <2>1. i \in 1..Len(p) /\ p[i].type = "event" BY <1>1 DEF EventsOf
  <2>2. n + i \in 1..(n + Len(p)) /\ ~(n + i <= n) /\ (n + i) - n = i BY <1>1, <2>1
  <2>3. r[n + i] = p[i] BY <1>1, <2>2
  <2> QED BY <1>1, <2>1, <2>2, <2>3 DEF EventsOf, Exactly, Seqs
<1>4. \A i \in EventsOf(r) : i \in 1..(n + Len(p)) /\ (i \in EventsOf(d) \/ i - n \in EventsOf(p))
  <2> SUFFICES ASSUME NEW i \in EventsOf(r)
               PROVE  i \in 1..(n + Len(p)) /\ (i \in EventsOf(d) \/ i - n \in EventsOf(p))
    OBVIOUS
  <2>1. i \in 1..(n + Len(p)) /\ r[i].type = "event" BY <1>1 DEF EventsOf
  <2>2. CASE i <= n
    <3>1. i \in 1..n /\ r[i] = d[i] BY <1>1, <2>1, <2>2
    <3> QED BY <1>1, <2>1, <3>1 DEF EventsOf
  <2>3. CASE ~(i <= n)
    <3>1. i - n \in 1..Len(p) /\ r[i] = p[i - n] BY <1>1, <2>1, <2>3
    <3> QED BY <1>1, <2>1, <3>1 DEF EventsOf
  <2> QED BY <2>2, <2>3
<1>5. ASSUME NEW i \in EventsOf(r), NEW j \in EventsOf(r), i < j PROVE r[i].seq < r[j].seq
  <2>1. i \in Int /\ j \in Int BY <1>4
  <2>2. CASE j \in EventsOf(d)
    <3>1. i \in EventsOf(d)
      <4>1. j <= n BY <1>1, <1>2, <2>2
      <4>2. ~(i - n \in EventsOf(p)) BY <1>1, <1>3, <1>5, <2>1, <4>1
      <4> QED BY <1>4, <4>2
    <3> QED BY <1>2, <1>5, <2>2, <3>1 DEF Exactly
  <2>3. CASE j - n \in EventsOf(p)
    <3>1. r[j].seq = p[j - n].seq /\ p[j - n].seq \in T
      <4>1. n + (j - n) = j BY <1>1, <2>1
      <4> QED BY <1>3, <2>3, <4>1
    <3>2. CASE i \in EventsOf(d) BY <1>2, <3>1, <3>2
    <3>3. CASE i - n \in EventsOf(p)
      <4>1. n + (i - n) = i /\ i - n < j - n BY <1>1, <1>5, <2>1
      <4>2. r[i].seq = p[i - n].seq BY <1>3, <3>3, <4>1
      <4> QED BY <2>3, <3>1, <3>3, <4>1, <4>2 DEF Exactly
    <3> QED BY <1>4, <3>2, <3>3
  <2> QED BY <1>4, <2>2, <2>3
<1>6. Seqs(r) = S \cup T
  <2>1. ASSUME NEW i \in EventsOf(r) PROVE r[i].seq \in S \cup T
    <3>1. CASE i \in EventsOf(d) BY <1>2, <3>1
    <3>2. CASE i - n \in EventsOf(p)
      <4>1. n + (i - n) = i BY <1>1, <1>4
      <4> QED BY <1>3, <3>2, <4>1
    <3> QED BY <1>4, <3>1, <3>2
  <2>2. ASSUME NEW x \in S PROVE x \in Seqs(r)
    <3>1. PICK i \in EventsOf(d) : d[i].seq = x BY DEF Exactly, Seqs
    <3> QED BY <1>2, <3>1 DEF Seqs
  <2>3. ASSUME NEW x \in T PROVE x \in Seqs(r)
    <3>1. PICK i \in EventsOf(p) : p[i].seq = x BY DEF Exactly, Seqs
    <3> QED BY <1>3, <3>1 DEF Seqs
  <2> QED BY <2>1, <2>2, <2>3 DEF Seqs
<1> QED BY <1>1, <1>5, <1>6 DEF Exactly, r

\* A refusal is no event.
LEMMA RefusalOnTop ==
  ASSUME NEW d \in Seq(Messages), NEW m \in Messages, m.type = "refused"
  PROVE  /\ Append(d, m) \in Seq(Messages)
         /\ \A S : Exactly(d, S) => Exactly(Append(d, m), S)
<1> DEFINE r == Append(d, m)
           n == Len(d)
<1>1. /\ r \in Seq(Messages) /\ DOMAIN r = 1..(n + 1) /\ n \in Nat /\ DOMAIN d = 1..n
      /\ \A i \in 1..n : r[i] = d[i] 
      /\ r[n + 1] = m
  BY AppendProperties
<1> HIDE DEF r, n
<1>2. EventsOf(r) = EventsOf(d)
  <2>1. \A i \in 1..(n + 1) : i \in 1..n \/ i = n + 1 BY <1>1
  <2>2. \A i \in 1..n : i \in 1..(n + 1) BY <1>1
  <2> QED BY <1>1, <2>1, <2>2 DEF EventsOf
<1>3. \A i \in EventsOf(d) : r[i] = d[i] BY <1>1 DEF EventsOf
<1>4. \A S : Exactly(d, S) => Exactly(r, S) BY <1>2, <1>3 DEF Exactly, Seqs
<1> QED BY <1>1, <1>4 DEF r

\* A handler that is over.
LEMMA RemovedFrom ==
  ASSUME NEW S, NEW s \in Seq(S), NEW i \in DOMAIN s
  PROVE  /\ RemoveAt(s, i) \in Seq(S) /\ Len(RemoveAt(s, i)) = Len(s) - 1
         /\ \A k \in DOMAIN RemoveAt(s, i) :
              /\ RemoveAt(s, i)[k] = s[IF k < i THEN k ELSE k + 1]
              /\ (IF k < i THEN k ELSE k + 1) \in DOMAIN s
<1> DEFINE n == Len(s)
           a == SubSeq(s, 1, i - 1)
           b == SubSeq(s, i + 1, n)
<1>1. n \in Nat /\ DOMAIN s = 1..n /\ i \in 1..n /\ \A k \in 1..n : s[k] \in S OBVIOUS
<1> HIDE DEF n, a, b
<1>2. a \in Seq(S) /\ Len(a) = i - 1 /\ \A k \in 1..(i - 1) : a[k] = s[k]
  <2>1. \A k \in 1..(i - 1) : s[k] \in S BY <1>1
  <2>2. /\ a \in Seq(S) /\ Len(a) = IF 1 <= i - 1 THEN i - 1 - 1 + 1 ELSE 0
        /\ \A k \in 1..(i - 1 - 1 + 1) : a[k] = s[1 + k - 1]
    BY <1>1, <2>1, SubSeqProperties DEF a
  <2> QED BY <1>1, <2>2
<1>3. b \in Seq(S) /\ Len(b) = n - i /\ \A k \in 1..(n - i) : b[k] = s[i + k]
  <2>1. \A k \in (i + 1)..n : s[k] \in S BY <1>1
  <2>2. /\ b \in Seq(S) /\ Len(b) = IF i + 1 <= n THEN n - (i + 1) + 1 ELSE 0
        /\ \A k \in 1..(n - (i + 1) + 1) : b[k] = s[i + 1 + k - 1]
    BY <1>1, <2>1, SubSeqProperties DEF b
  <2>3. n - (i + 1) + 1 = n - i /\ Len(b) = n - i BY <1>1, <2>2
  <2>4. ASSUME NEW k \in 1..(n - i) PROVE b[k] = s[i + k]
    <3>1. b[k] = s[i + 1 + k - 1] BY <2>2, <2>3
    <3>2. i + 1 + k - 1 = i + k BY <1>1
    <3> QED BY <3>1, <3>2
  <2> QED BY <2>2, <2>3, <2>4
<1>4. RemoveAt(s, i) = a \o b BY DEF RemoveAt, a, b, n
<1>5. /\ a \o b \in Seq(S) /\ Len(a \o b) = n - 1
      /\ \A k \in 1..(n - 1) : (a \o b)[k] = IF k <= i - 1 THEN a[k] ELSE b[k - (i - 1)]
  <2>1. /\ a \o b \in Seq(S) /\ Len(a \o b) = Len(a) + Len(b)
        /\ \A k \in 1..(Len(a) + Len(b)) : (a \o b)[k] = IF k <= Len(a) THEN a[k] ELSE b[k - Len(a)]
    BY <1>2, <1>3, ConcatProperties
  <2>2. Len(a) = i - 1 /\ Len(a) + Len(b) = n - 1 BY <1>1, <1>2, <1>3
  <2> QED BY <2>1, <2>2
<1>6. Len(a \o b) = n - 1 /\ DOMAIN (a \o b) = 1..(n - 1) BY <1>1, <1>5
<1>7. ASSUME NEW k \in 1..(n - 1)
      PROVE  /\ (a \o b)[k] = s[IF k < i THEN k ELSE k + 1]
             /\ (IF k < i THEN k ELSE k + 1) \in 1..n
  <2>1. (a \o b)[k] = IF k <= i - 1 THEN a[k] ELSE b[k - (i - 1)] BY <1>1, <1>5
  <2>2. CASE k < i
    <3>1. k <= i - 1 /\ k \in 1..(i - 1) BY <1>1, <2>2
    <3> QED BY <1>1, <1>2, <2>1, <2>2, <3>1
  <2>3. CASE ~(k < i)
    <3> DEFINE j == k - (i - 1)
    <3>1. ~(k <= i - 1) /\ j \in 1..(n - i) /\ i + j = k + 1 /\ k + 1 \in 1..n BY <1>1, <2>3
    <3>2. b[j] = s[i + j] BY <1>3, <3>1
    <3> QED BY <2>1, <2>3, <3>1, <3>2
  <2> QED BY <2>2, <2>3
<1> QED BY <1>1, <1>4, <1>5, <1>6, <1>7 DEF n

-----------------------------------------------------------------------------
(***************************************************************************)
(* Types of the server.                                                    *)
(***************************************************************************)
\* Handlers that wait: what a handler has read is known to it, and no page or mark
\* ends beyond the n rows of the log, unless the client asked from beyond it.
GoodJobs(n) == {j \in Job :
  /\ j.top <= AtLeast(j.since, n)
  /\ j.type = "subscribe" => j.top <= n
  /\ j.at = "apply" /\ j.type \in {"subscribe", "resume"} => j.top # Unseeded}

History == [wants : BOOLEAN, asked : BOOLEAN, subs : Nat, marked : BOOLEAN,
            start : Unseeded..MaxSeq]
Ticks == [phase : {"next", "read", "send"}, left : SUBSET Conns, conn : Conns \cup {NoConn},
          since : 0..MaxSeq, top : 0..MaxSeq]
GoodTick(t, n) ==
  /\ t \in Ticks /\ t.top <= AtLeast(t.since, n)
  /\ IF t.phase = "next" THEN t.top = 0 ELSE t.conn \in Conns

ServerTypes ==
  /\ lastSeq \in 0..MaxSeq
  /\ sock \in [Conns -> {"new", "open", "closing", "closed"}]
  /\ subscribed \subseteq Conns /\ viewing \subseteq Conns
  /\ cursor \in [Conns -> Unseeded..MaxSeq]
  /\ GoodTick(tick, lastSeq)
  /\ up \in [Conns -> Seq(Frames)]
  /\ jobs \in [Conns -> Seq(GoodJobs(lastSeq))]
  /\ down \in [Conns -> Seq(Messages)]
  /\ faults \in 0..MaxFaults
  /\ hist \in [Conns -> History]

LEMMA TypesAreServerTypes == ServerTypes => ServerTypeOK
<1> SUFFICES ASSUME ServerTypes PROVE ServerTypeOK OBVIOUS
<1>1. tick \in Ticks /\ tick.top <= AtLeast(tick.since, lastSeq) BY DEF ServerTypes, GoodTick
<1>2. ASSUME NEW c \in Conns
      PROVE  /\ \A i \in DOMAIN up[c] : up[c][i] \in Frames
             /\ \A i \in DOMAIN jobs[c] : /\ jobs[c][i] \in Job
                                          /\ jobs[c][i].top <= AtLeast(jobs[c][i].since, lastSeq)
             /\ \A i \in DOMAIN down[c] : down[c][i] \in Messages
  <2>1. up[c] \in Seq(Frames) /\ jobs[c] \in Seq(GoodJobs(lastSeq)) /\ down[c] \in Seq(Messages)
    BY DEF ServerTypes
  <2>2. \A i \in DOMAIN jobs[c] : jobs[c][i] \in GoodJobs(lastSeq) BY <2>1
  <2> QED BY <2>1, <2>2 DEF GoodJobs
<1> QED BY <1>1, <1>2 DEF ServerTypes, ServerTypeOK, Ticks, History

LEMMA PageTopIs ==
  ASSUME lastSeq \in 0..MaxSeq, NEW since \in 0..MaxSeq, NEW cap \in Nat \ {0}
  PROVE  /\ PageTop(since, cap) \in 0..MaxSeq /\ since <= PageTop(since, cap)
         /\ PageTop(since, cap) <= AtLeast(since, lastSeq)
         /\ since < lastSeq => since < PageTop(since, cap)
BY SeqAssumption DEF PageTop, AtMost, AtLeast

\* One handler of a connection goes on, or is over.
LEMMA JobStep ==
  ASSUME ServerTypes, NEW c \in Conns, NEW i \in DOMAIN jobs[c]
  PROVE  /\ jobs[c][i] \in GoodJobs(lastSeq)
         /\ Ends(c, i) => jobs' \in [Conns -> Seq(GoodJobs(lastSeq))]
         /\ \A j \in GoodJobs(lastSeq) : jobs' = [jobs EXCEPT ![c] = [jobs[c] EXCEPT ![i] = j]]
              => jobs' \in [Conns -> Seq(GoodJobs(lastSeq))]
<1> DEFINE G == GoodJobs(lastSeq)
<1>1. jobs \in [Conns -> Seq(G)] BY DEF ServerTypes
<1> HIDE DEF G
<1>2. jobs[c] \in Seq(G) BY <1>1
<1>3. i \in 1..Len(jobs[c]) /\ jobs[c][i] \in G BY <1>2
<1>4. RemoveAt(jobs[c], i) \in Seq(G) BY <1>2, RemovedFrom
<1>5. \A j \in G : [jobs[c] EXCEPT ![i] = j] \in Seq(G) BY <1>2, <1>3, ExceptSeq
<1>6. Ends(c, i) => jobs' \in [Conns -> Seq(G)] BY <1>1, <1>4 DEF Ends
<1>7. \A j \in G : jobs' = [jobs EXCEPT ![c] = [jobs[c] EXCEPT ![i] = j]] => jobs' \in [Conns -> Seq(G)]
  BY <1>1, <1>5
<1> QED BY <1>3, <1>6, <1>7 DEF G

\* Pages and parts of pages are messages.
LEMMA PageTypes ==
  ASSUME ServerTypes, NEW c \in Conns, NEW since \in 0..MaxSeq, NEW top \in Unseeded..MaxSeq
  PROVE  /\ down[c] \o PageEvents(since, top) \in Seq(Messages)
         /\ \A k \in DOMAIN PageEvents(since, top) :
              down[c] \o SubSeq(PageEvents(since, top), 1, k - 1) \in Seq(Messages)
<1> DEFINE E == [type : {"event"}, seq : 1..MaxSeq]
           p == PageEvents(since, top)
<1>0. since \in Nat /\ top \in Int /\ top <= MaxSeq BY SeqAssumption DEF Unseeded
<1>1. p \in Seq(E) /\ \A k \in DOMAIN p : SubSeq(p, 1, k - 1) \in Seq(E)
  BY <1>0, PageIs, PageCut
<1>2. E \subseteq Messages BY EventIsMessage
<1> HIDE DEF E, p
<1>3. p \in Seq(Messages) /\ \A k \in DOMAIN p : SubSeq(p, 1, k - 1) \in Seq(Messages)
  BY <1>1, <1>2, SeqMonotonic
<1>4. down[c] \in Seq(Messages) BY DEF ServerTypes
<1> QED BY <1>3, <1>4, ConcatProperties DEF p

LEMMA JobTypes ==
  ASSUME ServerTypes, NEW c \in Conns, NEW i \in DOMAIN jobs[c],
         Authorized(c, i) \/ Reads(c, i) \/ SeedMark(c, i) \/ SendPage(c, i) \/ SetPresence(c, i)
           \/ Refused(c, i) \/ ReadFails(c, i) \/ ResumeOverflows(c, i)
  PROVE  ServerTypes'
<1> DEFINE x == jobs[c][i]
<1>0. x \in Job /\ x \in GoodJobs(lastSeq) BY JobStep DEF GoodJobs
<1>00. MaxSeq \in Nat /\ lastSeq \in 0..MaxSeq /\ cursor[c] \in Unseeded..MaxSeq /\ hist[c] \in History
  BY SeqAssumption DEF ServerTypes
<1>1. CASE Authorized(c, i)
  <2> DEFINE j == [x EXCEPT !.at = IF x.type \in {"subscribe", "resume"} THEN "read" ELSE "apply"]
  <2>1. j \in GoodJobs(lastSeq) BY <1>0 DEF GoodJobs, Job
  <2>2. jobs' = [jobs EXCEPT ![c] = [jobs[c] EXCEPT ![i] = j]] BY <1>1 DEF Authorized
  <2> HIDE DEF j
  <2>3. jobs' \in [Conns -> Seq(GoodJobs(lastSeq))] BY <2>1, <2>2, JobStep
  <2>4. subscribed' \subseteq Conns BY <1>1 DEF Authorized, ServerTypes
  <2>5. AtLeast(hist[c].start, cursor[c]) \in Unseeded..MaxSeq BY <1>00 DEF AtLeast, History, Unseeded
  <2>6. hist' \in [Conns -> History]
    <3>1. ASSUME x.type = "subscribe" PROVE hist' \in [Conns -> History]
      <4> DEFINE h == [hist[c] EXCEPT !.marked = @ /\ c \in subscribed, !.start = AtLeast(@, cursor[c])]
      <4>1. h \in History BY <1>00, <2>5 DEF History
      <4>2. hist' = [hist EXCEPT ![c] = h] BY <1>1, <3>1 DEF Authorized
      <4> HIDE DEF h
      <4> QED BY <4>1, <4>2 DEF ServerTypes
    <3>2. ASSUME x.type # "subscribe" PROVE hist' = hist BY <1>1, <3>2 DEF Authorized
    <3> QED BY <3>1, <3>2 DEF ServerTypes
  <2> QED BY <1>1, <2>3, <2>4, <2>6 DEF Authorized, ServerTypes
<1>2. CASE Refused(c, i)
  <2>1. Refusal(x.type) \in Messages BY <1>0 DEF Job, Messages, Refusal
  <2>2. down[c] \in Seq(Messages) BY DEF ServerTypes
  <2>3. Append(down[c], Refusal(x.type)) \in Seq(Messages) BY <2>1, <2>2, AppendProperties
  <2>4. down' \in [Conns -> Seq(Messages)] BY <1>2, <2>3 DEF Refused, ServerTypes
  <2>5. faults' \in 0..MaxFaults BY <1>2, FaultAssumption DEF Refused, Fault, ServerTypes
  <2> QED BY <1>2, <2>4, <2>5, JobStep DEF Refused, ServerTypes
<1>3. CASE Reads(c, i)
  <2> DEFINE t == IF x.type = "subscribe" THEN lastSeq ELSE PageTop(x.since, ResumeBatch)
             j == [x EXCEPT !.at = "apply", !.top = t]
  <2>1. PageTop(x.since, ResumeBatch) \in 0..MaxSeq
        /\ PageTop(x.since, ResumeBatch) <= AtLeast(x.since, lastSeq)
    BY <1>0, <1>00, PageTopIs, BatchAssumption DEF Job
  <2>2. j \in GoodJobs(lastSeq)
    <3>1. t \in 0..MaxSeq /\ t <= AtLeast(x.since, lastSeq) /\ (x.type = "subscribe" => t <= lastSeq)
      BY <1>0, <1>00, <2>1 DEF AtLeast, Job
    <3> HIDE DEF t
    <3>2. t \in Unseeded..MaxSeq /\ t # Unseeded BY <1>00, <3>1 DEF Unseeded
    <3> QED BY <1>0, <3>1, <3>2 DEF GoodJobs, Job
  <2>3. jobs' = [jobs EXCEPT ![c] = [jobs[c] EXCEPT ![i] = j]] BY <1>3 DEF Reads
  <2> HIDE DEF j
  <2>4. jobs' \in [Conns -> Seq(GoodJobs(lastSeq))] BY <2>2, <2>3, JobStep
  <2> QED BY <1>3, <2>4 DEF Reads, ServerTypes
<1>4. CASE ReadFails(c, i)
  <2>1. faults' \in 0..MaxFaults BY <1>4, FaultAssumption DEF ReadFails, Fault, ServerTypes
  <2> QED BY <1>4, <2>1, JobStep DEF ReadFails, ServerTypes
<1>5. CASE SeedMark(c, i)
  <2>1. x.top \in Unseeded..MaxSeq BY <1>0 DEF Job
  <2>2. cursor' \in [Conns -> Unseeded..MaxSeq] BY <1>5, <2>1 DEF SeedMark, Seeded, ServerTypes
  <2>3. hist' \in [Conns -> History]
    <3> DEFINE h == [hist[c] EXCEPT !.marked = TRUE, !.start = AtLeast(@, x.top)]
    <3>1. h \in History BY <1>00, <2>1 DEF History, AtLeast, Unseeded
    <3>2. hist' = [hist EXCEPT ![c] = h] BY <1>5 DEF SeedMark
    <3> HIDE DEF h
    <3> QED BY <3>1, <3>2 DEF ServerTypes
  <2> QED BY <1>5, <2>2, <2>3, JobStep DEF SeedMark, ServerTypes
<1>6. CASE SendPage(c, i)
  <2>1. x.top \in Unseeded..MaxSeq /\ x.since \in 0..MaxSeq BY <1>0 DEF Job
  <2>2. cursor' \in [Conns -> Unseeded..MaxSeq] BY <1>6, <2>1 DEF SendPage, Seeded, ServerTypes
  <2>3. down' \in [Conns -> Seq(Messages)]
    <3>1. down[c] \o PageEvents(x.since, x.top) \in Seq(Messages) BY <2>1, PageTypes
    <3> QED BY <1>6, <3>1 DEF SendPage, ServerTypes
  <2> QED BY <1>6, <2>2, <2>3, JobStep DEF SendPage, ServerTypes
<1>7. CASE ResumeOverflows(c, i)
  <2>1. x.top \in Unseeded..MaxSeq /\ x.since \in 0..MaxSeq BY <1>0 DEF Job
  <2> DEFINE p == PageEvents(x.since, x.top)
  <2>2. PICK k \in DOMAIN p : /\ down' = [down EXCEPT ![c] = @ \o SubSeq(p, 1, k - 1)]
                              /\ Seeded(c, IF k = Len(p) THEN x.top ELSE Unseeded)
    BY <1>7 DEF ResumeOverflows
  <2>3. cursor' \in [Conns -> Unseeded..MaxSeq]
    <3>1. Unseeded \in Unseeded..MaxSeq BY <1>00 DEF Unseeded
    <3> QED BY <2>1, <2>2, <3>1 DEF Seeded, ServerTypes
  <2>4. down' \in [Conns -> Seq(Messages)]
    <3>1. down[c] \o SubSeq(p, 1, k - 1) \in Seq(Messages) BY <2>1, PageTypes
    <3> HIDE DEF p
    <3> QED BY <2>2, <3>1 DEF ServerTypes
  <2>5. faults' \in 0..MaxFaults BY <1>7, FaultAssumption DEF ResumeOverflows, Fault, ServerTypes
  <2>6. up' \in [Conns -> Seq(Frames)] BY <1>7 DEF ResumeOverflows, Gone, ServerTypes
  <2>7. /\ sock' \in [Conns -> {"new", "open", "closing", "closed"}]
        /\ subscribed' \subseteq Conns /\ viewing' \subseteq Conns
    BY <1>7 DEF ResumeOverflows, Gone, ServerTypes
  <2>8. UNCHANGED <<lastSeq, tick, hist>> /\ Ends(c, i) BY <1>7 DEF ResumeOverflows
  <2> QED BY <2>3, <2>4, <2>5, <2>6, <2>7, <2>8, JobStep DEF ServerTypes
<1>8. CASE SetPresence(c, i)
  <2>1. viewing' \subseteq Conns BY <1>8 DEF SetPresence, ServerTypes
  <2> QED BY <1>8, <2>1, JobStep DEF SetPresence, ServerTypes
<1> QED BY <1>1, <1>2, <1>3, <1>4, <1>5, <1>6, <1>7, <1>8

LEMMA TickTypes ==
  ASSUME ServerTypes, TickWork \/ PumpFails \/ PumpOverflows
  PROVE  ServerTypes'
<1>0. MaxSeq \in Nat /\ lastSeq \in 0..MaxSeq /\ tick \in Ticks /\ GoodTick(tick, lastSeq)
  BY SeqAssumption DEF ServerTypes, GoodTick
<1>1. ASSUME NEW S \in SUBSET Conns PROVE GoodTick([NoTick EXCEPT !.left = S], lastSeq)
  BY <1>0, <1>1 DEF GoodTick, Ticks, NoTick, AtLeast
<1>2. TickMovesOn => GoodTick(tick', lastSeq) BY <1>0, <1>1 DEF TickMovesOn, Ticks
<1>3. CASE TickStarts
  <2>1. GoodTick(tick', lastSeq) BY <1>1, <1>3 DEF TickStarts
  <2> QED BY <1>3, <2>1 DEF TickStarts, ServerTypes
<1>4. ASSUME NEW c \in Conns, TickTakes(c) PROVE ServerTypes'
  <2>1. cursor' \in [Conns -> Unseeded..MaxSeq] /\ cursor[c] \in Unseeded..MaxSeq
    BY <1>0, <1>4 DEF TickTakes, ServerTypes, Unseeded
  <2>2. GoodTick(tick', lastSeq)
    <3> DEFINE t == [tick EXCEPT !.phase = "read", !.left = @ \ {c}, !.conn = c, !.since = cursor[c]]
               u == [tick EXCEPT !.left = @ \ {c}]
    <3>1. GoodTick(u, lastSeq) BY <1>0 DEF GoodTick, Ticks
    <3>2. CASE IsOpen(c) /\ Eligible(c)
      <4>1. cursor[c] \in 0..MaxSeq BY <1>0, <2>1, <3>2 DEF Eligible, Unseeded
      <4>2. tick.phase = "next" BY <1>4 DEF TickTakes
      <4>4. tick.top = 0 BY <1>0, <4>2 DEF GoodTick
      <4>5. tick' = t BY <1>4, <3>2 DEF TickTakes
      <4>7. /\ t \in Ticks /\ t.phase = "read" /\ t.conn = c /\ t.since = cursor[c] /\ t.top = tick.top
        BY <1>0, <4>1 DEF Ticks
      <4>6. GoodTick(t, lastSeq)
        <5> HIDE DEF t
        <5> QED BY <1>0, <4>1, <4>4, <4>7 DEF GoodTick, AtLeast
      <4> QED BY <4>5, <4>6
    <3>3. CASE ~(IsOpen(c) /\ Eligible(c))
      <4>1. tick' = u BY <1>4, <3>3 DEF TickTakes
      <4> QED BY <3>1, <4>1
    <3> QED BY <3>2, <3>3
  <2> QED BY <1>4, <2>1, <2>2 DEF TickTakes, ServerTypes
<1>5. CASE PumpReads
  <2> DEFINE t == PageTop(tick.since, PumpBatch)
  <2>1. t \in 0..MaxSeq /\ t <= AtLeast(tick.since, lastSeq)
    BY <1>0, PageTopIs, BatchAssumption DEF Ticks
  <2> HIDE DEF t
  <2>2. GoodTick([tick EXCEPT !.phase = "send", !.top = t], lastSeq)
    BY <1>0, <1>5, <2>1 DEF GoodTick, Ticks, PumpReads
  <2>3. tick' = [tick EXCEPT !.phase = "send", !.top = t] BY <1>5 DEF PumpReads, t
  <2> QED BY <1>5, <2>2, <2>3 DEF PumpReads, ServerTypes
<1>6. CASE PumpFails
  <2>1. faults' \in 0..MaxFaults BY <1>6, FaultAssumption DEF PumpFails, Fault, ServerTypes
  <2> QED BY <1>2, <1>6, <2>1 DEF PumpFails, ServerTypes
<1>7. CASE PumpSends
  <2> DEFINE c == tick.conn
  <2>1. c \in Conns BY <1>0, <1>7 DEF PumpSends, GoodTick
  <2>2. tick.since \in 0..MaxSeq /\ tick.top \in 0..MaxSeq BY <1>0 DEF Ticks
  <2>3. cursor' \in [Conns -> Unseeded..MaxSeq]
    <3>1. cursor' = cursor \/ cursor' = [cursor EXCEPT ![c] = tick.top]
      BY <1>7 DEF PumpSends, Advances
    <3>2. tick.top \in Unseeded..MaxSeq BY <1>0, <2>2 DEF Unseeded
    <3> QED BY <3>1, <3>2 DEF ServerTypes
  <2>4. down' \in [Conns -> Seq(Messages)]
    <3>1. tick.top \in Unseeded..MaxSeq BY <1>0, <2>2 DEF Unseeded
    <3>2. down[c] \o PageEvents(tick.since, tick.top) \in Seq(Messages) BY <2>1, <2>2, <3>1, PageTypes
    <3> QED BY <1>7, <3>2 DEF PumpSends, ServerTypes
  <2> QED BY <1>2, <1>7, <2>3, <2>4 DEF PumpSends, ServerTypes
<1>8. CASE PumpOverflows
  <2> DEFINE c == tick.conn
             p == PageEvents(tick.since, tick.top)
  <2>1. c \in Conns BY <1>0, <1>8 DEF PumpOverflows, GoodTick
  <2>2. tick.since \in 0..MaxSeq /\ tick.top \in 0..MaxSeq BY <1>0 DEF Ticks
  <2>3. cursor' \in [Conns -> Unseeded..MaxSeq]
    <3>1. Unseeded \in Unseeded..MaxSeq BY <1>0 DEF Unseeded
    <3> QED BY <1>8, <3>1 DEF PumpOverflows, ServerTypes
  <2>4. down' \in [Conns -> Seq(Messages)]
    <3>0. PICK k \in DOMAIN p : down' = [down EXCEPT ![c] = @ \o SubSeq(p, 1, k - 1)]
      BY <1>8 DEF PumpOverflows
    <3>1. tick.top \in Unseeded..MaxSeq BY <1>0, <2>2 DEF Unseeded
    <3>2. down[c] \o SubSeq(p, 1, k - 1) \in Seq(Messages) BY <2>1, <2>2, <3>1, PageTypes
    <3> HIDE DEF p, c
    <3> QED BY <3>0, <3>2 DEF ServerTypes
  <2>5. faults' \in 0..MaxFaults BY <1>8, FaultAssumption DEF PumpOverflows, Fault, ServerTypes
  <2>6. /\ up' \in [Conns -> Seq(Frames)]
        /\ sock' \in [Conns -> {"new", "open", "closing", "closed"}]
        /\ subscribed' \subseteq Conns /\ viewing' \subseteq Conns
    <3>1. Gone(c) BY <1>8 DEF PumpOverflows
    <3> HIDE DEF c
    <3> QED BY <2>1, <3>1 DEF Gone, ServerTypes
  <2> QED BY <1>2, <1>8, <2>3, <2>4, <2>5, <2>6 DEF PumpOverflows, ServerTypes
<1> QED BY <1>3, <1>4, <1>5, <1>6, <1>7, <1>8 DEF TickWork

\* A longer log.
LEMMA CommitTypes ==
  ASSUME ServerTypes, Commit
  PROVE  ServerTypes'
<1>1. lastSeq \in 0..MaxSeq /\ MaxSeq \in Nat /\ lastSeq' = lastSeq + 1 /\ lastSeq' \in 0..MaxSeq
  BY SeqAssumption DEF Commit, ServerTypes
<1>2. \A a, b \in Int : a <= AtLeast(b, lastSeq) => a <= AtLeast(b, lastSeq')
  BY <1>1 DEF AtLeast
<1>3. GoodTick(tick, lastSeq') BY <1>1, <1>2 DEF ServerTypes, GoodTick, Ticks
<1>4. GoodJobs(lastSeq) \subseteq GoodJobs(lastSeq')
  BY <1>1, <1>2 DEF GoodJobs, Job, Unseeded
<1>5. jobs' \in [Conns -> Seq(GoodJobs(lastSeq'))]
  <2>1. \A c \in Conns : jobs[c] \in Seq(GoodJobs(lastSeq)) BY DEF ServerTypes
  <2>2. \A c \in Conns : jobs[c] \in Seq(GoodJobs(lastSeq')) BY <1>4, <2>1, SeqMonotonic
  <2>3. jobs' = jobs /\ jobs = [c \in Conns |-> jobs[c]] BY DEF Commit, ServerTypes
  <2> QED BY <2>2, <2>3
<1> QED BY <1>1, <1>3, <1>5 DEF Commit, ServerTypes

\* A frame that is taken off the socket.
LEMMA ReceiveTypes ==
  ASSUME ServerTypes, NEW c \in Conns, Receive(c)
  PROVE  ServerTypes'
<1> DEFINE f == Head(up[c])
           j == [type |-> f.type, since |-> f.since, at |-> "authorize", top |-> Unseeded]
<1>0. MaxSeq \in Nat /\ lastSeq \in 0..MaxSeq /\ hist[c] \in History BY SeqAssumption DEF ServerTypes
<1>1. up[c] \in Seq(Frames) /\ up[c] # <<>> BY DEF Receive, ServerTypes
<1>2. f \in Frames /\ Tail(up[c]) \in Seq(Frames) BY <1>1
<1>3. up' \in [Conns -> Seq(Frames)] BY <1>2 DEF Receive, ServerTypes
<1>4. subscribed' \subseteq Conns BY DEF Receive, ServerTypes
<1>5. f.type # "unsubscribe" => j \in GoodJobs(lastSeq)
  BY <1>0, <1>2 DEF Frames, Job, GoodJobs, AtLeast, Unseeded
<1>6. jobs' \in [Conns -> Seq(GoodJobs(lastSeq))]
  <2>1. jobs[c] \in Seq(GoodJobs(lastSeq)) BY DEF ServerTypes
  <2>2. CASE f.type = "unsubscribe" BY <2>2 DEF Receive, ServerTypes
  <2>3. CASE f.type # "unsubscribe"
    <3>1. jobs' = [jobs EXCEPT ![c] = Append(jobs[c], j)] BY <2>3 DEF Receive
    <3> HIDE DEF j
    <3>2. Append(jobs[c], j) \in Seq(GoodJobs(lastSeq)) BY <1>5, <2>1, <2>3, AppendProperties
    <3> QED BY <3>1, <3>2 DEF ServerTypes
  <2> QED BY <2>2, <2>3
<1>7. hist' \in [Conns -> History]
  <2> DEFINE h == hist[c]
             k == [h EXCEPT !.wants = FALSE]
             l == [h EXCEPT !.wants = TRUE, !.subs = @ + 1]
             m == [h EXCEPT !.asked = TRUE]
  <2>1. hist \in [Conns -> History] BY DEF ServerTypes
  <2>2. \E g \in {h, k, l, m} : hist' = [hist EXCEPT ![c] = g]
    <3>1. hist' = [hist EXCEPT ![c] = h] \/ hist' = [hist EXCEPT ![c] = k]
          \/ hist' = [hist EXCEPT ![c] = l] \/ hist' = [hist EXCEPT ![c] = m]
      BY <2>1 DEF Receive
    <3> HIDE DEF h, k, l, m
    <3> QED BY <3>1
  <2>3. h \in History /\ k \in History /\ l \in History /\ m \in History
    <3>1. h \in History /\ h.subs \in Nat /\ h.subs + 1 \in Nat BY <1>0 DEF History
    <3> HIDE DEF h
    <3>2. k \in History BY <3>1 DEF History
    <3>3. l \in History BY <3>1 DEF History
    <3>4. m \in History BY <3>1 DEF History
    <3> QED BY <3>1, <3>2, <3>3, <3>4
  <2> HIDE DEF h, k, l, m
  <2> QED BY <2>1, <2>2, <2>3
<1> QED BY <1>3, <1>4, <1>6, <1>7 DEF Receive, ServerTypes

LEMMA ServerTypesStep ==
  ASSUME ServerTypes, ServerNext \/ (\E c \in Conns : Accept(c) \/ CloseBegin(c)) \/ UNCHANGED serverVars
  PROVE  ServerTypes'
<1>1. ASSUME NEW c \in Conns, Finish(c) PROVE ServerTypes'
  <2>1. Unseeded \in Unseeded..MaxSeq BY SeqAssumption DEF Unseeded
  <2> QED BY <1>1, <2>1 DEF Finish, Gone, ServerTypes
<1>2. ASSUME NEW c \in Conns, PresenceExpires(c) \/ Accept(c) \/ CloseBegin(c) PROVE ServerTypes'
  BY <1>2 DEF PresenceExpires, Accept, CloseBegin, ServerTypes
<1>3. ASSUME NEW c \in Conns, JobWork(c) \/ JobFault(c) PROVE ServerTypes'
  BY <1>3, JobTypes DEF JobWork, JobFault
<1>4. CASE UNCHANGED serverVars BY <1>4 DEF serverVars, ServerTypes
<1> QED BY <1>1, <1>2, <1>3, <1>4, TickTypes, CommitTypes, ReceiveTypes DEF ServerNext

LEMMA ServerStarts ==
  ASSUME ServerInit, up \in [Conns -> Seq(Frames)]
  PROVE  ServerTypes
<1>1. MaxSeq \in Nat /\ MaxFaults \in Nat /\ Unseeded \in Unseeded..MaxSeq
  BY SeqAssumption, FaultAssumption DEF Unseeded
<1>2. GoodTick(NoTick, 0) BY <1>1 DEF GoodTick, Ticks, NoTick, AtLeast
<1>3. NoHistory \in History BY <1>1 DEF NoHistory, History
<1>4. <<>> \in Seq(GoodJobs(0)) /\ <<>> \in Seq(Messages) OBVIOUS
<1> QED BY <1>1, <1>2, <1>3, <1>4 DEF ServerInit, ServerTypes

\* Every variable of the server has its type, whatever frames its connections send.
THEOREM ServerTypeCorrect == Spec => []ServerTypeOK
<1>1. Init => ServerTypes
  <2> SUFFICES ASSUME Init PROVE ServerTypes OBVIOUS
  <2>1. up \in [Conns -> Seq(Frames)] BY ScriptAssumption DEF Init
  <2> QED BY <2>1, ServerStarts DEF Init
<1>2. ServerTypes /\ [Next]_serverVars => ServerTypes'
  <2> SUFFICES ASSUME ServerTypes, [Next]_serverVars PROVE ServerTypes' OBVIOUS
  <2> QED BY ServerTypesStep DEF Next
<1> QED BY <1>1, <1>2, TypesAreServerTypes, PTL DEF Spec

-----------------------------------------------------------------------------
(***************************************************************************)
(* What a subscriber has been sent.                                        *)
(***************************************************************************)
Subscribes(c) == {i \in DOMAIN jobs[c] : jobs[c][i].type = "subscribe"}
InTick(c) == tick.phase # "next" /\ tick.conn = c

\* Before the mark is seeded nothing is sent, and no tick has taken the connection.
Quiet(c) ==
  /\ hist[c].start = Unseeded /\ cursor[c] = Unseeded /\ Exactly(down[c], {})
  /\ ~InTick(c)

\* After it the rows up to n have been sent; while the connection is open its cursor is
\* n, and so is the start of the page that a tick reads for it.
SentUpTo(c, n) ==
  /\ hist[c].start \in 0..n /\ Exactly(down[c], PageItems(hist[c].start, n))
  /\ IsOpen(c) => cursor[c] = n /\ (InTick(c) => tick.since = n)
Live(c) == hist[c].subs = 1 /\ Subscribes(c) = {} /\ \E n \in 0..lastSeq : SentUpTo(c, n)

OneSubscribe(c) ==
  /\ \A i \in DOMAIN jobs[c] : jobs[c][i].type # "resume"
  /\ \A i, j \in Subscribes(c) : i = j
  /\ hist[c].subs = 0 => Subscribes(c) = {}

Watched(c) == ~hist[c].asked /\ hist[c].subs <= 1
LiveInv == \A c \in Conns :
  /\ sock[c] = "new" => hist[c].subs = 0
  /\ Watched(c) => OneSubscribe(c) /\ (Quiet(c) \/ Live(c))

LEMMA LiveSuffices == ServerTypes /\ LiveInv => LiveIsExact
<1> SUFFICES ASSUME ServerTypes, LiveInv, NEW c \in Conns, ~hist[c].asked, hist[c].subs <= 1
             PROVE  /\ \A i, j \in SentEvents(c) : i < j => down[c][i].seq < down[c][j].seq
                    /\ \E n \in 0..lastSeq : {down[c][i].seq : i \in SentEvents(c)} =
                         IF hist[c].start = Unseeded THEN {} ELSE PageItems(hist[c].start, n)
  BY DEF LiveIsExact
<1>1. lastSeq \in Nat /\ 0 \in 0..lastSeq BY SeqAssumption DEF ServerTypes
<1>2. SentEvents(c) = EventsOf(down[c]) BY DEF SentEvents, EventsOf
<1>3. CASE Quiet(c) BY <1>1, <1>2, <1>3 DEF Quiet, Exactly, Seqs
<1>4. CASE Live(c)
  <2>1. PICK n \in 0..lastSeq : SentUpTo(c, n) BY <1>4 DEF Live
  <2>2. hist[c].start # Unseeded BY <2>1 DEF SentUpTo, Unseeded
  <2> QED BY <1>2, <2>1, <2>2 DEF SentUpTo, Exactly, Seqs
<1> QED BY <1>3, <1>4 DEF LiveInv, Watched

\* A step that leaves what was asked of the server and sent by it alone.
LEMMA LiveStays ==
  ASSUME ServerTypes, LiveInv, NEW c \in Conns,
         hist'[c] = hist[c], jobs'[c] = jobs[c], down'[c] = down[c],
         lastSeq' \in Nat, lastSeq' >= lastSeq,
         sock'[c] = "new" => sock[c] = "new",
         IsOpen(c)' => IsOpen(c) \/ sock[c] = "new",
         cursor'[c] = cursor[c] \/ (cursor'[c] = Unseeded /\ ~IsOpen(c)'),
         InTick(c)' => \/ InTick(c) /\ tick'.since = tick.since
                       \/ tick'.since = cursor[c] /\ cursor[c] # Unseeded
  PROVE  /\ sock'[c] = "new" => hist'[c].subs = 0
         /\ Watched(c)' => OneSubscribe(c)' /\ (Quiet(c)' \/ Live(c)')
<1>1. sock'[c] = "new" => hist'[c].subs = 0 BY DEF LiveInv
<1> SUFFICES ASSUME Watched(c)' PROVE OneSubscribe(c)' /\ (Quiet(c)' \/ Live(c)') BY <1>1
<1>2. OneSubscribe(c) /\ (Quiet(c) \/ Live(c)) BY DEF LiveInv, Watched
<1>3. OneSubscribe(c)' /\ Subscribes(c)' = Subscribes(c) BY <1>2 DEF OneSubscribe, Subscribes
<1>4. CASE Quiet(c)
  <2>1. Quiet(c)' BY <1>4 DEF Quiet
  <2> QED BY <1>3, <2>1
<1>5. CASE Live(c)
  <2>1. PICK n \in 0..lastSeq : SentUpTo(c, n) BY <1>5 DEF Live
  <2>2. n \in 0..lastSeq' BY <2>1 DEF ServerTypes
  <2>3. sock[c] # "new" BY <1>5 DEF Live, LiveInv
  <2>4. IsOpen(c)' => IsOpen(c) /\ cursor'[c] = cursor[c] /\ (InTick(c)' => tick'.since = n)
    BY <2>1, <2>3 DEF SentUpTo
  <2>5. SentUpTo(c, n)' BY <2>1, <2>4 DEF SentUpTo
  <2> QED BY <1>3, <1>5, <2>2, <2>5 DEF Live
<1> QED BY <1>2, <1>4, <1>5

\* A handler of the connection that is over.
LEMMA OneLess ==
  ASSUME ServerTypes, NEW c \in Conns, NEW i \in DOMAIN jobs[c], OneSubscribe(c), Ends(c, i),
         hist'[c].subs = hist[c].subs
  PROVE  /\ OneSubscribe(c)' /\ (Subscribes(c) = {} => Subscribes(c)' = {})
         /\ jobs[c][i].type = "subscribe" => Subscribes(c)' = {}
<1> DEFINE s == jobs[c]
           r == RemoveAt(s, i)
           f(k) == IF k < i THEN k ELSE k + 1
<1>1. s \in Seq(GoodJobs(lastSeq)) BY DEF ServerTypes
<1>2. r \in Seq(GoodJobs(lastSeq)) /\ \A k \in DOMAIN r : r[k] = s[f(k)] /\ f(k) \in DOMAIN s
  BY <1>1, RemovedFrom
<1>3. jobs'[c] = r BY DEF Ends, ServerTypes
<1>4. \A k \in DOMAIN r : k \in Int
  <2>1. DOMAIN r = 1..Len(r) BY <1>2
  <2> QED BY <2>1
<1>5. i \in Int
  <2>1. DOMAIN s = 1..Len(s) BY <1>1
  <2> QED BY <2>1
<1>6. \A k, l \in DOMAIN r : f(k) # i /\ (f(k) = f(l) => k = l) BY <1>4, <1>5
<1> HIDE DEF r, f, s
<1>7. \A k \in Subscribes(c)' : k \in DOMAIN r /\ f(k) \in Subscribes(c)
  BY <1>2, <1>3 DEF Subscribes, s
<1>8. OneSubscribe(c)'
  <2>1. \A k \in DOMAIN jobs'[c] : jobs'[c][k].type # "resume" BY <1>2, <1>3 DEF OneSubscribe, s
  <2>2. \A k, l \in Subscribes(c)' : k = l BY <1>6, <1>7 DEF OneSubscribe
  <2>3. hist'[c].subs = 0 => Subscribes(c)' = {} BY <1>7 DEF OneSubscribe
  <2> QED BY <2>1, <2>2, <2>3 DEF OneSubscribe
<1>9. ASSUME s[i].type = "subscribe" PROVE Subscribes(c)' = {}
  <2>1. i \in Subscribes(c) BY <1>9 DEF Subscribes, s
  <2> QED BY <1>6, <1>7, <2>1 DEF OneSubscribe
<1> QED BY <1>7, <1>8, <1>9 DEF s

LEMMA LiveReceive ==
  ASSUME ServerTypes, LiveInv, NEW c \in Conns, Receive(c)
  PROVE  /\ sock'[c] = "new" => hist'[c].subs = 0
         /\ Watched(c)' => OneSubscribe(c)' /\ (Quiet(c)' \/ Live(c)')
<1> DEFINE f == Head(up[c])
           j == [type |-> f.type, since |-> f.since, at |-> "authorize", top |-> Unseeded]
<1>0. hist \in [Conns -> History] /\ jobs[c] \in Seq(GoodJobs(lastSeq)) BY DEF ServerTypes
<1>1. sock' = sock /\ sock[c] # "new" BY DEF Receive, Registered
<1>2. UNCHANGED <<lastSeq, sock, cursor, tick, down>> BY DEF Receive
<1> SUFFICES ASSUME Watched(c)' PROVE OneSubscribe(c)' /\ (Quiet(c)' \/ Live(c)') BY <1>1
<1>3. hist'[c].start = hist[c].start /\ hist[c].subs \in Nat
  BY <1>0 DEF Receive, History
<1>4. CASE f.type = "unsubscribe"
  <2>1. jobs' = jobs /\ hist' = [hist EXCEPT ![c].wants = FALSE] BY <1>4 DEF Receive
  <2>2. hist'[c].subs = hist[c].subs /\ hist'[c].asked = hist[c].asked BY <1>0, <2>1 DEF History
  <2>3. OneSubscribe(c) /\ (Quiet(c) \/ Live(c)) BY <2>2 DEF LiveInv, Watched
  <2> QED BY <1>2, <1>3, <2>1, <2>2, <2>3
          DEF OneSubscribe, Subscribes, Quiet, Live, SentUpTo, InTick, IsOpen
<1>5. CASE f.type # "unsubscribe"
  <2>1. jobs' = [jobs EXCEPT ![c] = Append(jobs[c], j)] BY <1>5 DEF Receive
  <2>2. f.type # "resume"
    <3>1. SUFFICES ASSUME f.type = "resume" PROVE FALSE OBVIOUS
    <3>2. hist' = [hist EXCEPT ![c].asked = TRUE] BY <3>1 DEF Receive
    <3>3. hist'[c].asked BY <1>0, <3>2 DEF History
    <3> QED BY <3>3 DEF Watched
  <2>3. /\ hist'[c].asked = hist[c].asked
        /\ hist'[c].subs = IF f.type = "subscribe" THEN hist[c].subs + 1 ELSE hist[c].subs
    BY <1>0, <1>5, <2>2 DEF Receive, History
  <2>4. OneSubscribe(c) /\ (Quiet(c) \/ Live(c)) BY <1>3, <2>3 DEF LiveInv, Watched
  <2> DEFINE n == Len(jobs[c])
             s == jobs[c]
             r == Append(jobs[c], j)
  <2>5. /\ n \in Nat /\ DOMAIN s = 1..n /\ DOMAIN r = 1..(n + 1)
        /\ \A i \in 1..n : r[i] = s[i]
        /\ r[n + 1] = j
    BY <1>0
  <2>6. j.type = f.type OBVIOUS
  <2>7. jobs'[c] = r BY <2>1 DEF ServerTypes
  <2> HIDE DEF r, n, j, f, s
  <2>8. \A i \in Subscribes(c)' : (i \in Subscribes(c) /\ i \in 1..n) \/ (i = n + 1 /\ f.type = "subscribe")
    BY <2>5, <2>6, <2>7 DEF Subscribes, s
  <2>9. \A i \in DOMAIN jobs'[c] : jobs'[c][i].type # "resume"
    BY <2>2, <2>4, <2>5, <2>6, <2>7 DEF OneSubscribe, s
  <2>10. CASE f.type = "subscribe"
    <3>1. hist[c].subs = 0 /\ hist'[c].subs = 1 BY <1>3, <2>3, <2>10 DEF Watched
    <3>2. Quiet(c) /\ Subscribes(c) = {} BY <2>4, <3>1 DEF Live, OneSubscribe
    <3>3. OneSubscribe(c)' BY <2>8, <2>9, <3>1, <3>2 DEF OneSubscribe
    <3>4. Quiet(c)' BY <1>2, <1>3, <3>2 DEF Quiet, InTick
    <3> QED BY <3>3, <3>4
  <2>11. CASE f.type # "subscribe"
    <3>1. Subscribes(c)' \subseteq Subscribes(c) BY <2>8, <2>11
    <3>2. OneSubscribe(c)' BY <2>3, <2>4, <2>9, <2>11, <3>1 DEF OneSubscribe
    <3>3. Subscribes(c) = {} => Subscribes(c)' = {} BY <3>1
    <3>4. Quiet(c)' \/ Live(c)'
      BY <1>2, <1>3, <2>3, <2>4, <2>11, <3>3 DEF Quiet, Live, SentUpTo, InTick, IsOpen
    <3> QED BY <3>2, <3>4
  <2> QED BY <2>10, <2>11
<1> QED BY <1>4, <1>5

LEMMA LiveJob ==
  ASSUME ServerTypes, LiveInv, NEW c \in Conns, NEW i \in DOMAIN jobs[c],
         Authorized(c, i) \/ Reads(c, i) \/ SeedMark(c, i) \/ SendPage(c, i) \/ SetPresence(c, i)
           \/ Refused(c, i) \/ ReadFails(c, i) \/ ResumeOverflows(c, i)
  PROVE  /\ sock'[c] = "new" => hist'[c].subs = 0
         /\ Watched(c)' => OneSubscribe(c)' /\ (Quiet(c)' \/ Live(c)')
<1> DEFINE x == jobs[c][i]
<1>0. /\ hist \in [Conns -> History] /\ jobs[c] \in Seq(GoodJobs(lastSeq)) /\ x \in GoodJobs(lastSeq)
      /\ down[c] \in Seq(Messages) /\ lastSeq \in Nat /\ down \in [Conns -> Seq(Messages)]
      /\ cursor \in [Conns -> Unseeded..MaxSeq]
  BY JobStep, SeqAssumption DEF ServerTypes
<1>1. hist'[c].subs = hist[c].subs /\ hist'[c].asked = hist[c].asked
  <2>1. CASE Authorized(c, i) \/ SeedMark(c, i) BY <1>0, <2>1 DEF Authorized, SeedMark, History
  <2>2. CASE ~(Authorized(c, i) \/ SeedMark(c, i))
    BY <2>2 DEF Reads, SendPage, SetPresence, Refused, ReadFails, ResumeOverflows
  <2> QED BY <2>1, <2>2
<1>2. sock'[c] = "new" => sock[c] = "new"
  BY DEF Authorized, Reads, SeedMark, SendPage, SetPresence, Refused, ReadFails, ResumeOverflows, Gone,
     ServerTypes
<1> SUFFICES ASSUME Watched(c)' PROVE OneSubscribe(c)' /\ (Quiet(c)' \/ Live(c)')
  BY <1>1, <1>2 DEF LiveInv
<1>3. OneSubscribe(c) /\ (Quiet(c) \/ Live(c)) BY <1>1 DEF LiveInv, Watched
<1>4. x.type # "resume" /\ x \in Job BY <1>0, <1>3 DEF OneSubscribe, GoodJobs
<1>5. ASSUME NEW j, j.type = x.type, jobs' = [jobs EXCEPT ![c] = [jobs[c] EXCEPT ![i] = j]]
      PROVE  OneSubscribe(c)' /\ Subscribes(c)' = Subscribes(c)
  <2>1. /\ DOMAIN jobs'[c] = DOMAIN jobs[c]
        /\ \A k \in DOMAIN jobs[c] : jobs'[c][k].type = jobs[c][k].type
    BY <1>0, <1>5 DEF ServerTypes
  <2>2. Subscribes(c)' = Subscribes(c) BY <2>1 DEF Subscribes
  <2> QED BY <1>1, <1>3, <2>1, <2>2 DEF OneSubscribe
<1>6. CASE Authorized(c, i)
  <2> DEFINE j == [x EXCEPT !.at = IF x.type \in {"subscribe", "resume"} THEN "read" ELSE "apply"]
  <2>1. jobs' = [jobs EXCEPT ![c] = [jobs[c] EXCEPT ![i] = j]] BY <1>6 DEF Authorized
  <2>2. j.type = x.type BY <1>4 DEF Job
  <2> HIDE DEF j
  <2>3. OneSubscribe(c)' /\ Subscribes(c)' = Subscribes(c) BY <1>5, <2>1, <2>2
  <2>4. UNCHANGED <<lastSeq, sock, cursor, tick, down>> BY <1>6 DEF Authorized
  <2>5. CASE x.type = "subscribe"
    <3>1. Quiet(c)
      <4>1. i \in Subscribes(c) BY <2>5 DEF Subscribes
      <4> QED BY <1>3, <4>1 DEF Live
    <3>2. hist'[c].start = AtLeast(hist[c].start, cursor[c])
      BY <1>0, <1>6, <2>5 DEF Authorized, History
    <3>3. hist'[c].start = Unseeded BY <3>1, <3>2 DEF Quiet, AtLeast
    <3>4. Quiet(c)' BY <2>4, <3>1, <3>3 DEF Quiet, InTick
    <3> QED BY <2>3, <3>4
  <2>6. CASE x.type # "subscribe"
    <3>1. hist' = hist BY <1>6, <2>6 DEF Authorized
    <3> QED BY <1>3, <2>3, <2>4, <3>1 DEF Quiet, Live, SentUpTo, InTick, IsOpen
  <2> QED BY <2>5, <2>6
<1>7. CASE Reads(c, i)
  <2>1. PICK t : jobs' = [jobs EXCEPT ![c] = [jobs[c] EXCEPT ![i] = [x EXCEPT !.at = "apply", !.top = t]]]
    BY <1>7 DEF Reads
  <2>2. [x EXCEPT !.at = "apply", !.top = t].type = x.type BY <1>4 DEF Job
  <2>3. OneSubscribe(c)' /\ Subscribes(c)' = Subscribes(c) BY <1>5, <2>1, <2>2
  <2>4. UNCHANGED <<lastSeq, sock, cursor, tick, down, hist>> BY <1>7 DEF Reads
  <2> QED BY <1>3, <2>3, <2>4 DEF Quiet, Live, SentUpTo, InTick, IsOpen
<1>8. CASE Refused(c, i)
  <2>1. Refusal(x.type) \in Messages /\ Refusal(x.type).type = "refused"
    BY <1>4 DEF Job, Messages, Refusal
  <2>2. OneSubscribe(c)' /\ (Subscribes(c) = {} => Subscribes(c)' = {})
    BY <1>1, <1>3, <1>8, OneLess DEF Refused
  <2>3. UNCHANGED <<lastSeq, sock, cursor, tick, hist>> BY <1>8 DEF Refused
  <2>4. \A S : Exactly(down[c], S) => Exactly(down'[c], S)
    <3>1. down'[c] = down[c] \/ down'[c] = Append(down[c], Refusal(x.type))
      BY <1>0, <1>8 DEF Refused
    <3> QED BY <1>0, <2>1, <3>1, RefusalOnTop
  <2>5. \A n \in 0..lastSeq : SentUpTo(c, n) => SentUpTo(c, n)'
    BY <2>3, <2>4 DEF SentUpTo, InTick, IsOpen
  <2>6. Quiet(c) => Quiet(c)' BY <2>3, <2>4 DEF Quiet, InTick
  <2>7. Live(c) => Live(c)' BY <2>2, <2>3, <2>5 DEF Live
  <2> QED BY <1>3, <2>2, <2>6, <2>7
<1>9. CASE ReadFails(c, i) \/ SetPresence(c, i)
  <2>1. OneSubscribe(c)' /\ (Subscribes(c) = {} => Subscribes(c)' = {})
    BY <1>1, <1>3, <1>9, OneLess DEF ReadFails, SetPresence
  <2>2. UNCHANGED <<lastSeq, sock, cursor, tick, hist, down>> BY <1>9 DEF ReadFails, SetPresence
  <2> QED BY <1>3, <2>1, <2>2 DEF Quiet, Live, SentUpTo, InTick, IsOpen
<1>10. CASE SeedMark(c, i)
  <2>1. x.type = "subscribe" /\ x.at = "apply" BY <1>10 DEF SeedMark
  <2>2. x.top \in 0..lastSeq BY <1>0, <1>4, <2>1 DEF GoodJobs, Job, Unseeded
  <2>3. i \in Subscribes(c) BY <2>1 DEF Subscribes
  <2>4. Quiet(c) /\ hist[c].subs # 0 BY <1>3, <2>3 DEF Live, OneSubscribe
  <2>5. OneSubscribe(c)' /\ Subscribes(c)' = {} BY <1>1, <1>3, <1>10, <2>1, OneLess DEF SeedMark
  <2>6. hist'[c].start = AtLeast(hist[c].start, x.top) BY <1>0, <1>10 DEF SeedMark, History
  <2>7. hist'[c].start = x.top BY <1>0, <2>2, <2>4, <2>6 DEF Quiet, AtLeast, Unseeded
  <2>8. cursor'[c] = x.top BY <1>0, <1>10 DEF SeedMark, Seeded
  <2>9. UNCHANGED <<lastSeq, tick, down>> BY <1>10 DEF SeedMark
  <2>10. hist'[c].subs = 1
    <3>1. hist[c].subs \in Nat BY <1>0 DEF History
    <3> QED BY <1>1, <2>4, <3>1 DEF Watched
  <2>11. PICK n \in 0..lastSeq : n = x.top BY <2>2
  <2>12. PageItems(n, n) = {} /\ n \in 0..n BY <1>0 DEF PageItems
  <2>13. hist'[c].start = n /\ cursor'[c] = n /\ Exactly(down'[c], {}) /\ ~InTick(c)'
    BY <2>4, <2>7, <2>8, <2>9, <2>11 DEF Quiet, InTick
  <2>14. SentUpTo(c, n)' BY <2>12, <2>13 DEF SentUpTo
  <2> QED BY <2>5, <2>9, <2>10, <2>11, <2>14 DEF Live
<1>11. CASE SendPage(c, i) \/ ResumeOverflows(c, i)
  BY <1>4, <1>11 DEF SendPage, ResumeOverflows
<1> QED BY <1>6, <1>7, <1>8, <1>9, <1>10, <1>11

\* The pump sends a page, or as much of it as the socket takes.
LEMMA LiveSends ==
  ASSUME ServerTypes, LiveInv, PumpSends \/ PumpOverflows, NEW c \in Conns, c = tick.conn
  PROVE  /\ sock'[c] = "new" => hist'[c].subs = 0
         /\ Watched(c)' => OneSubscribe(c)' /\ (Quiet(c)' \/ Live(c)')
<1> DEFINE a == tick.since
           b == tick.top
           p == PageEvents(a, b)
<1>0. /\ hist' = hist /\ jobs' = jobs /\ lastSeq' = lastSeq /\ tick.phase = "send" /\ tick'.phase = "next"
      /\ down[c] \in Seq(Messages) /\ down \in [Conns -> Seq(Messages)] /\ lastSeq \in Nat
      /\ cursor \in [Conns -> Unseeded..MaxSeq] /\ lastSeq <= MaxSeq /\ MaxSeq \in Nat
      /\ sock \in [Conns -> {"new", "open", "closing", "closed"}]
      /\ a \in Nat /\ b \in Int /\ b <= MaxSeq /\ b <= AtLeast(a, lastSeq)
  BY SeqAssumption DEF PumpSends, PumpOverflows, TickMovesOn, NoTick, ServerTypes, GoodTick, Ticks
<1>1. sock'[c] = "new" => sock[c] = "new" BY <1>0 DEF PumpSends, PumpOverflows, Gone
<1> SUFFICES ASSUME Watched(c)' PROVE OneSubscribe(c)' /\ (Quiet(c)' \/ Live(c)')
  BY <1>0, <1>1 DEF LiveInv
<1>2. OneSubscribe(c) /\ (Quiet(c) \/ Live(c)) BY <1>0 DEF LiveInv, Watched
<1>3. Live(c) /\ InTick(c) BY <1>0, <1>2 DEF Quiet, InTick
<1>4. OneSubscribe(c)' /\ Subscribes(c)' = {} /\ hist'[c].subs = 1
  BY <1>0, <1>2, <1>3 DEF OneSubscribe, Subscribes, Live
<1>5. ~InTick(c)' BY <1>0 DEF InTick
<1>6. PICK n \in 0..lastSeq : SentUpTo(c, n) BY <1>3 DEF Live
<1> DEFINE st == hist[c].start
<1>7. st \in 0..n /\ Exactly(down[c], PageItems(st, n)) BY <1>6 DEF SentUpTo
<1> SUFFICES \E m \in 0..lastSeq : SentUpTo(c, m)' BY <1>0, <1>4 DEF Live
\* More rows on top of those already sent.
<1>8. ASSUME NEW q \in Seq([type : {"event"}, seq : 1..MaxSeq]), NEW m \in n..lastSeq,
             Exactly(q, PageItems(n, m))
      PROVE  Exactly(down[c] \o q, PageItems(st, m))
  <2>1. q \in Seq(Messages) BY <1>8, EventIsMessage, SeqMonotonic
  <2>2. PageItems(st, n) \subseteq Int /\ PageItems(n, m) \subseteq Int
    BY <1>0, <1>7 DEF PageItems
  <2>3. \A d \in PageItems(st, n), e \in PageItems(n, m) : d < e
    BY <1>0, <1>7 DEF PageItems
  <2>4. PageItems(st, n) \cup PageItems(n, m) = PageItems(st, m)
    <3>1. st \in Int /\ n \in Int /\ m \in Int /\ st <= n /\ n <= m BY <1>0, <1>7
    <3> HIDE DEF st
    <3> QED BY <3>1, PagesJoin
  <2> DEFINE A == PageItems(st, n)
             B == PageItems(n, m)
  <2>5. Exactly(down[c], A) /\ Exactly(q, B) /\ down[c] \in Seq(Messages) BY <1>0, <1>7, <1>8
  <2> HIDE DEF A, B
  <2>6. Exactly(down[c] \o q, A \cup B)
    <3>1. A \subseteq Int /\ B \subseteq Int /\ \A d \in A, e \in B : d < e BY <2>2, <2>3 DEF A, B
    <3> QED BY <2>1, <2>5, <3>1, SentOnTop
  <2> QED BY <2>4, <2>6 DEF A, B
<1>9. CASE ~IsOpen(c)
  <2>1. down' = down /\ ~IsOpen(c)'
    BY <1>0, <1>9 DEF PumpSends, PumpOverflows, IsOpen
  <2>2. SentUpTo(c, n)' BY <1>0, <1>7, <2>1 DEF SentUpTo
  <2> QED BY <2>2
<1>10. CASE IsOpen(c) /\ PumpSends
  <2>1. a = n /\ cursor[c] = n BY <1>3, <1>6, <1>10 DEF SentUpTo
  <2>2. down'[c] = down[c] \o p BY <1>0, <1>10 DEF PumpSends
  <2>3. b <= lastSeq BY <1>0, <2>1 DEF AtLeast
  <2>4. cursor'[c] = IF b > n THEN b ELSE n
    BY <1>0, <1>10, <2>1 DEF PumpSends, Advances, IsOpen
  <2>5. p \in Seq([type : {"event"}, seq : 1..MaxSeq]) /\ Exactly(p, PageItems(n, b))
    BY <1>0, <2>1, PageIs
  <2>6. PICK m \in n..lastSeq : m = IF b > n THEN b ELSE n BY <1>0, <2>3
  <2>7. PageItems(n, b) = PageItems(n, m) BY <1>0, <2>6 DEF PageItems
  <2> HIDE DEF p
  <2>8. Exactly(down'[c], PageItems(st, m)) BY <1>8, <2>2, <2>5, <2>7
  <2>9. m \in 0..lastSeq /\ st \in 0..m BY <1>0, <1>7
  <2>10. SentUpTo(c, m)' BY <1>0, <1>5, <2>4, <2>6, <2>8, <2>9 DEF SentUpTo
  <2> QED BY <2>9, <2>10
<1>11. CASE IsOpen(c) /\ PumpOverflows
  <2>1. a = n BY <1>3, <1>6, <1>11 DEF SentUpTo
  <2>2. PICK k \in DOMAIN p : down'[c] = down[c] \o SubSeq(p, 1, k - 1)
    BY <1>0, <1>11 DEF PumpOverflows
  <2>3. sock'[c] = "closed" BY <1>0, <1>11 DEF PumpOverflows, Gone
  <2> DEFINE q == SubSeq(p, 1, k - 1)
  <2>4. /\ q \in Seq([type : {"event"}, seq : 1..MaxSeq]) /\ p[k].seq \in (a + 1)..b
        /\ Exactly(q, PageItems(a, p[k].seq - 1))
    BY <1>0, <2>2, PageCut
  <2>5. PICK m \in n..lastSeq : m = p[k].seq - 1 BY <1>0, <2>1, <2>4 DEF AtLeast
  <2> HIDE DEF q, p
  <2>6. Exactly(down[c] \o q, PageItems(st, m))
    <3>1. Exactly(q, PageItems(n, m)) BY <2>1, <2>4, <2>5
    <3> QED BY <1>8, <2>4, <3>1
  <2>7. m \in 0..lastSeq /\ st \in 0..m BY <1>0, <1>7, <2>5
  <2>8. ~IsOpen(c)' BY <2>3 DEF IsOpen
  <2>9. down'[c] = down[c] \o q BY <2>2 DEF q
  <2>10. SentUpTo(c, m)' BY <1>0, <2>6, <2>7, <2>8, <2>9 DEF SentUpTo
  <2> QED BY <2>7, <2>10
<1> QED BY <1>9, <1>10, <1>11

LEMMA LiveStep ==
  ASSUME ServerTypes, LiveInv, [Next]_serverVars
  PROVE  LiveInv'
<1> SUFFICES ASSUME NEW c \in Conns
             PROVE  /\ sock'[c] = "new" => hist'[c].subs = 0
                    /\ Watched(c)' => OneSubscribe(c)' /\ (Quiet(c)' \/ Live(c)')
  BY DEF LiveInv
<1>0. /\ lastSeq \in Nat /\ lastSeq <= lastSeq /\ NoConn \notin Conns
      /\ sock \in [Conns -> {"new", "open", "closing", "closed"}]
      /\ hist \in [Conns -> History] /\ cursor \in [Conns -> Unseeded..MaxSeq]
      /\ down \in [Conns -> Seq(Messages)] /\ jobs \in [Conns -> Seq(GoodJobs(lastSeq))]
      /\ tick \in Ticks
  BY SeqAssumption, NoConnAssumption DEF ServerTypes, GoodTick
<1>1. CASE Commit \/ UNCHANGED serverVars
  <2>1. UNCHANGED <<sock, cursor, tick, jobs, down, hist>> /\ lastSeq' \in {lastSeq, lastSeq + 1}
    BY <1>1 DEF Commit, serverVars
  <2> QED BY <1>0, <2>1, LiveStays DEF InTick, IsOpen
<1>2. CASE TickStarts
  <2>1. tick'.phase = "next" /\ UNCHANGED <<lastSeq, sock, cursor, jobs, down, hist>>
    BY <1>2 DEF TickStarts, NoTick
  <2> QED BY <1>0, <2>1, LiveStays DEF InTick, IsOpen
<1>3. ASSUME NEW d \in Conns, TickTakes(d)
      PROVE  /\ sock'[c] = "new" => hist'[c].subs = 0
             /\ Watched(c)' => OneSubscribe(c)' /\ (Quiet(c)' \/ Live(c)')
  <2>1. UNCHANGED <<lastSeq, sock, jobs, down, hist>> BY <1>3 DEF TickTakes
  <2>2. cursor'[c] = cursor[c] \/ (cursor'[c] = Unseeded /\ ~IsOpen(c)')
    BY <1>0, <1>3, <2>1 DEF TickTakes, IsOpen
  <2>3. InTick(c)' => tick'.since = cursor[c] /\ cursor[c] # Unseeded
    <3>1. CASE IsOpen(d) /\ Eligible(d)
      <4>1. tick'.conn = d /\ tick'.since = cursor[d] BY <1>0, <1>3, <3>1 DEF TickTakes, Ticks
      <4> QED BY <3>1, <4>1 DEF InTick, Eligible
    <3>2. CASE ~(IsOpen(d) /\ Eligible(d))
      <4>1. tick'.phase = "next" BY <1>0, <1>3, <3>2 DEF TickTakes, Ticks
      <4> QED BY <4>1 DEF InTick
    <3> QED BY <3>1, <3>2
  <2> QED BY <1>0, <2>1, <2>2, <2>3, LiveStays DEF IsOpen
<1>4. CASE PumpReads \/ PumpFails
  <2>1. UNCHANGED <<lastSeq, sock, cursor, jobs, down, hist>> BY <1>4 DEF PumpReads, PumpFails
  <2>2. InTick(c)' => InTick(c) /\ tick'.since = tick.since
    BY <1>0, <1>4 DEF PumpReads, PumpFails, TickMovesOn, InTick, Ticks, NoTick
  <2> QED BY <1>0, <2>1, <2>2, LiveStays DEF IsOpen
<1>5. CASE PumpSends \/ PumpOverflows
  <2>1. CASE c = tick.conn BY <1>5, <2>1, LiveSends
  <2>2. CASE c # tick.conn
    <3>1. tick'.phase = "next" BY <1>5 DEF PumpSends, PumpOverflows, TickMovesOn, NoTick
    <3>2. UNCHANGED <<lastSeq, jobs, hist>> BY <1>5 DEF PumpSends, PumpOverflows
    <3>3. down'[c] = down[c] /\ cursor'[c] = cursor[c] /\ sock'[c] = sock[c]
      BY <1>0, <1>5, <2>2 DEF PumpSends, PumpOverflows, Advances, Gone
    <3> QED BY <1>0, <3>1, <3>2, <3>3, LiveStays DEF InTick, IsOpen
  <2> QED BY <2>1, <2>2
<1>6. ASSUME NEW d \in Conns, Finish(d)
      PROVE  /\ sock'[c] = "new" => hist'[c].subs = 0
             /\ Watched(c)' => OneSubscribe(c)' /\ (Quiet(c)' \/ Live(c)')
  <2>1. UNCHANGED <<lastSeq, tick, jobs, down, hist>> BY <1>6 DEF Finish
  <2>2. /\ sock'[c] = IF c = d THEN "closed" ELSE sock[c]
        /\ cursor'[c] = IF c = d THEN Unseeded ELSE cursor[c]
    BY <1>0, <1>6 DEF Finish, Gone
  <2> QED BY <1>0, <2>1, <2>2, LiveStays DEF InTick, IsOpen
<1>7. ASSUME NEW d \in Conns, PresenceExpires(d) \/ Accept(d) \/ CloseBegin(d)
      PROVE  /\ sock'[c] = "new" => hist'[c].subs = 0
             /\ Watched(c)' => OneSubscribe(c)' /\ (Quiet(c)' \/ Live(c)')
  <2>1. UNCHANGED <<lastSeq, tick, jobs, down, hist, cursor>>
    BY <1>7 DEF PresenceExpires, Accept, CloseBegin
  <2>2. \/ sock'[c] = sock[c] \/ (sock[c] = "new" /\ sock'[c] = "open") \/ sock'[c] = "closing"
    BY <1>0, <1>7 DEF PresenceExpires, Accept, CloseBegin, IsOpen
  <2> QED BY <1>0, <2>1, <2>2, LiveStays DEF InTick, IsOpen
<1>8. ASSUME NEW d \in Conns, Receive(d)
      PROVE  /\ sock'[c] = "new" => hist'[c].subs = 0
             /\ Watched(c)' => OneSubscribe(c)' /\ (Quiet(c)' \/ Live(c)')
  <2>1. CASE c = d BY <1>8, <2>1, LiveReceive
  <2>2. CASE c # d
    <3>1. UNCHANGED <<lastSeq, sock, cursor, tick, down>> BY <1>8 DEF Receive
    <3>2. jobs'[c] = jobs[c] /\ hist'[c] = hist[c] BY <1>0, <1>8, <2>2 DEF Receive
    <3> QED BY <1>0, <3>1, <3>2, LiveStays DEF InTick, IsOpen
  <2> QED BY <2>1, <2>2
<1>9. ASSUME NEW d \in Conns, JobWork(d) \/ JobFault(d)
      PROVE  /\ sock'[c] = "new" => hist'[c].subs = 0
             /\ Watched(c)' => OneSubscribe(c)' /\ (Quiet(c)' \/ Live(c)')
  <2>1. PICK i \in DOMAIN jobs[d] :
          Authorized(d, i) \/ Reads(d, i) \/ SeedMark(d, i) \/ SendPage(d, i) \/ SetPresence(d, i)
            \/ Refused(d, i) \/ ReadFails(d, i) \/ ResumeOverflows(d, i)
    BY <1>9 DEF JobWork, JobFault
  <2>2. CASE c = d BY <2>1, <2>2, LiveJob
  <2>3. CASE c # d
    <3>1. UNCHANGED <<lastSeq, tick>>
      BY <2>1 DEF Authorized, Reads, SeedMark, SendPage, SetPresence, Refused, ReadFails, ResumeOverflows
    <3>2. jobs'[c] = jobs[c]
      BY <1>0, <2>1, <2>3 DEF Ends, Authorized, Reads, SeedMark, SendPage, SetPresence, Refused,
         ReadFails, ResumeOverflows
    <3>3. hist'[c] = hist[c]
      BY <1>0, <2>1, <2>3 DEF Authorized, Reads, SeedMark, SendPage, SetPresence, Refused,
         ReadFails, ResumeOverflows
    <3>4. cursor'[c] = cursor[c] /\ sock'[c] = sock[c]
      BY <1>0, <2>1, <2>3 DEF Seeded, Gone, Authorized, Reads, SeedMark, SendPage, SetPresence, Refused,
         ReadFails, ResumeOverflows
    <3>5. down'[c] = down[c]
      BY <1>0, <2>1, <2>3 DEF Authorized, Reads, SeedMark, SendPage, SetPresence, Refused,
         ReadFails, ResumeOverflows
    <3> QED BY <1>0, <3>1, <3>2, <3>3, <3>4, <3>5, LiveStays DEF InTick, IsOpen
  <2> QED BY <2>2, <2>3
<1> QED BY <1>1, <1>2, <1>3, <1>4, <1>5, <1>6, <1>7, <1>8, <1>9 DEF Next, ServerNext, TickWork

\* A connection that has subscribed once and never asked for a replay has been sent
\* exactly the readable rows from its mark up to some row, in order: no subscribe, tick,
\* refusal, full buffer or close between them repeats a row or leaves one out.
THEOREM LiveFeedIsExact == Spec => []LiveIsExact
<1>1. Init => ServerTypes
  <2> SUFFICES ASSUME Init PROVE ServerTypes OBVIOUS
  <2>1. up \in [Conns -> Seq(Frames)] BY ScriptAssumption DEF Init
  <2> QED BY <2>1, ServerStarts DEF Init
<1>2. Init => LiveInv
  <2>1. Exactly(<<>>, {}) BY DEF Exactly, Seqs, EventsOf
  <2> QED BY <2>1 DEF Init, ServerInit, LiveInv, NoHistory, NoTick, OneSubscribe, Subscribes, Quiet, InTick
<1>3. ServerTypes /\ [Next]_serverVars => ServerTypes'
  <2> SUFFICES ASSUME ServerTypes, [Next]_serverVars PROVE ServerTypes' OBVIOUS
  <2> QED BY ServerTypesStep DEF Next
<1>4. ServerTypes /\ LiveInv /\ [Next]_serverVars => LiveInv' BY LiveStep
<1>5. ServerTypes /\ LiveInv => LiveIsExact BY LiveSuffices
<1> QED BY <1>1, <1>2, <1>3, <1>4, <1>5, PTL DEF Spec

-----------------------------------------------------------------------------
(***************************************************************************)
(* Types of the client, and what it has applied.                           *)
(***************************************************************************)
\* Rows in order, none of them past the cursor.
Filed(rows, n) == rows \in Seq(1..MaxSeq) /\ IsAscending(rows) /\ \A i \in DOMAIN rows : rows[i] <= n
AsksBehind(request, n) == request \in Request /\ request.since <= n

ClientTypes ==
  /\ open \in BOOLEAN /\ opens \in 0..MaxOpens /\ epoch \in 0..MaxOpens
  /\ epoch + (IF open THEN 1 ELSE 0) <= opens
  /\ conn \in Conns \cup {NoConn} /\ ready \in BOOLEAN /\ lost \in BOOLEAN
  /\ ready => conn # NoConn
  /\ conn # NoConn => sock[conn] # "new"
  /\ seen \in 0..MaxSeq /\ base \in 0..MaxSeq /\ Filed(applied, seen)
  /\ accel \in NoTimer..MaxSeq /\ pollTimer \in BOOLEAN
  /\ AsksBehind(poll, seen) /\ AsksBehind(probe, seen)
FeedTypes == ServerTypes /\ ClientTypes

LEMMA RowOf ==
  ASSUME NEW S, NEW rows \in Seq(S)
  PROVE  \A i \in DOMAIN rows : rows[i] \in S
OBVIOUS

LEMMA TypesAreClientTypes == ClientTypes => ClientTypeOK /\ AppliedInOrder
<1> SUFFICES ASSUME ClientTypes PROVE ClientTypeOK /\ AppliedInOrder OBVIOUS
<1>1. \A i \in DOMAIN applied : applied[i] \in 1..MaxSeq
  <2>1. applied \in Seq(1..MaxSeq) BY DEF ClientTypes, Filed
  <2> QED BY <2>1, RowOf
<1> QED BY <1>1 DEF ClientTypes, Filed, AsksBehind, ClientTypeOK, AppliedInOrder, IsAscending

LEMMA Numbers ==
  /\ MaxSeq \in Nat /\ MaxOpens \in Nat /\ NoConn \notin Conns
  /\ \A a, b \in 0..MaxSeq : AtLeast(a, b) \in 0..MaxSeq /\ AtLeast(a, b) >= a /\ AtLeast(a, b) >= b
  /\ 0..MaxSeq \subseteq NoTimer..MaxSeq /\ NoTimer \in NoTimer..MaxSeq
BY SeqAssumption, PollAssumption, NoConnAssumption DEF AtLeast, NoTimer

\* What is applied goes to the end, and is past the cursor.
LEMMA AppliesIs ==
  ASSUME NEW events \in SUBSET (1..MaxSeq), seen \in 0..MaxSeq, Filed(applied, seen),
         Applies(events, seen), NEW n \in 0..MaxSeq, n >= seen, \A e \in events : e <= n
  PROVE  /\ Filed(applied', n)
         /\ {applied'[i] : i \in DOMAIN applied'} =
              {applied[i] : i \in DOMAIN applied} \cup {e \in events : e > seen}
<1> DEFINE S == {e \in events : e > seen}
           s == Ascending(S)
           d == applied
           r == d \o s
           k == Len(d)
<1>1. S \in SUBSET (1..MaxSeq) /\ MaxSeq \in Nat BY SeqAssumption
<1>2. s \in Seq(S) /\ IsAscending(s) /\ {s[i] : i \in DOMAIN s} = S BY <1>1, AscendingIs
<1>3. \A e \in S : e > seen /\ e <= n /\ e \in 1..MaxSeq OBVIOUS
<1>4. applied' = r BY DEF Applies
<1> HIDE DEF S, s
<1>5. s \in Seq(1..MaxSeq) /\ d \in Seq(1..MaxSeq) /\ IsAscending(d) /\ \A i \in DOMAIN d : d[i] <= seen
  BY <1>1, <1>2, SeqMonotonic DEF Filed
<1> HIDE DEF d, r, k
<1>6. /\ r \in Seq(1..MaxSeq) /\ DOMAIN r = 1..(k + Len(s)) /\ k \in Nat /\ Len(s) \in Nat
      /\ DOMAIN d = 1..k /\ DOMAIN s = 1..Len(s)
      /\ \A i \in 1..(k + Len(s)) : r[i] = IF i <= k THEN d[i] ELSE s[i - k]
  BY <1>5, ConcatProperties DEF r, k
<1>7. \A i \in DOMAIN d : r[i] = d[i] /\ i \in DOMAIN r BY <1>6
<1>8. \A i \in DOMAIN s : r[k + i] = s[i] /\ k + i \in DOMAIN r
  <2> SUFFICES ASSUME NEW i \in 1..Len(s) PROVE r[k + i] = s[i] /\ k + i \in 1..(k + Len(s))
    BY <1>6
  <2>1. k + i \in 1..(k + Len(s)) /\ ~(k + i <= k) /\ (k + i) - k = i BY <1>6
  <2> QED BY <1>6, <2>1
<1>9. \A i \in DOMAIN r : \/ i \in DOMAIN d /\ r[i] = d[i]
                          \/ i - k \in DOMAIN s /\ r[i] = s[i - k] /\ ~(i <= k)
  BY <1>6
<1>10. \A i \in DOMAIN d : d[i] <= seen /\ d[i] \in Nat
  <2>1. \A i \in DOMAIN d : d[i] \in 1..MaxSeq BY <1>5, RowOf
  <2> QED BY <1>5, <1>6, <2>1
<1>11. \A i \in DOMAIN s : s[i] > seen /\ s[i] <= n /\ s[i] \in Nat BY <1>2, <1>3
<1>12. IsAscending(r)
  <2> SUFFICES ASSUME NEW i \in DOMAIN r, NEW j \in DOMAIN r, i < j PROVE r[i] < r[j]
    BY DEF IsAscending
  <2>1. CASE j \in DOMAIN d
    <3>1. i \in DOMAIN d BY <1>6, <2>1
    <3> QED BY <1>5, <1>7, <2>1, <3>1 DEF IsAscending
  <2>2. CASE i \in DOMAIN d /\ j \notin DOMAIN d
    <3>1. r[i] = d[i] /\ j - k \in DOMAIN s /\ r[j] = s[j - k] BY <1>7, <1>9, <2>2
    <3> QED BY <1>10, <1>11, <2>2, <3>1
  <2>3. CASE i \notin DOMAIN d /\ j \notin DOMAIN d
    <3>1. i - k \in DOMAIN s /\ r[i] = s[i - k] /\ j - k \in DOMAIN s /\ r[j] = s[j - k]
      BY <1>9, <2>3
    <3>2. i - k < j - k BY <1>6
    <3> QED BY <1>2, <3>1, <3>2 DEF IsAscending
  <2> QED BY <2>1, <2>2, <2>3
<1>13. \A i \in DOMAIN r : r[i] <= n
  <2> SUFFICES ASSUME NEW i \in DOMAIN r PROVE r[i] <= n OBVIOUS
  <2>1. CASE i \in DOMAIN d /\ r[i] = d[i] BY <1>10, <2>1
  <2>2. CASE i - k \in DOMAIN s /\ r[i] = s[i - k] BY <1>11, <2>2
  <2> QED BY <1>9, <2>1, <2>2
<1>14. {r[i] : i \in DOMAIN r} = {d[i] : i \in DOMAIN d} \cup S
  <2>1. \A i \in DOMAIN r : r[i] \in {d[l] : l \in DOMAIN d} \cup S BY <1>2, <1>9
  <2>2. \A i \in DOMAIN d : d[i] \in {r[l] : l \in DOMAIN r} BY <1>7
  <2>3. \A i \in DOMAIN s : s[i] \in {r[l] : l \in DOMAIN r} BY <1>8
  <2> QED BY <1>2, <2>1, <2>2, <2>3
<1> QED BY <1>4, <1>6, <1>12, <1>13, <1>14 DEF Filed, d, S

\* The cursor only moves forward.
LEMMA FiledStays ==
  ASSUME NEW n \in Int, NEW m \in Int, n <= m
  PROVE  /\ \A rows : Filed(rows, n) => Filed(rows, m)
         /\ \A request : AsksBehind(request, n) => AsksBehind(request, m)
<1>1. ASSUME NEW rows, Filed(rows, n) PROVE Filed(rows, m)
  <2>1. \A i \in DOMAIN rows : rows[i] \in Int
    <3>1. rows \in Seq(1..MaxSeq) BY <1>1 DEF Filed
    <3>2. \A i \in DOMAIN rows : rows[i] \in 1..MaxSeq BY <3>1, RowOf
    <3> QED BY <3>2
  <2> QED BY <1>1, <2>1 DEF Filed
<1>2. ASSUME NEW request, AsksBehind(request, n) PROVE AsksBehind(request, m)
  BY <1>2 DEF AsksBehind, Request
<1> QED BY <1>1, <1>2

LEMMA NoRequestIs == \A n \in Nat : AsksBehind(NoRequest, n)
BY Numbers DEF AsksBehind, Request, NoRequest

LEMMA PollIs ==
  ASSUME NEW w, StartsPoll(w), AsksBehind(poll, seen), seen \in 0..MaxSeq, seen' \in 0..MaxSeq,
         seen <= seen', epoch' \in 0..MaxOpens
  PROVE  AsksBehind(poll', seen')
<1>1. AsksBehind(poll, seen') BY FiledStays
<1>2. AsksBehind([at |-> "asked", since |-> seen', epoch |-> epoch', top |-> 0], seen')
  BY Numbers DEF AsksBehind, Request
<1> QED BY <1>1, <1>2 DEF StartsPoll

\* The frames the client sends.
LEMMA FrameIs ==
  \A n \in 0..MaxSeq : /\ <<Frame("subscribe", 0), Frame("resume", n)>> \in Seq(Frames)
                       /\ <<Frame("resume", n)>> \in Seq(Frames)
                       /\ <<Frame("unsubscribe", 0)>> \in Seq(Frames) /\ <<>> \in Seq(Frames)
<1> SUFFICES ASSUME NEW n \in 0..MaxSeq
             PROVE  /\ <<Frame("subscribe", 0), Frame("resume", n)>> \in Seq(Frames)
                    /\ <<Frame("resume", n)>> \in Seq(Frames)
                    /\ <<Frame("unsubscribe", 0)>> \in Seq(Frames) /\ <<>> \in Seq(Frames)
  OBVIOUS
<1>1. Frame("subscribe", 0) \in Frames /\ Frame("resume", n) \in Frames /\ Frame("unsubscribe", 0) \in Frames
  BY Numbers DEF Frame, Frames
<1> HIDE DEF Frames
<1> QED BY <1>1

LEMMA SendsTypes ==
  ASSUME up \in [Conns -> Seq(Frames)], NEW frames \in Seq(Frames), NEW c \in Conns, SendsOn(c, frames)
  PROVE  up' \in [Conns -> Seq(Frames)]
<1>1. up[c] \o frames \in Seq(Frames) BY ConcatProperties
<1> QED BY <1>1 DEF SendsOn

LEMMA LeavesTypes ==
  ASSUME ServerTypes, NEW c, Leaves(c)
  PROVE  /\ sock' \in [Conns -> {"new", "open", "closing", "closed"}]
         /\ subscribed' \subseteq Conns /\ viewing' \subseteq Conns
         /\ cursor' \in [Conns -> Unseeded..MaxSeq] /\ up' \in [Conns -> Seq(Frames)]
         /\ jobs' \in [Conns -> Seq(GoodJobs(lastSeq))] /\ down' \in [Conns -> Seq(Messages)]
         /\ hist' \in [Conns -> History]
<1>1. Unseeded \in Unseeded..MaxSeq /\ NoHistory \in History
  BY Numbers DEF Unseeded, NoHistory, History
<1>2. cursor' \in [Conns -> Unseeded..MaxSeq] BY <1>1 DEF Leaves, ServerTypes
<1>3. hist' \in [Conns -> History] BY <1>1 DEF Leaves, ServerTypes
<1>4. jobs' \in [Conns -> Seq(GoodJobs(lastSeq))] BY DEF Leaves, ServerTypes
<1>5. up' \in [Conns -> Seq(Frames)] /\ down' \in [Conns -> Seq(Messages)] BY DEF Leaves, ServerTypes
<1> QED BY <1>2, <1>3, <1>4, <1>5 DEF Leaves, ServerTypes

LEMMA ConnectsTypes ==
  ASSUME ServerTypes, ClientTypes, Connects
  PROVE  /\ sock' \in [Conns -> {"new", "open", "closing", "closed"}]
         /\ conn' \in Conns \cup {NoConn} /\ (conn' # NoConn => sock'[conn'] # "new")
         /\ conn # NoConn => conn' = conn
         /\ \A c \in Conns : sock'[c] = sock[c] \/ (sock[c] = "new" /\ sock'[c] = "open")
BY DEF Connects, Fresh, ServerTypes, ClientTypes

\* The last of some rows.
LEMMA LastIs ==
  ASSUME NEW events \in SUBSET (1..MaxSeq), NEW from \in 0..MaxSeq
  PROVE  /\ LastOr(events, from) \in 0..MaxSeq /\ from <= LastOr(events, from)
         /\ \A e \in events : e <= LastOr(events, from)
         /\ LastOr(events, from) \in events \cup {from}
<1>1. CASE events = {} BY <1>1 DEF LastOr
<1>2. CASE events # {}
  <2> DEFINE s == Ascending(events)
  <2>1. /\ s \in Seq(events) /\ IsAscending(s) /\ {s[i] : i \in DOMAIN s} = events
        /\ \A e \in events : e \in 1..MaxSeq
    BY SeqAssumption, AscendingIs
  <2> HIDE DEF s
  <2>2. Len(s) \in Nat /\ DOMAIN s = 1..Len(s) BY <2>1, LenProperties
  <2>3. Len(s) \in DOMAIN s /\ s[Len(s)] \in events
    <3>1. PICK i \in DOMAIN s : TRUE BY <1>2, <2>1
    <3> QED BY <2>1, <2>2, <3>1
  <2>4. \A e \in events : s[Len(s)] >= e
    <3> SUFFICES ASSUME NEW i \in DOMAIN s PROVE s[Len(s)] >= s[i] BY <2>1
    <3>0. s[i] \in events BY <2>1, RowOf
    <3>1. s[i] \in Int /\ s[Len(s)] \in Int
      <4>1. s[i] \in 1..MaxSeq /\ s[Len(s)] \in 1..MaxSeq BY <2>1, <2>3, <3>0
      <4> QED BY <4>1
    <3>2. i = Len(s) \/ i < Len(s) BY <2>2
    <3> QED BY <2>1, <2>3, <3>1, <3>2 DEF IsAscending
  <2>5. Max(events) \in events /\ \A e \in events : Max(events) >= e BY <2>3, <2>4 DEF Max
  <2> HIDE DEF Max
  <2>6. Max(events) \in 1..MaxSeq BY <2>1, <2>5
  <2>7. LastOr(events, from) = AtLeast(from, Max(events)) BY <1>2 DEF LastOr
  <2> QED BY <2>1, <2>5, <2>6, <2>7, Numbers DEF AtLeast
<1> QED BY <1>1, <1>2

-----------------------------------------------------------------------------
(* The steps of the client.                                                 *)

LEMMA ServerPart ==
  ASSUME ServerTypes, UNCHANGED <<lastSeq, tick>>, faults' \in 0..MaxFaults,
         sock' \in [Conns -> {"new", "open", "closing", "closed"}],
         subscribed' \subseteq Conns, viewing' \subseteq Conns,
         cursor' \in [Conns -> Unseeded..MaxSeq], up' \in [Conns -> Seq(Frames)],
         jobs' \in [Conns -> Seq(GoodJobs(lastSeq))], down' \in [Conns -> Seq(Messages)],
         hist' \in [Conns -> History]
  PROVE  ServerTypes'
BY DEF ServerTypes

\* A step of the client that leaves the server as it is, apart from its frames, a new
\* socket and a fault.
LEMMA ServerKept ==
  ASSUME ServerTypes, up' \in [Conns -> Seq(Frames)], faults' \in 0..MaxFaults,
         sock' \in [Conns -> {"new", "open", "closing", "closed"}],
         UNCHANGED <<lastSeq, subscribed, cursor, tick, jobs, down, viewing, hist>>
  PROVE  ServerTypes'
BY ServerPart DEF ServerTypes

LEMMA SendTypes ==
  ASSUME FeedTypes, NEW frames \in Seq(Frames), Sends(frames)
  PROVE  up' \in [Conns -> Seq(Frames)]
<1>1. up \in [Conns -> Seq(Frames)] /\ (ready => conn \in Conns) BY DEF FeedTypes, ServerTypes, ClientTypes
<1> QED BY <1>1, SendsTypes DEF Sends

LEMMA FaultTypes == ServerTypes /\ Fault => faults' \in 0..MaxFaults
BY FaultAssumption DEF ServerTypes, Fault

LEMMA OpenSpaceTypes == FeedTypes /\ OpenSpace => FeedTypes'
<1> SUFFICES ASSUME FeedTypes, OpenSpace PROVE FeedTypes' OBVIOUS
<1>1. ServerTypes /\ ClientTypes BY DEF FeedTypes
<1>2. seen' \in 0..MaxSeq /\ seen <= seen' /\ base' \in 0..MaxSeq
  <2>1. PICK mark \in IF opens = 0 THEN 0..lastSeq ELSE {seen} :
          seen' = AtLeast(mark, seen) /\ base' = IF opens = 0 THEN seen' ELSE base
    BY DEF OpenSpace
  <2>2. mark \in 0..MaxSeq
    <3>1. MaxSeq \in Nat /\ lastSeq \in 0..MaxSeq /\ seen \in 0..MaxSeq
      BY <1>1, Numbers DEF ServerTypes, ClientTypes
    <3>2. mark \in 0..lastSeq \/ mark = seen OBVIOUS
    <3> QED BY <3>1, <3>2
  <2> QED BY <1>1, <2>1, <2>2, Numbers DEF ClientTypes
<1>3. up' \in [Conns -> Seq(Frames)] BY <1>2, FrameIs, SendTypes DEF OpenSpace
<1>4. /\ sock' \in [Conns -> {"new", "open", "closing", "closed"}]
      /\ conn' \in Conns \cup {NoConn} /\ (conn' # NoConn => sock'[conn'] # "new")
      /\ (ready => conn' # NoConn)
  BY <1>1, ConnectsTypes DEF OpenSpace, ServerTypes, ClientTypes
<1>5. ServerTypes' BY <1>1, <1>3, <1>4, ServerKept DEF OpenSpace, ServerTypes
<1>6. AsksBehind(poll', seen') /\ AsksBehind(probe', seen') /\ Filed(applied', seen')
  BY <1>1, <1>2, PollIs, FiledStays DEF OpenSpace, ClientTypes
<1>7. accel' \in NoTimer..MaxSeq BY <1>1, <1>2, Numbers DEF OpenSpace, ClientTypes
<1>8. /\ open' \in BOOLEAN /\ opens' \in 0..MaxOpens /\ epoch' \in 0..MaxOpens
      /\ epoch' + (IF open' THEN 1 ELSE 0) <= opens'
  BY <1>1, Numbers DEF OpenSpace, ClientTypes
<1> QED BY <1>1, <1>2, <1>4, <1>5, <1>6, <1>7, <1>8 DEF OpenSpace, ClientTypes, FeedTypes

LEMMA CloseSpaceTypes == FeedTypes /\ CloseSpace => FeedTypes'
<1> SUFFICES ASSUME FeedTypes, CloseSpace PROVE FeedTypes' OBVIOUS
<1>1. ServerTypes /\ ClientTypes BY DEF FeedTypes
<1>2. up' \in [Conns -> Seq(Frames)] BY <1>1, FrameIs, SendTypes, Numbers DEF CloseSpace, ClientTypes
<1>3. ServerTypes' BY <1>1, <1>2, ServerKept DEF CloseSpace, ServerTypes
<1>4. /\ open' \in BOOLEAN /\ epoch' \in 0..MaxOpens /\ epoch' + (IF open' THEN 1 ELSE 0) <= opens
  <2>1. /\ epoch \in 0..MaxOpens /\ opens \in 0..MaxOpens /\ MaxOpens \in Nat
        /\ epoch + (IF open THEN 1 ELSE 0) <= opens /\ open /\ ~open' /\ open' = FALSE /\ epoch' = epoch + 1
    BY <1>1, Numbers DEF CloseSpace, ClientTypes
  <2>2. epoch + 1 <= opens BY <2>1
  <2>3. (IF open' THEN 1 ELSE 0) = 0 BY <2>1
  <2>4. epoch' \in 0..MaxOpens /\ epoch' + 0 <= opens BY <2>1, <2>2
  <2> QED BY <2>1, <2>3, <2>4
<1> QED BY <1>1, <1>3, <1>4, Numbers DEF CloseSpace, ClientTypes, FeedTypes

LEMMA ConnectTypes == FeedTypes /\ (Reconnects \/ Foreground) => FeedTypes'
<1> SUFFICES ASSUME FeedTypes, Reconnects \/ Foreground PROVE FeedTypes' OBVIOUS
<1>1. ServerTypes /\ ClientTypes BY DEF FeedTypes
<1>2. /\ sock' \in [Conns -> {"new", "open", "closing", "closed"}]
      /\ conn' \in Conns \cup {NoConn} /\ (conn' # NoConn => sock'[conn'] # "new")
      /\ (conn # NoConn => conn' = conn)
  BY <1>1, ConnectsTypes DEF Reconnects, Foreground
<1>3. ServerTypes'
  <2>1. UNCHANGED <<lastSeq, subscribed, cursor, tick, up, jobs, down, viewing, faults, hist>>
    BY DEF Reconnects, Foreground
  <2> QED BY <1>1, <1>2, <2>1, ServerKept DEF ServerTypes
<1>4. AsksBehind(poll', seen') /\ pollTimer' \in BOOLEAN
  <2>0. seen \in 0..MaxSeq /\ epoch \in 0..MaxOpens BY <1>1 DEF ClientTypes
  <2>1. seen' = seen /\ epoch' = epoch /\ seen' \in 0..MaxSeq /\ epoch' \in 0..MaxOpens /\ seen <= seen'
    <3>1. seen' = seen /\ epoch' = epoch BY DEF Reconnects, Foreground
    <3> QED BY <2>0, <3>1
  <2>2. AsksBehind(poll, seen) BY <1>1 DEF ClientTypes
  <2>3. CASE Reconnects BY <1>1, <2>1, <2>2, <2>3 DEF Reconnects, ClientTypes
  <2>4. CASE Foreground
    <3>1. StartsPoll(TRUE) /\ pollTimer' \in BOOLEAN BY <2>4 DEF Foreground
    <3> QED BY <2>0, <2>1, <2>2, <3>1, PollIs
  <2> QED BY <2>3, <2>4
<1>5. UNCHANGED <<open, opens, ready, lost, seen, base, applied, accel, probe, epoch>>
  BY DEF Reconnects, Foreground
<1> QED BY <1>1, <1>2, <1>3, <1>4, <1>5 DEF ClientTypes, FeedTypes

LEMMA HandleOpenTypes == FeedTypes /\ HandleOpen => FeedTypes'
<1> SUFFICES ASSUME FeedTypes, HandleOpen PROVE FeedTypes' OBVIOUS
<1>1. ServerTypes /\ ClientTypes BY DEF FeedTypes
<1>2. up' \in [Conns -> Seq(Frames)]
  <2>1. conn \in Conns /\ up \in [Conns -> Seq(Frames)] BY <1>1 DEF HandleOpen, ServerTypes, ClientTypes
  <2>2. (IF open THEN <<Frame("subscribe", 0), Frame("resume", seen)>> ELSE <<>>) \in Seq(Frames)
    BY <1>1, FrameIs DEF ClientTypes
  <2> QED BY <2>1, <2>2, SendsTypes DEF HandleOpen
<1>3. ServerTypes' BY <1>1, <1>2, ServerKept DEF HandleOpen, ServerTypes
<1>4. accel' \in NoTimer..MaxSeq BY <1>1, Numbers DEF HandleOpen, ClientTypes
<1> QED BY <1>1, <1>3, <1>4 DEF HandleOpen, ClientTypes, FeedTypes

LEMMA AccelerateTypes == FeedTypes /\ AcceleratesFires => FeedTypes'
<1> SUFFICES ASSUME FeedTypes, AcceleratesFires PROVE FeedTypes' OBVIOUS
<1>1. ServerTypes /\ ClientTypes BY DEF FeedTypes
<1>2. up' \in [Conns -> Seq(Frames)]
  BY <1>1, FrameIs, SendTypes DEF AcceleratesFires, ClientTypes, ServerTypes
<1>3. ServerTypes' BY <1>1, <1>2, ServerKept DEF AcceleratesFires, ServerTypes
<1>4. accel' \in NoTimer..MaxSeq BY <1>1, Numbers DEF AcceleratesFires, ClientTypes
<1> QED BY <1>1, <1>3, <1>4 DEF AcceleratesFires, ClientTypes, FeedTypes

\* A step that leaves the cursor of the page and what it has applied.
LEMMA ReplaceTypes == FeedTypes /\ ReplaceSocket => FeedTypes'
<1> SUFFICES ASSUME FeedTypes, ReplaceSocket PROVE FeedTypes' OBVIOUS
<1>1. ServerTypes /\ ClientTypes BY DEF FeedTypes
<1>2. ServerTypes' BY <1>1, LeavesTypes, ServerPart DEF ReplaceSocket, ServerTypes
<1>3. conn' \in Conns /\ sock'[conn'] # "new" BY <1>1 DEF ReplaceSocket, Fresh, Leaves
<1> QED BY <1>1, <1>2, <1>3 DEF ReplaceSocket, ClientTypes, FeedTypes

LEMMA ClosesTypes ==
  ASSUME ClientTypes, Closes, seen' \in 0..MaxSeq, seen <= seen', epoch' \in 0..MaxOpens
  PROVE  /\ conn' = NoConn /\ ready' = FALSE /\ lost' = TRUE
         /\ accel' \in NoTimer..MaxSeq /\ AsksBehind(poll', seen')
<1>1. seen \in 0..MaxSeq /\ AsksBehind(poll, seen) BY DEF ClientTypes
<1>2. AsksBehind(poll', seen') BY <1>1, PollIs DEF Closes
<1>3. accel' \in NoTimer..MaxSeq BY Numbers DEF Closes, ClientTypes
<1> QED BY <1>2, <1>3 DEF Closes

LEMMA LosesTypes == FeedTypes /\ LosesSocket => FeedTypes'
<1> SUFFICES ASSUME FeedTypes, LosesSocket PROVE FeedTypes' OBVIOUS
<1>1. ServerTypes /\ ClientTypes BY DEF FeedTypes
<1>2. ServerTypes'
  <2>1. faults' \in 0..MaxFaults BY <1>1, FaultTypes DEF LosesSocket, ServerTypes
  <2> QED BY <1>1, <2>1, LeavesTypes, ServerPart DEF LosesSocket, ServerTypes
<1>3. seen' \in 0..MaxSeq /\ seen <= seen' /\ epoch' \in 0..MaxOpens BY <1>1 DEF LosesSocket, ClientTypes
<1>4. /\ conn' = NoConn /\ ready' = FALSE /\ lost' = TRUE
      /\ accel' \in NoTimer..MaxSeq /\ AsksBehind(poll', seen')
  BY <1>1, <1>3, ClosesTypes DEF LosesSocket
<1> QED BY <1>1, <1>2, <1>4 DEF LosesSocket, ClientTypes, FeedTypes

LEMMA ReceivesTypes == FeedTypes /\ ReceivesMessage => FeedTypes'
<1> SUFFICES ASSUME FeedTypes, ReceivesMessage PROVE FeedTypes' OBVIOUS
<1> DEFINE m == Head(down[conn])
<1>1. ServerTypes /\ ClientTypes BY DEF FeedTypes
<1>2. conn \in Conns /\ down \in [Conns -> Seq(Messages)] /\ down[conn] # <<>>
  BY <1>1 DEF ReceivesMessage, ServerTypes, ClientTypes
<1>3. m \in Messages /\ Tail(down[conn]) \in Seq(Messages) BY <1>2, HeadTailProperties
<1>4. down' \in [Conns -> Seq(Messages)] BY <1>2, <1>3 DEF ReceivesMessage
<1>5. ServerTypes' BY <1>1, <1>4 DEF ReceivesMessage, ServerTypes
<1>6. seen' \in 0..MaxSeq /\ seen <= seen' /\ Filed(applied', seen')
  <2>1. CASE m.type = "event" /\ open
    <3>1. m.seq \in 1..MaxSeq BY <1>3, <2>1 DEF Messages
    <3>2. Applies({m.seq}, seen) /\ seen' = AtLeast(seen, m.seq) BY <2>1 DEF ReceivesMessage
    <3> DEFINE n == m.seq
    <3>3. n \in 0..MaxSeq /\ {n} \in SUBSET (1..MaxSeq) /\ seen \in 0..MaxSeq /\ Filed(applied, seen)
      BY <1>1, <3>1 DEF ClientTypes
    <3>4. seen' \in 0..MaxSeq /\ seen <= seen' /\ n <= seen' BY <3>2, <3>3, Numbers DEF AtLeast
    <3> QED BY <3>2, <3>3, <3>4, AppliesIs
  <2>2. CASE ~(m.type = "event" /\ open)
    BY <1>1, <2>2 DEF ReceivesMessage, ClientTypes
  <2> QED BY <2>1, <2>2
<1>7. AsksBehind(poll', seen') /\ AsksBehind(probe', seen')
  BY <1>1, <1>6, FiledStays DEF ReceivesMessage, ClientTypes
<1> QED BY <1>1, <1>5, <1>6, <1>7 DEF ReceivesMessage, ClientTypes, FeedTypes

LEMMA ServerSame == ServerTypes /\ UNCHANGED serverVars => ServerTypes'
BY DEF serverVars, ServerTypes

LEMMA PollTypes ==
  FeedTypes /\ (PollTimerFires \/ PollReads \/ PollFails \/ ProbeStarts \/ ProbeReads \/ ProbeFails)
    => FeedTypes'
<1> SUFFICES ASSUME FeedTypes,
                    PollTimerFires \/ PollReads \/ PollFails \/ ProbeStarts \/ ProbeReads \/ ProbeFails
             PROVE  FeedTypes'
  OBVIOUS
<1>1. ServerTypes /\ ClientTypes BY DEF FeedTypes
<1>2. ServerTypes'
  <2>1. CASE PollFails \/ ProbeFails
    <3>1. faults' \in 0..MaxFaults BY <1>1, <2>1, FaultTypes DEF PollFails, ProbeFails
    <3> QED BY <1>1, <2>1, <3>1 DEF PollFails, ProbeFails, ServerTypes
  <2>2. CASE PollTimerFires \/ PollReads \/ ProbeStarts \/ ProbeReads
    BY <1>1, <2>2, ServerSame DEF PollTimerFires, PollReads, ProbeStarts, ProbeReads
  <2> QED BY <2>1, <2>2
<1>3. /\ UNCHANGED <<open, opens, conn, ready, lost, seen, base, applied, accel, epoch>>
      /\ pollTimer' \in BOOLEAN /\ (conn # NoConn => sock'[conn] = sock[conn])
  BY <1>1 DEF PollTimerFires, PollReads, PollFails, ProbeStarts, ProbeReads, ProbeFails, serverVars,
     ClientTypes
<1>4. /\ seen \in 0..MaxSeq /\ epoch \in 0..MaxOpens /\ lastSeq \in 0..MaxSeq /\ PollBatch \in Nat \ {0}
      /\ AsksBehind(poll, seen) /\ AsksBehind(probe, seen) /\ AsksBehind(NoRequest, seen)
  BY <1>1, NoRequestIs, PollAssumption DEF ClientTypes, ServerTypes
<1>5. AsksBehind(poll', seen)
  <2>1. CASE PollTimerFires
    <3>1. StartsPoll(TRUE) BY <2>1 DEF PollTimerFires
    <3>2. seen' = seen /\ epoch' = epoch /\ seen <= seen' BY <1>3, <1>4
    <3>3. seen' \in 0..MaxSeq /\ epoch' \in 0..MaxOpens BY <1>4, <3>2
    <3> QED BY <1>4, <3>1, <3>2, <3>3, PollIs
  <2>2. CASE PollReads
    <3>1. poll.since \in 0..MaxSeq BY <1>4 DEF AsksBehind, Request
    <3>2. PageTop(poll.since, PollBatch) \in 0..MaxSeq BY <1>4, <3>1, PageTopIs
    <3> QED BY <1>4, <2>2, <3>2 DEF PollReads, AsksBehind, Request
  <2>3. CASE PollFails BY <1>4, <2>3 DEF PollFails
  <2>4. CASE ProbeStarts \/ ProbeReads \/ ProbeFails
    BY <1>4, <2>4 DEF ProbeStarts, ProbeReads, ProbeFails
  <2> QED BY <2>1, <2>2, <2>3, <2>4
<1>6. AsksBehind(probe', seen)
  <2>1. CASE ProbeStarts
    <3>1. seen <= seen BY <1>4
    <3> QED BY <1>4, <2>1, <3>1 DEF ProbeStarts, AsksBehind, NoRequest, Request
  <2>2. CASE ProbeReads
    <3>1. probe.since \in 0..MaxSeq BY <1>4 DEF AsksBehind, Request
    <3>2. PageTop(probe.since, PollBatch) \in 0..MaxSeq BY <1>4, <3>1, PageTopIs
    <3> QED BY <1>4, <2>2, <3>2 DEF ProbeReads, AsksBehind, Request
  <2>3. CASE ProbeFails BY <1>4, <2>3 DEF ProbeFails
  <2>4. CASE PollTimerFires \/ PollReads \/ PollFails
    BY <1>4, <2>4 DEF PollTimerFires, PollReads, PollFails
  <2> QED BY <2>1, <2>2, <2>3, <2>4
<1> QED BY <1>1, <1>2, <1>3, <1>5, <1>6 DEF ClientTypes, FeedTypes

\* A page that an HTTP read has brought.
LEMMA PageOf ==
  ASSUME NEW request \in Request
  PROVE  /\ PageItems(request.since, request.top) \in SUBSET (1..MaxSeq)
         /\ \A e \in PageItems(request.since, request.top) : e <= request.top
         /\ request.top \in 0..MaxSeq /\ request.since \in 0..MaxSeq
<1>1. /\ request.since \in 0..MaxSeq /\ request.top \in 0..MaxSeq /\ MaxSeq \in Nat
  BY SeqAssumption DEF Request
<1>2. request.since \in Nat /\ request.top \in Int /\ request.top <= MaxSeq BY <1>1
<1> QED BY <1>1, <1>2, PageItemsAre DEF PageItems

LEMMA PollAnswersTypes == FeedTypes /\ PollAnswers => FeedTypes'
<1> SUFFICES ASSUME FeedTypes, PollAnswers PROVE FeedTypes' OBVIOUS
<1>1. ServerTypes /\ ClientTypes BY DEF FeedTypes
<1>2. ServerTypes' BY <1>1, ServerSame DEF PollAnswers
<1>3. poll \in Request /\ seen \in 0..MaxSeq /\ Filed(applied, seen) BY <1>1 DEF ClientTypes, AsksBehind
<1>4. seen' \in 0..MaxSeq /\ seen <= seen' /\ Filed(applied', seen')
  <2>1. CASE PollIsCurrent
    <3>1. Applies(PageItems(poll.since, poll.top), seen) /\ seen' = AtLeast(poll.top, seen)
      BY <2>1 DEF PollAnswers, PollCursor
    <3>2. /\ PageItems(poll.since, poll.top) \in SUBSET (1..MaxSeq) /\ poll.top \in 0..MaxSeq
          /\ \A e \in PageItems(poll.since, poll.top) : e \in 1..MaxSeq /\ e <= poll.top
      BY <1>3, PageOf
    <3>3. seen' \in 0..MaxSeq /\ seen <= seen' /\ poll.top <= seen' BY <1>3, <3>1, <3>2, Numbers
    <3>4. \A e \in PageItems(poll.since, poll.top) : e <= seen' BY <3>2, <3>3
    <3> QED BY <1>3, <3>1, <3>2, <3>3, <3>4, AppliesIs
  <2>2. CASE ~PollIsCurrent
    <3>1. seen' = seen /\ applied' = applied BY <2>2 DEF PollAnswers
    <3> QED BY <1>3, <3>1
  <2> QED BY <2>1, <2>2
<1>5. AsksBehind(poll', seen') /\ AsksBehind(probe', seen')
  <2>1. poll' = NoRequest /\ probe' = probe /\ AsksBehind(probe, seen) BY <1>1 DEF PollAnswers, ClientTypes
  <2>2. seen' \in Nat /\ seen \in Int /\ seen' \in Int BY <1>3, <1>4
  <2> QED BY <1>4, <2>1, <2>2, NoRequestIs, FiledStays
<1>6. /\ UNCHANGED <<open, opens, conn, ready, lost, base, accel, epoch>> /\ pollTimer' \in BOOLEAN
      /\ sock' = sock
  BY <1>1 DEF PollAnswers, ClientTypes, serverVars
<1> QED BY <1>1, <1>2, <1>4, <1>5, <1>6 DEF ClientTypes, FeedTypes

LEMMA ProbeAnswersTypes == FeedTypes /\ ProbeAnswers => FeedTypes'
<1> SUFFICES ASSUME FeedTypes, ProbeAnswers PROVE FeedTypes' OBVIOUS
<1> DEFINE items == PageItems(probe.since, probe.top)
<1>1. ServerTypes /\ ClientTypes BY DEF FeedTypes
<1>2. ServerTypes'
  <2>1. CASE items # {}
    <3>1. Leaves(conn) /\ UNCHANGED <<lastSeq, tick, faults>> BY <2>1 DEF ProbeAnswers
    <3> QED BY <1>1, <3>1, LeavesTypes, ServerPart DEF ServerTypes
  <2>2. CASE items = {}
    <3>1. UNCHANGED <<lastSeq, tick, faults, sock, subscribed, cursor, up, down, jobs, viewing, hist>>
      BY <2>2 DEF ProbeAnswers
    <3> QED BY <1>1, <3>1 DEF ServerTypes
  <2> QED BY <2>1, <2>2
<1>3. probe \in Request /\ seen \in 0..MaxSeq /\ Filed(applied, seen) BY <1>1 DEF ClientTypes, AsksBehind
<1>4. seen' \in 0..MaxSeq /\ seen <= seen' /\ Filed(applied', seen')
  <2>1. CASE open
    <3>1. Applies(items, seen) /\ seen' = LastOr(items, seen) BY <2>1 DEF ProbeAnswers
    <3>2. items \in SUBSET (1..MaxSeq) BY <1>3, PageOf
    <3> HIDE DEF items
    <3>3. seen' \in 0..MaxSeq /\ seen <= seen' /\ \A e \in items : e <= seen'
      BY <1>3, <3>1, <3>2, LastIs
    <3> QED BY <1>3, <3>1, <3>2, <3>3, AppliesIs
  <2>2. CASE ~open
    <3>1. seen' = seen /\ applied' = applied BY <2>2 DEF ProbeAnswers
    <3> QED BY <1>3, <3>1
  <2> QED BY <2>1, <2>2
<1>5. probe' = NoRequest /\ UNCHANGED <<open, opens, base, pollTimer, epoch>> BY DEF ProbeAnswers
<1>6. AsksBehind(probe', seen')
  <2>1. seen' \in Nat BY <1>4
  <2> QED BY <1>5, <2>1, NoRequestIs
<1>7. /\ conn' \in Conns \cup {NoConn} /\ ready' \in BOOLEAN /\ lost' \in BOOLEAN
      /\ (ready' => conn' # NoConn) /\ (conn' # NoConn => sock'[conn'] # "new")
      /\ accel' \in NoTimer..MaxSeq /\ AsksBehind(poll', seen')
  <2>1. CASE items # {}
    <3>1. Closes BY <2>1 DEF ProbeAnswers
    <3>2. epoch' \in 0..MaxOpens BY <1>1, <1>5 DEF ClientTypes
    <3> QED BY <1>1, <1>4, <3>1, <3>2, ClosesTypes
  <2>2. CASE items = {}
    <3>1. UNCHANGED <<conn, ready, lost, accel, poll, sock>> BY <2>2 DEF ProbeAnswers
    <3>2. seen' \in Int /\ seen \in Int BY <1>3, <1>4
    <3>3. AsksBehind(poll', seen') BY <1>1, <1>4, <3>1, <3>2, FiledStays DEF ClientTypes
    <3> QED BY <1>1, <3>1, <3>3 DEF ClientTypes
  <2> QED BY <2>1, <2>2
<1> QED BY <1>1, <1>2, <1>4, <1>5, <1>6, <1>7 DEF ClientTypes, FeedTypes

\* The server does not take back a socket.
LEMMA SocketsStay ==
  ASSUME ServerTypes, ServerNext, NEW c \in Conns, sock[c] # "new"
  PROVE  sock'[c] # "new"
<1>1. sock' = sock \/ \E d \in Conns : sock' = [sock EXCEPT ![d] = "closed"]
  <2>1. CASE Commit \/ TickWork \/ PumpFails
    BY <2>1 DEF Commit, TickWork, TickStarts, TickTakes, PumpReads, PumpSends, PumpFails
  <2>2. CASE PumpOverflows
    <3>1. tick.conn \in Conns BY <2>2 DEF PumpOverflows, ServerTypes, GoodTick
    <3> QED BY <2>2, <3>1 DEF PumpOverflows, Gone
  <2>3. ASSUME NEW d \in Conns, Finish(d) \/ PresenceExpires(d) \/ Receive(d)
        PROVE  sock' = sock \/ sock' = [sock EXCEPT ![d] = "closed"]
    BY <2>3 DEF Finish, Gone, PresenceExpires, Receive
  <2>4. ASSUME NEW d \in Conns, JobWork(d) \/ JobFault(d)
        PROVE  sock' = sock \/ sock' = [sock EXCEPT ![d] = "closed"]
    BY <2>4 DEF JobWork, JobFault, Authorized, Reads, SeedMark, SendPage, SetPresence, Refused, ReadFails,
       ResumeOverflows, Gone
  <2> QED BY <2>1, <2>2, <2>3, <2>4 DEF ServerNext
<1>2. sock \in [Conns -> {"new", "open", "closing", "closed"}] BY DEF ServerTypes
<1> QED BY <1>1, <1>2

LEMMA FeedTypesStep ==
  ASSUME FeedTypes, [FeedNext]_vars
  PROVE  FeedTypes'
<1>1. ServerTypes /\ ClientTypes BY DEF FeedTypes
<1>2. CASE ServerNext /\ UNCHANGED clientVars
  <2>1. ServerTypes' BY <1>1, <1>2, ServerTypesStep
  <2>2. conn # NoConn => sock'[conn] # "new"
    <3>1. conn \in Conns \cup {NoConn} /\ (conn # NoConn => sock[conn] # "new") BY <1>1 DEF ClientTypes
    <3> QED BY <1>1, <1>2, <3>1, SocketsStay
  <2> QED BY <1>1, <1>2, <2>1, <2>2 DEF clientVars, ClientTypes, FeedTypes
<1>3. CASE UNCHANGED vars
  <2>1. ServerTypes' /\ sock' = sock BY <1>1, <1>3, ServerSame DEF vars, serverVars
  <2> QED BY <1>1, <1>3, <2>1 DEF vars, clientVars, ClientTypes, FeedTypes
<1> QED BY <1>2, <1>3, OpenSpaceTypes, CloseSpaceTypes, ConnectTypes, HandleOpenTypes, AccelerateTypes,
       ReplaceTypes, LosesTypes, ReceivesTypes, PollTypes, PollAnswersTypes, ProbeAnswersTypes
    DEF FeedNext, ClientNext, ClientWork

LEMMA FeedStarts == FeedInit => FeedTypes
<1> SUFFICES ASSUME FeedInit PROVE FeedTypes OBVIOUS
<1>1. up \in [Conns -> Seq(Frames)]
  <2>1. <<>> \in Seq(Frames) OBVIOUS
  <2> QED BY <2>1 DEF FeedInit
<1>2. ServerTypes BY <1>1, ServerStarts DEF FeedInit
<1>3. 0 \in 0..MaxSeq /\ 0 \in 0..MaxOpens /\ 0 \in Nat BY Numbers
<1>4. Filed(<<>>, 0) BY DEF Filed, IsAscending
<1>5. ClientTypes
  <2>1. AsksBehind(poll, seen) /\ AsksBehind(probe, seen) /\ Filed(applied, seen)
    BY <1>3, <1>4, NoRequestIs DEF FeedInit, ClientInit
  <2>2. epoch + (IF open THEN 1 ELSE 0) <= opens
    <3>1. epoch = 0 /\ opens = 0 /\ (IF open THEN 1 ELSE 0) = 0 BY DEF FeedInit, ClientInit
    <3> QED BY <3>1
  <2> QED BY <1>3, <2>1, <2>2, Numbers DEF FeedInit, ClientInit, ClientTypes
<1> QED BY <1>2, <1>5 DEF FeedTypes

\* Every variable of the client and of the server it talks to has its type.
THEOREM FeedTypeCorrect == FeedSpec => [](ServerTypeOK /\ ClientTypeOK)
<1>1. FeedTypes => ServerTypeOK /\ ClientTypeOK
  BY TypesAreServerTypes, TypesAreClientTypes DEF FeedTypes
<1>2. FeedTypes /\ [FeedNext]_vars => FeedTypes' BY FeedTypesStep
<1> QED BY <1>1, <1>2, FeedStarts, PTL DEF FeedSpec

\* Whatever the socket, the poll and the probe deliver, late or twice, the listeners are
\* handed each row at most once and in the order of the log.
THEOREM RowsInOrder == FeedSpec => []AppliedInOrder
<1>1. FeedTypes => AppliedInOrder BY TypesAreClientTypes DEF FeedTypes
<1>2. FeedTypes /\ [FeedNext]_vars => FeedTypes' BY FeedTypesStep
<1> QED BY <1>1, <1>2, FeedStarts, PTL DEF FeedSpec

-----------------------------------------------------------------------------
(***************************************************************************)
(* What is on its way to the client.                                       *)
(***************************************************************************)
\* A page of which the rows S need not come any more reaches n: each row up to n is in S
\* or among the messages.
Reaches(d, S, n) == \A e \in 1..n : e \in S \cup Seqs(d)

\* Before each event come the rows below it.
Chain(d, S) == \A i \in EventsOf(d) : \A e \in 1..(d[i].seq - 1) :
  e \in S \/ \E j \in EventsOf(d) : j < i /\ d[j].seq = e

\* What is asked for, in frames or handlers, starts at or below n.
Resumes(s, n) == \A i \in DOMAIN s : s[i].type = "resume" => s[i].since <= n

LEMMA LargerSet ==
  ASSUME NEW d, NEW S, NEW T, S \subseteq T
  PROVE  /\ Chain(d, S) => Chain(d, T)
         /\ \A n : Reaches(d, S, n) => Reaches(d, T, n)
BY DEF Chain, Reaches

LEMMA NothingSent ==
  /\ \A S : Chain(<<>>, S)
  /\ \A n \in Int : \A S : n <= 0 => Reaches(<<>>, S, n)
  /\ \A n : Resumes(<<>>, n)
BY DEF Chain, Reaches, Resumes, EventsOf

LEMMA EventsOnTop ==
  ASSUME NEW d \in Seq(Messages), NEW p \in Seq(Messages)
  PROVE  LET r == d \o p  n == Len(d) IN
         /\ n \in Nat /\ EventsOf(r) \subseteq 1..Len(r) /\ Len(r) \in Nat /\ EventsOf(d) \subseteq 1..n
         /\ \A i \in EventsOf(d) : i \in EventsOf(r) /\ r[i] = d[i]
         /\ \A i \in EventsOf(p) : n + i \in EventsOf(r) /\ r[n + i] = p[i] /\ i \in Int /\ i > 0
         /\ \A i \in EventsOf(r) : i \in EventsOf(d) \/ (i - n \in EventsOf(p) /\ r[i] = p[i - n])
<1> DEFINE r == d \o p
           n == Len(d)
<1>1. /\ DOMAIN r = 1..(n + Len(p)) /\ n \in Nat /\ Len(p) \in Nat /\ Len(r) = n + Len(p)
      /\ DOMAIN d = 1..n /\ DOMAIN p = 1..Len(p)
      /\ \A i \in 1..(n + Len(p)) : r[i] = IF i <= n THEN d[i] ELSE p[i - n]
  BY ConcatProperties
<1> HIDE DEF r, n
<1>2. \A i \in EventsOf(d) : i \in EventsOf(r) /\ r[i] = d[i] BY <1>1 DEF EventsOf
<1>3. ASSUME NEW i \in EventsOf(p) PROVE n + i \in EventsOf(r) /\ r[n + i] = p[i] /\ i \in Int /\ i > 0
  <2>1. i \in 1..Len(p) /\ p[i].type = "event" BY <1>1 DEF EventsOf
  <2>2. n + i \in 1..(n + Len(p)) /\ ~(n + i <= n) /\ (n + i) - n = i BY <1>1, <2>1
  <2>3. r[n + i] = p[i] BY <1>1, <2>2
  <2> QED BY <1>1, <2>1, <2>2, <2>3 DEF EventsOf
<1>4. ASSUME NEW i \in EventsOf(r) PROVE i \in EventsOf(d) \/ (i - n \in EventsOf(p) /\ r[i] = p[i - n])
  <2>1. i \in 1..(n + Len(p)) /\ r[i].type = "event" BY <1>1 DEF EventsOf
  <2>2. CASE i <= n
    <3>1. i \in 1..n /\ r[i] = d[i] BY <1>1, <2>1, <2>2
    <3> QED BY <1>1, <2>1, <3>1 DEF EventsOf
  <2>3. CASE ~(i <= n)
    <3>1. i - n \in 1..Len(p) /\ r[i] = p[i - n] BY <1>1, <2>1, <2>3
    <3> QED BY <1>1, <2>1, <3>1 DEF EventsOf
  <2> QED BY <2>2, <2>3
<1>5. EventsOf(r) \subseteq 1..Len(r) /\ Len(r) \in Nat /\ EventsOf(d) \subseteq 1..n
  BY <1>1 DEF EventsOf
<1> QED BY <1>1, <1>2, <1>3, <1>4, <1>5 DEF r, n

\* A page, or the beginning of one, is sent to a client whose rows reach its start.
LEMMA PageFollows ==
  ASSUME NEW d \in Seq(Messages), NEW p \in Seq(Messages), NEW S, Hidden \subseteq S,
         NEW since \in Nat, NEW n \in Int, Exactly(p, PageItems(since, n)),
         Chain(d, S), Reaches(d, S, since)
  PROVE  Chain(d \o p, S) /\ Reaches(d \o p, S, n)
<1> DEFINE r == d \o p
           k == Len(d)
<1>1. /\ k \in Nat /\ EventsOf(r) \subseteq Int /\ EventsOf(d) \subseteq 1..k
      /\ \A i \in EventsOf(d) : i \in EventsOf(r) /\ r[i] = d[i]
      /\ \A i \in EventsOf(p) : k + i \in EventsOf(r) /\ r[k + i] = p[i] /\ i \in Int /\ i > 0
      /\ \A i \in EventsOf(r) : i \in EventsOf(d) \/ (i - k \in EventsOf(p) /\ r[i] = p[i - k])
  <2>1. \A m \in Nat : 1..m \subseteq Int OBVIOUS
  <2> QED BY <2>1, EventsOnTop
<1> HIDE DEF r, k
<1>2. \A e \in 1..since : e \in S \/ \E j \in EventsOf(d) : d[j].seq = e BY DEF Reaches, Seqs
<1>3. \A e \in (since + 1)..n : e \in S \/ \E j \in EventsOf(p) : p[j].seq = e
  BY DEF Exactly, Seqs, PageItems
<1>4. \A i \in EventsOf(p) : p[i].seq \in (since + 1)..n BY DEF Exactly, Seqs, PageItems
<1>5. ASSUME NEW i \in EventsOf(r), NEW e \in 1..(r[i].seq - 1)
      PROVE  e \in S \/ \E j \in EventsOf(r) : j < i /\ r[j].seq = e
  <2>1. CASE i \in EventsOf(d)
    <3>1. r[i] = d[i] BY <1>1, <2>1
    <3>2. e \in S \/ \E j \in EventsOf(d) : j < i /\ d[j].seq = e BY <1>5, <2>1, <3>1 DEF Chain
    <3> QED BY <1>1, <3>2
  <2>2. CASE i - k \in EventsOf(p) /\ r[i] = p[i - k]
    <3> DEFINE h == i - k
    <3>1. h \in EventsOf(p) /\ h \in Int /\ h > 0 /\ k + h = i /\ i \in Int BY <1>1, <2>2
    <3>2. r[i].seq \in (since + 1)..n /\ r[i].seq = p[h].seq BY <1>4, <2>2
    <3>3. e \in Int /\ e < r[i].seq /\ e >= 1 BY <3>2
    <3>4. CASE e <= since
      <4>1. e \in 1..since BY <3>3, <3>4
      <4>2. CASE e \in S BY <4>2
      <4>3. CASE \E j \in EventsOf(d) : d[j].seq = e
        <5>1. PICK j \in EventsOf(d) : d[j].seq = e BY <4>3
        <5>2. j \in EventsOf(r) /\ r[j].seq = e /\ j < i BY <1>1, <3>1, <5>1
        <5> QED BY <5>2
      <4> QED BY <1>2, <4>1, <4>2, <4>3
    <3>5. CASE ~(e <= since)
      <4>1. e \in (since + 1)..n BY <3>2, <3>3, <3>5
      <4>2. CASE e \in S BY <4>2
      <4>3. CASE \E j \in EventsOf(p) : p[j].seq = e
        <5>1. PICK j \in EventsOf(p) : p[j].seq = e BY <4>3
        <5>2. j \in Int /\ k + j \in EventsOf(r) /\ r[k + j].seq = e BY <1>1, <5>1
        <5>3. j < h
          <6>1. ~(h < j) /\ h # j BY <3>1, <3>2, <3>3, <5>1 DEF Exactly
          <6> QED BY <3>1, <5>2, <6>1
        <5>4. k + j < i BY <1>1, <3>1, <5>2, <5>3
        <5> QED BY <5>2, <5>4
      <4> QED BY <1>3, <4>1, <4>2, <4>3
    <3> QED BY <3>4, <3>5
  <2> QED BY <1>1, <2>1, <2>2
<1>6. ASSUME NEW e \in 1..n PROVE e \in S \cup Seqs(r)
  <2>1. e \in 1..since \/ e \in (since + 1)..n OBVIOUS
  <2>2. CASE \E j \in EventsOf(d) : d[j].seq = e BY <1>1, <2>2 DEF Seqs
  <2>3. CASE \E j \in EventsOf(p) : p[j].seq = e
    <3>1. PICK j \in EventsOf(p) : p[j].seq = e BY <2>3
    <3> QED BY <1>1, <3>1 DEF Seqs
  <2> QED BY <1>2, <1>3, <2>1, <2>2, <2>3
<1> QED BY <1>5, <1>6 DEF Chain, Reaches, r

\* A message that is no event changes nothing.
LEMMA RefusalFollows ==
  ASSUME NEW d \in Seq(Messages), NEW m \in Messages, m.type = "refused", NEW S
  PROVE  /\ Chain(d, S) => Chain(Append(d, m), S)
         /\ \A n : Reaches(d, S, n) => Reaches(Append(d, m), S, n)
<1> DEFINE r == Append(d, m)
           k == Len(d)
<1>1. /\ k \in Nat /\ DOMAIN d = 1..k /\ DOMAIN r = 1..(k + 1) /\ r[k + 1] = m
      /\ \A i \in 1..k : r[i] = d[i]
  BY AppendProperties
<1> HIDE DEF r, k
<1>2. EventsOf(r) = EventsOf(d) /\ \A i \in EventsOf(d) : r[i] = d[i]
  <2>1. ASSUME NEW i \in EventsOf(r) PROVE i \in EventsOf(d)
    <3>1. i \in 1..(k + 1) /\ r[i].type = "event" BY <1>1 DEF EventsOf
    <3>2. i # k + 1 BY <1>1, <3>1
    <3>3. i \in 1..k BY <1>1, <3>1, <3>2
    <3> QED BY <1>1, <3>1, <3>3 DEF EventsOf
  <2>2. ASSUME NEW i \in EventsOf(d) PROVE i \in EventsOf(r) /\ r[i] = d[i]
    <3>1. i \in 1..k /\ i \in 1..(k + 1) BY <1>1 DEF EventsOf
    <3> QED BY <1>1, <3>1 DEF EventsOf
  <2> QED BY <2>1, <2>2
<1>3. Seqs(r) = Seqs(d) BY <1>2 DEF Seqs
<1>4. Chain(d, S) => Chain(r, S) BY <1>2 DEF Chain
<1>5. \A n : Reaches(d, S, n) => Reaches(r, S, n) BY <1>3 DEF Reaches
<1> QED BY <1>4, <1>5 DEF r

\* The first message arrives; if it is an event, its row need not come any more.
LEMMA RestFollows ==
  ASSUME NEW d \in Seq(Messages), d # <<>>, NEW S, NEW T, S \subseteq T,
         Head(d).type = "event" => Head(d).seq \in T
  PROVE  /\ Chain(d, S) => Chain(Tail(d), T)
         /\ \A n : Reaches(d, S, n) => Reaches(Tail(d), T, n)
<1> DEFINE r == Tail(d)
           k == Len(d)
<1>1. /\ k \in Nat /\ k > 0 /\ DOMAIN d = 1..k /\ DOMAIN r = 1..(k - 1) /\ Head(d) = d[1]
      /\ \A i \in 1..(k - 1) : r[i] = d[i + 1]
  BY HeadTailProperties, EmptySeq, LenProperties
<1> HIDE DEF r, k
<1>2. \A i \in EventsOf(r) : i \in Int /\ i + 1 \in EventsOf(d) /\ r[i] = d[i + 1]
  BY <1>1 DEF EventsOf
<1>3. ASSUME NEW i \in EventsOf(d), d[i].seq \notin T PROVE i - 1 \in EventsOf(r) /\ r[i - 1] = d[i]
  <2>1. i \in 1..k /\ d[i].type = "event" BY <1>1 DEF EventsOf
  <2>2. i # 1 BY <1>1, <1>3, <2>1
  <2>3. i - 1 \in 1..(k - 1) /\ (i - 1) + 1 = i BY <1>1, <2>1, <2>2
  <2> QED BY <1>1, <2>1, <2>3 DEF EventsOf
<1>4. ASSUME Chain(d, S), NEW i \in EventsOf(r), NEW e \in 1..(r[i].seq - 1), e \notin T
      PROVE  \E j \in EventsOf(r) : j < i /\ r[j].seq = e
  <2>1. i \in Int /\ i + 1 \in EventsOf(d) /\ r[i] = d[i + 1] BY <1>2
  <2>2. PICK j \in EventsOf(d) : j < i + 1 /\ d[j].seq = e BY <1>4, <2>1 DEF Chain
  <2>3. j - 1 \in EventsOf(r) /\ r[j - 1].seq = e BY <1>3, <1>4, <2>2
  <2>4. j \in Int BY <1>1, <2>2 DEF EventsOf
  <2>5. j - 1 < i BY <2>1, <2>2, <2>4
  <2> QED BY <2>3, <2>5
<1>5. ASSUME NEW n, Reaches(d, S, n), NEW e \in 1..n, e \notin T PROVE e \in Seqs(r)
  <2>1. PICK j \in EventsOf(d) : d[j].seq = e BY <1>5 DEF Reaches, Seqs
  <2>2. j - 1 \in EventsOf(r) /\ r[j - 1].seq = e BY <1>3, <1>5, <2>1
  <2> QED BY <2>2 DEF Seqs
<1> QED BY <1>4, <1>5 DEF Chain, Reaches, r

\* Frames and handlers come and go.
LEMMA ResumesOn ==
  ASSUME NEW R, NEW s \in Seq(R), NEW n, Resumes(s, n)
  PROVE  /\ \A x \in R : (x.type = "resume" => x.since <= n) => Resumes(Append(s, x), n)
         /\ \A i \in DOMAIN s : Resumes(RemoveAt(s, i), n)
         /\ s # <<>> => Resumes(Tail(s), n)
         /\ \A t \in Seq(R) : Resumes(t, n) => Resumes(s \o t, n)
         /\ \A i \in DOMAIN s : \A x : x.type = s[i].type /\ x.since = s[i].since =>
              Resumes([s EXCEPT ![i] = x], n)
<1> DEFINE k == Len(s)
<1>1. k \in Nat /\ DOMAIN s = 1..k BY LenProperties
<1>2. ASSUME NEW x \in R, x.type = "resume" => x.since <= n PROVE Resumes(Append(s, x), n)
  <2>1. /\ DOMAIN Append(s, x) = 1..(k + 1) /\ Append(s, x)[k + 1] = x
        /\ \A i \in 1..k : Append(s, x)[i] = s[i]
    BY AppendProperties
  <2>2. \A i \in 1..(k + 1) : i \in 1..k \/ i = k + 1 BY <1>1
  <2> HIDE DEF k
  <2> QED BY <1>1, <1>2, <2>1, <2>2 DEF Resumes
<1>3. ASSUME NEW i \in DOMAIN s PROVE Resumes(RemoveAt(s, i), n)
  <2> DEFINE r == RemoveAt(s, i)
  <2>1. \A j \in DOMAIN r : r[j] = s[IF j < i THEN j ELSE j + 1] /\ (IF j < i THEN j ELSE j + 1) \in DOMAIN s
    BY RemovedFrom
  <2> HIDE DEF r
  <2> QED BY <2>1 DEF Resumes, r
<1>4. ASSUME s # <<>> PROVE Resumes(Tail(s), n)
  <2>1. DOMAIN Tail(s) = 1..(k - 1) /\ \A i \in 1..(k - 1) : Tail(s)[i] = s[i + 1]
    BY <1>4, HeadTailProperties, LenProperties
  <2>2. \A i \in 1..(k - 1) : i + 1 \in 1..k BY <1>1
  <2> HIDE DEF k
  <2> QED BY <1>1, <2>1, <2>2 DEF Resumes
<1>5. ASSUME NEW t \in Seq(R), Resumes(t, n) PROVE Resumes(s \o t, n)
  <2>1. /\ DOMAIN (s \o t) = 1..(k + Len(t)) /\ Len(t) \in Nat /\ DOMAIN t = 1..Len(t)
        /\ \A i \in 1..(k + Len(t)) : (s \o t)[i] = IF i <= k THEN s[i] ELSE t[i - k]
    BY ConcatProperties
  <2>2. \A i \in 1..(k + Len(t)) : IF i <= k THEN i \in DOMAIN s ELSE i - k \in DOMAIN t BY <1>1, <2>1
  <2> HIDE DEF k
  <2> QED BY <1>1, <1>5, <2>1, <2>2 DEF Resumes
<1>6. \A i \in DOMAIN s : \A x : x.type = s[i].type /\ x.since = s[i].since => Resumes([s EXCEPT ![i] = x], n)
  BY DEF Resumes
<1> QED BY <1>2, <1>3, <1>4, <1>5, <1>6

-----------------------------------------------------------------------------
\* A socket that nothing has been sent on.
Untouched(c) ==
  up[c] = <<>> /\ jobs[c] = <<>> /\ down[c] = <<>> /\ cursor[c] = Unseeded /\ ~InTick(c)

\* Rows that need not come on the socket: those that nobody is given, those at or below
\* the mark of its subscribe, and those the client has passed.
Safe(c) == {e \in 1..MaxSeq : e \in Hidden \/ e <= hist[c].start \/ e <= seen}

Continues(c) ==
  /\ Resumes(up[c], seen) /\ Resumes(jobs[c], seen)
  /\ Reaches(down[c], Safe(c), cursor[c])
  /\ InTick(c) => Reaches(down[c], Safe(c), tick.since)
Follows(c) == Chain(down[c], Safe(c)) /\ (IsOpen(c) => Continues(c))

FeedInv == \A c \in Conns :
  /\ opens = 0 \/ sock[c] = "new" => Untouched(c)
  /\ open /\ opens = 1 => Follows(c)

LEMMA UntouchedFollows ==
  ASSUME NEW c \in Conns
  PROVE  /\ Untouched(c) => Follows(c)
         /\ Untouched(c)' => Follows(c)'
<1>1. Unseeded \in Int /\ Unseeded <= 0 BY DEF Unseeded
<1>2. Untouched(c) => Follows(c) BY <1>1, NothingSent DEF Untouched, Follows, Continues
<1>3. Untouched(c)' => Follows(c)' BY <1>1, NothingSent DEF Untouched, Follows, Continues
<1> QED BY <1>2, <1>3

\* The socket stays as it is until the client sends on it.
LEMMA UntouchedStays ==
  ASSUME ServerTypes, ServerNext, NEW c \in Conns, Untouched(c)
  PROVE  Untouched(c)'
<1>0. /\ cursor \in [Conns -> Unseeded..MaxSeq] /\ tick \in Ticks /\ NoConn \notin Conns
      /\ down \in [Conns -> Seq(Messages)] /\ jobs \in [Conns -> Seq(GoodJobs(lastSeq))]
      /\ up \in [Conns -> Seq(Frames)] /\ DOMAIN jobs[c] = {}
  BY NoConnAssumption DEF ServerTypes, GoodTick, Untouched
<1>1. CASE Commit \/ TickStarts \/ PumpReads \/ PumpFails
  <2>1. UNCHANGED <<up, jobs, down, cursor>> BY <1>1 DEF Commit, TickStarts, PumpReads, PumpFails
  <2>2. tick' = tick \/ tick'.phase = "next" \/ (tick.phase # "next" /\ tick'.conn = tick.conn)
    BY <1>0, <1>1 DEF Commit, TickStarts, PumpReads, PumpFails, TickMovesOn, NoTick, Ticks
  <2> QED BY <2>1, <2>2 DEF Untouched, InTick
<1>2. ASSUME NEW d \in Conns, TickTakes(d) PROVE Untouched(c)'
  <2>1. UNCHANGED <<up, jobs, down>> /\ cursor'[c] = Unseeded BY <1>0, <1>2 DEF TickTakes, Untouched
  <2>2. ~InTick(c)'
    <3>1. CASE IsOpen(d) /\ Eligible(d)
      <4>1. c # d BY <3>1 DEF Eligible, Untouched
      <4>2. tick'.conn = d BY <1>0, <1>2, <3>1 DEF TickTakes, Ticks
      <4> QED BY <4>1, <4>2 DEF InTick
    <3>2. CASE ~(IsOpen(d) /\ Eligible(d))
      <4>1. tick'.phase = "next" BY <1>0, <1>2, <3>2 DEF TickTakes, Ticks
      <4> QED BY <4>1 DEF InTick
    <3> QED BY <3>1, <3>2
  <2> QED BY <2>1, <2>2 DEF Untouched
<1>3. CASE PumpSends \/ PumpOverflows
  <2>1. c # tick.conn BY <1>3 DEF PumpSends, PumpOverflows, Untouched, InTick
  <2>2. tick'.phase = "next" /\ jobs' = jobs
    BY <1>3 DEF PumpSends, PumpOverflows, TickMovesOn, NoTick
  <2>3. down'[c] = down[c] /\ cursor'[c] = cursor[c] /\ up'[c] = up[c]
    BY <1>0, <1>3, <2>1 DEF PumpSends, PumpOverflows, Advances, Gone
  <2> QED BY <2>2, <2>3 DEF Untouched, InTick
<1>4. ASSUME NEW d \in Conns, Finish(d) PROVE Untouched(c)'
  BY <1>0, <1>4 DEF Finish, Gone, Untouched, InTick
<1>5. ASSUME NEW d \in Conns, PresenceExpires(d) PROVE Untouched(c)'
  BY <1>5 DEF PresenceExpires, Untouched, InTick
<1>6. ASSUME NEW d \in Conns, Receive(d) PROVE Untouched(c)'
  <2>1. c # d BY <1>6 DEF Receive, Untouched
  <2>2. UNCHANGED <<cursor, tick, down>> /\ jobs'[c] = jobs[c] /\ up'[c] = up[c]
    BY <1>0, <1>6, <2>1 DEF Receive
  <2> QED BY <2>2 DEF Untouched, InTick
<1>7. ASSUME NEW d \in Conns, JobWork(d) \/ JobFault(d) PROVE Untouched(c)'
  <2>1. PICK i \in DOMAIN jobs[d] :
          Authorized(d, i) \/ Reads(d, i) \/ SeedMark(d, i) \/ SendPage(d, i) \/ SetPresence(d, i)
            \/ Refused(d, i) \/ ReadFails(d, i) \/ ResumeOverflows(d, i)
    BY <1>7 DEF JobWork, JobFault
  <2>2. c # d BY <1>0, <2>1
  <2>3. jobs'[c] = jobs[c] /\ tick' = tick
    BY <1>0, <2>1, <2>2 DEF Ends, Authorized, Reads, SeedMark, SendPage, SetPresence, Refused,
       ReadFails, ResumeOverflows
  <2>4. cursor'[c] = cursor[c] /\ up'[c] = up[c]
    BY <1>0, <2>1, <2>2 DEF Seeded, Gone, Authorized, Reads, SeedMark, SendPage, SetPresence, Refused,
       ReadFails, ResumeOverflows
  <2>5. down'[c] = down[c]
    BY <1>0, <2>1, <2>2 DEF Authorized, Reads, SeedMark, SendPage, SetPresence, Refused,
       ReadFails, ResumeOverflows
  <2> QED BY <2>3, <2>4, <2>5 DEF Untouched, InTick
<1> QED BY <1>1, <1>2, <1>3, <1>4, <1>5, <1>6, <1>7 DEF ServerNext, TickWork

LEMMA SafeGrows ==
  ASSUME ServerTypes, ServerTypes', seen \in Nat, seen' \in Nat, seen <= seen', NEW c \in Conns,
         hist[c].start <= hist'[c].start
  PROVE  /\ Hidden \subseteq Safe(c) /\ Safe(c) \subseteq Safe(c)'
         /\ \A e \in 1..MaxSeq : e <= hist'[c].start => e \in Safe(c)'
<1>1. hist[c].start \in Int /\ hist'[c].start \in Int
  <2>1. \A h \in History : h.start \in Int BY DEF History, Unseeded
  <2>2. hist[c] \in History /\ hist'[c] \in History BY DEF ServerTypes
  <2> QED BY <2>1, <2>2
<1> QED BY <1>1, SeqAssumption DEF Safe

\* A step that sends the connection nothing and asks nothing new of the server for it.
LEMMA FollowsStays ==
  ASSUME ServerTypes, ServerTypes', seen \in Nat, seen' \in Nat, seen <= seen',
         NEW c \in Conns, Follows(c), hist[c].start <= hist'[c].start, down'[c] = down[c],
         IsOpen(c)' => /\ IsOpen(c) /\ Resumes(up'[c], seen) /\ Resumes(jobs'[c], seen)
                       /\ cursor'[c] = cursor[c]
                       /\ InTick(c)' => \/ InTick(c) /\ tick'.since = tick.since
                                        \/ tick'.since = cursor[c]
  PROVE  Follows(c)'
<1>1. Safe(c) \subseteq Safe(c)' BY SafeGrows
<1>2. Chain(down[c], Safe(c)') /\ \A n : Reaches(down[c], Safe(c), n) => Reaches(down[c], Safe(c)', n)
  <2> DEFINE S == Safe(c)
             T == Safe(c)'
             d == down[c]
  <2>1. S \subseteq T /\ Chain(d, S) BY <1>1 DEF Follows
  <2> HIDE DEF S, T, d
  <2>2. Chain(d, T) /\ \A n : Reaches(d, S, n) => Reaches(d, T, n) BY <2>1, LargerSet
  <2> QED BY <2>2 DEF S, T, d
<1>3. ASSUME IsOpen(c)' PROVE Continues(c)'
  <2>1. Continues(c) BY <1>3 DEF Follows
  <2>2. Resumes(up'[c], seen') /\ Resumes(jobs'[c], seen')
    <3>1. up'[c] \in Seq(Frames) /\ jobs'[c] \in Seq(GoodJobs(lastSeq')) BY DEF ServerTypes
    <3>2. \A x \in Frames : x.since \in Int BY DEF Frames
    <3>3. \A x \in GoodJobs(lastSeq') : x.since \in Int BY DEF GoodJobs, Job
    <3>4. \A i \in DOMAIN (up'[c]) : up'[c][i].since \in Int BY <3>1, <3>2, RowOf
    <3>5. \A i \in DOMAIN (jobs'[c]) : jobs'[c][i].since \in Int BY <3>1, <3>3, RowOf
    <3> QED BY <1>3, <3>4, <3>5 DEF Resumes
  <2>3. Reaches(down[c], Safe(c)', cursor'[c]) BY <1>2, <1>3, <2>1 DEF Continues
  <2>4. InTick(c)' => Reaches(down[c], Safe(c)', tick'.since) BY <1>2, <1>3, <2>1 DEF Continues
  <2> QED BY <2>2, <2>3, <2>4 DEF Continues
<1> QED BY <1>2, <1>3 DEF Follows

LEMMA StartIs == ServerTypes => \A c \in Conns : hist[c].start \in Int /\ cursor[c] \in Int
<1>1. \A h \in History : h.start \in Int BY DEF History, Unseeded
<1>2. \A n \in Unseeded..MaxSeq : n \in Int BY DEF Unseeded
<1> QED BY <1>1, <1>2 DEF ServerTypes

LEMMA FollowsReceive ==
  ASSUME ServerTypes, ServerTypes', seen \in Nat, seen' = seen, NEW c \in Conns, Follows(c), Receive(c)
  PROVE  Follows(c)'
<1> DEFINE f == Head(up[c])
<1>0. /\ up \in [Conns -> Seq(Frames)] /\ up[c] # <<>> /\ jobs \in [Conns -> Seq(GoodJobs(lastSeq))]
      /\ hist \in [Conns -> History] /\ UNCHANGED <<lastSeq, sock, cursor, tick, down>>
  BY DEF ServerTypes, Receive
<1>1. up'[c] = Tail(up[c]) BY <1>0 DEF Receive
<1>2. hist'[c].start = hist[c].start
  <2>1. CASE f.type = "unsubscribe" BY <1>0, <2>1 DEF Receive, History
  <2>2. CASE f.type = "subscribe" BY <1>0, <2>2 DEF Receive, History
  <2>3. CASE f.type = "resume" BY <1>0, <2>3 DEF Receive, History
  <2>4. CASE f.type \notin {"unsubscribe", "subscribe", "resume"} BY <1>0, <2>4 DEF Receive, History
  <2> QED BY <2>1, <2>2, <2>3, <2>4
<1>3. ASSUME IsOpen(c)' PROVE Resumes(up'[c], seen) /\ Resumes(jobs'[c], seen)
  <2>1. Resumes(up[c], seen) /\ Resumes(jobs[c], seen) BY <1>0, <1>3 DEF Follows, Continues, IsOpen
  <2>2. up[c] \in Seq(Frames) /\ Resumes(up'[c], seen) BY <1>0, <1>1, <2>1, ResumesOn
  <2>3. f.type = "resume" => f.since <= seen
    <3>1. 1 \in DOMAIN up[c] /\ f = up[c][1] BY <1>0, HeadTailProperties, EmptySeq, LenProperties
    <3> QED BY <2>1, <3>1 DEF Resumes
  <2>4. jobs'[c] = jobs[c] \/
        \E x : jobs'[c] = Append(jobs[c], x) /\ x.type = f.type /\ x.since = f.since
    <3>1. CASE f.type = "unsubscribe" BY <3>1 DEF Receive
    <3>2. CASE f.type # "unsubscribe"
      <4> DEFINE x == [type |-> f.type, since |-> f.since, at |-> "authorize", top |-> Unseeded]
      <4>1. jobs'[c] = Append(jobs[c], x) BY <1>0, <3>2 DEF Receive
      <4> QED BY <4>1
    <3> QED BY <3>1, <3>2
  <2>5. CASE jobs'[c] = jobs[c] BY <2>1, <2>2, <2>5
  <2>6. CASE \E x : jobs'[c] = Append(jobs[c], x) /\ x.type = f.type /\ x.since = f.since
    <3>1. PICK x : jobs'[c] = Append(jobs[c], x) /\ x.type = f.type /\ x.since = f.since BY <2>6
    <3> DEFINE R == GoodJobs(lastSeq) \cup {x}
    <3>2. jobs[c] \in Seq(R) /\ x \in R
      <4>1. jobs[c] \in Seq(GoodJobs(lastSeq)) /\ GoodJobs(lastSeq) \subseteq R BY <1>0
      <4> HIDE DEF R
      <4>2. jobs[c] \in Seq(R) BY <4>1, SeqMonotonic
      <4> QED BY <4>2 DEF R
    <3> HIDE DEF R
    <3>3. Resumes(Append(jobs[c], x), seen) BY <2>1, <2>3, <3>1, <3>2, ResumesOn
    <3> QED BY <2>2, <3>1, <3>3
  <2> QED BY <2>4, <2>5, <2>6
<1>4. hist[c].start <= hist'[c].start BY <1>2, StartIs
<1>5. seen' \in Nat /\ seen <= seen' /\ down'[c] = down[c] BY <1>0
<1>6. InTick(c)' => InTick(c) /\ tick'.since = tick.since BY <1>0 DEF InTick
<1> QED BY <1>0, <1>3, <1>4, <1>5, <1>6, FollowsStays DEF IsOpen

\* The handlers of the connection that are left, or whose step has been taken.
LEMMA JobsResume ==
  ASSUME ServerTypes, NEW c \in Conns, NEW i \in DOMAIN jobs[c], Resumes(jobs[c], seen),
         Authorized(c, i) \/ Reads(c, i) \/ SeedMark(c, i) \/ SendPage(c, i) \/ SetPresence(c, i)
           \/ Refused(c, i) \/ ReadFails(c, i) \/ ResumeOverflows(c, i)
  PROVE  Resumes(jobs'[c], seen)
<1>0. jobs \in [Conns -> Seq(GoodJobs(lastSeq))] /\ jobs[c] \in Seq(GoodJobs(lastSeq)) BY DEF ServerTypes
<1>1. jobs[c][i] \in Job BY JobStep DEF GoodJobs
<1>2. \/ jobs'[c] = RemoveAt(jobs[c], i)
      \/ \E x : jobs'[c] = [jobs[c] EXCEPT ![i] = x] /\ x.type = jobs[c][i].type /\ x.since = jobs[c][i].since
  <2>1. CASE Authorized(c, i)
    <3> DEFINE x == [jobs[c][i] EXCEPT !.at =
                       IF jobs[c][i].type \in {"subscribe", "resume"} THEN "read" ELSE "apply"]
    <3>1. jobs'[c] = [jobs[c] EXCEPT ![i] = x] BY <1>0, <2>1 DEF Authorized
    <3>2. x.type = jobs[c][i].type /\ x.since = jobs[c][i].since BY <1>1 DEF Job
    <3> QED BY <3>1, <3>2
  <2>2. CASE Reads(c, i)
    <3> DEFINE x == [jobs[c][i] EXCEPT !.at = "apply",
                       !.top = IF jobs[c][i].type = "subscribe" THEN lastSeq
                               ELSE PageTop(jobs[c][i].since, ResumeBatch)]
    <3>1. jobs'[c] = [jobs[c] EXCEPT ![i] = x] BY <1>0, <2>2 DEF Reads
    <3>2. x.type = jobs[c][i].type /\ x.since = jobs[c][i].since BY <1>1 DEF Job
    <3> QED BY <3>1, <3>2
  <2>3. CASE ~Authorized(c, i) /\ ~Reads(c, i)
    BY <1>0, <2>3 DEF Ends, SeedMark, SendPage, SetPresence, Refused, ReadFails, ResumeOverflows
  <2> QED BY <2>1, <2>2, <2>3
<1>3. Resumes(RemoveAt(jobs[c], i), seen) BY <1>0, ResumesOn
<1>4. ASSUME NEW x, x.type = jobs[c][i].type, x.since = jobs[c][i].since
      PROVE  Resumes([jobs[c] EXCEPT ![i] = x], seen)
  BY <1>0, <1>4, ResumesOn
<1> QED BY <1>2, <1>3, <1>4

LEMMA FollowsJob ==
  ASSUME ServerTypes, ServerTypes', seen \in Nat, seen' = seen, NEW c \in Conns, Follows(c),
         NEW i \in DOMAIN jobs[c],
         Authorized(c, i) \/ Reads(c, i) \/ SeedMark(c, i) \/ SendPage(c, i) \/ SetPresence(c, i)
           \/ Refused(c, i) \/ ReadFails(c, i) \/ ResumeOverflows(c, i)
  PROVE  Follows(c)'
<1> DEFINE job == jobs[c][i]
<1>0. /\ job \in GoodJobs(lastSeq) /\ job \in Job /\ hist \in [Conns -> History]
      /\ down \in [Conns -> Seq(Messages)] /\ cursor \in [Conns -> Unseeded..MaxSeq]
      /\ sock \in [Conns -> {"new", "open", "closing", "closed"}]
      /\ hist[c].start \in Int /\ cursor[c] \in Int /\ seen' \in Nat /\ seen <= seen'
  BY JobStep, StartIs DEF ServerTypes, GoodJobs
<1>1. /\ job.since \in 0..MaxSeq /\ job.top \in Int /\ job.top <= MaxSeq
  <2>1. \A j \in Job : j.since \in 0..MaxSeq /\ j.top \in Unseeded..MaxSeq BY DEF Job
  <2>2. \A n \in Unseeded..MaxSeq : n \in Int /\ n <= MaxSeq BY SeqAssumption DEF Unseeded
  <2> QED BY <1>0, <2>1, <2>2
<1>2. tick' = tick /\ lastSeq' = lastSeq /\ (IsOpen(c)' => IsOpen(c))
  BY <1>0 DEF Authorized, Reads, SeedMark, SendPage, SetPresence, Refused, ReadFails, ResumeOverflows,
     Gone, IsOpen
<1>3. IsOpen(c)' => up'[c] = up[c]
  <2>1. CASE ResumeOverflows(c, i) BY <1>0, <2>1 DEF ResumeOverflows, Gone, IsOpen
  <2>2. CASE ~ResumeOverflows(c, i)
    BY <2>2 DEF Authorized, Reads, SeedMark, SendPage, SetPresence, Refused, ReadFails
  <2> QED BY <2>1, <2>2
<1>4. IsOpen(c)' => Resumes(up'[c], seen) /\ Resumes(jobs'[c], seen)
  <2>1. ASSUME IsOpen(c) PROVE Resumes(jobs'[c], seen) /\ Resumes(up[c], seen)
    <3>1. Resumes(jobs[c], seen) /\ Resumes(up[c], seen) BY <2>1 DEF Follows, Continues
    <3> QED BY <3>1, JobsResume
  <2> QED BY <1>2, <1>3, <2>1
<1>5. hist[c].start <= hist'[c].start
  <2>1. CASE Authorized(c, i)
    <3>1. hist'[c].start = hist[c].start \/ hist'[c].start = AtLeast(hist[c].start, cursor[c])
      BY <1>0, <2>1 DEF Authorized, History
    <3> QED BY <1>0, <3>1 DEF AtLeast
  <2>2. CASE SeedMark(c, i)
    <3>1. hist'[c].start = AtLeast(hist[c].start, job.top) BY <1>0, <2>2 DEF SeedMark, History
    <3> QED BY <1>0, <1>1, <3>1 DEF AtLeast
  <2>3. CASE ~Authorized(c, i) /\ ~SeedMark(c, i)
    <3>1. hist' = hist BY <2>3 DEF Reads, SendPage, SetPresence, Refused, ReadFails, ResumeOverflows
    <3> QED BY <1>0, <3>1
  <2> QED BY <2>1, <2>2, <2>3
<1>6. /\ Hidden \subseteq Safe(c) /\ Safe(c) \subseteq Safe(c)'
      /\ \A e \in 1..MaxSeq : e <= hist'[c].start => e \in Safe(c)'
  BY <1>0, <1>5, SafeGrows
<1> DEFINE S == Safe(c)
           T == Safe(c)'
           d == down[c]
<1>7. /\ Chain(d, S) /\ d \in Seq(Messages) /\ S \subseteq T /\ Hidden \subseteq T
      /\ IsOpen(c) => Reaches(d, S, cursor[c]) /\ (InTick(c) => Reaches(d, S, tick.since))
      /\ \A e \in 1..MaxSeq : e <= seen => e \in T
      /\ \A e \in 1..MaxSeq : e <= hist'[c].start => e \in T
  <2>1. \A e \in 1..MaxSeq : e <= seen => e \in T
    BY DEF Safe
  <2> QED BY <1>0, <1>6, <2>1 DEF Follows, Continues
<1> HIDE DEF S, T, d, job
<1>8. Chain(d, T) /\ \A n : Reaches(d, S, n) => Reaches(d, T, n) BY <1>7, LargerSet
<1>9. CASE Authorized(c, i) \/ Reads(c, i) \/ ReadFails(c, i) \/ SetPresence(c, i)
  <2>1. UNCHANGED <<cursor, down>> BY <1>9 DEF Authorized, Reads, ReadFails, SetPresence
  <2> QED BY <1>0, <1>2, <1>4, <1>5, <2>1, FollowsStays DEF InTick
<1>10. CASE Refused(c, i)
  <2>1. cursor' = cursor /\ down'[c] \in {d, Append(d, Refusal(job.type))}
    BY <1>0, <1>10 DEF Refused, job, d
  <2>2. Refusal(job.type) \in Messages /\ Refusal(job.type).type = "refused"
    BY <1>0 DEF Refusal, Messages, Job
  <2>3. Chain(down'[c], T) /\ \A n : Reaches(d, S, n) => Reaches(down'[c], T, n)
    BY <1>7, <1>8, <2>1, <2>2, RefusalFollows
  <2>4. IsOpen(c)' => Continues(c)'
    BY <1>0, <1>2, <1>4, <1>7, <2>1, <2>3 DEF Continues, InTick, T
  <2> QED BY <2>3, <2>4 DEF Follows, T
<1>11. CASE SeedMark(c, i)
  <2>1. cursor'[c] = job.top /\ down' = down BY <1>0, <1>11 DEF SeedMark, Seeded, job
  <2>2. hist'[c].start = AtLeast(hist[c].start, job.top) BY <1>0, <1>11 DEF SeedMark, History, job
  <2>3. Reaches(d, T, job.top)
    <3>1. \A e \in 1..job.top : e \in 1..MaxSeq /\ e <= hist'[c].start
      BY <1>0, <1>1, <2>2, SeqAssumption DEF AtLeast, job
    <3> QED BY <1>7, <3>1 DEF Reaches
  <2>4. down'[c] = d BY <2>1 DEF d
  <2>5. IsOpen(c)' => Continues(c)'
    BY <1>0, <1>2, <1>4, <1>7, <1>8, <2>1, <2>3, <2>4 DEF Continues, InTick, T
  <2> QED BY <1>8, <2>4, <2>5 DEF Follows, T
<1>12. CASE SendPage(c, i) \/ ResumeOverflows(c, i)
  <2> DEFINE p == PageEvents(job.since, job.top)
  <2>1. job.since \in Nat /\ job.top \in Int /\ job.top <= MaxSeq BY <1>1 DEF job
  <2>2. /\ p \in Seq([type : {"event"}, seq : 1..MaxSeq])
        /\ Exactly(p, PageItems(job.since, job.top)) /\ p \in Seq(Messages)
    <3>1. p \in Seq([type : {"event"}, seq : 1..MaxSeq]) /\ Exactly(p, PageItems(job.since, job.top))
      BY <2>1, PageIs
    <3> HIDE DEF p
    <3> QED BY <3>1, EventIsMessage, SeqMonotonic
  <2>3. IsOpen(c) => Reaches(d, T, job.since)
    <3>1. ASSUME IsOpen(c) PROVE job.since <= seen
      <4>1. Resumes(jobs[c], seen) /\ job.type = "resume"
        BY <1>12, <3>1 DEF Follows, Continues, SendPage, ResumeOverflows, job
      <4> QED BY <4>1 DEF Resumes, job
    <3>2. ASSUME job.since <= seen, NEW e \in 1..job.since PROVE e \in T
      <4>1. e \in 1..MaxSeq /\ e <= seen BY <1>0, <1>1, <3>2, SeqAssumption DEF job
      <4> QED BY <1>7, <4>1
    <3> QED BY <3>1, <3>2 DEF Reaches
  <2>4. CASE SendPage(c, i)
    <3>1. down'[c] = (IF IsOpen(c) THEN d \o p ELSE d) /\ (IsOpen(c) => cursor'[c] = job.top)
      BY <1>0, <2>4 DEF SendPage, Seeded, job, d
    <3> HIDE DEF p
    <3>2. ASSUME IsOpen(c) PROVE Chain(d \o p, T) /\ Reaches(d \o p, T, job.top)
      BY <1>7, <1>8, <2>1, <2>2, <2>3, <3>2, PageFollows
    <3>3. ASSUME IsOpen(c), InTick(c) PROVE Reaches(d \o p, T, tick.since)
      <4>1. Reaches(d, T, tick.since) BY <1>7, <1>8, <3>3
      <4>2. Seqs(d) \subseteq Seqs(d \o p) BY <1>7, <2>2, EventsOnTop DEF Seqs
      <4> QED BY <4>1, <4>2 DEF Reaches
    <3>4. Chain(down'[c], T) BY <1>8, <3>1, <3>2
    <3>5. IsOpen(c)' => Continues(c)'
      BY <1>0, <1>2, <1>4, <3>1, <3>2, <3>3 DEF Continues, InTick, T
    <3> QED BY <3>4, <3>5 DEF Follows, T
  <2>5. CASE ResumeOverflows(c, i)
    <3>1. IsOpen(c) /\ ~IsOpen(c)' BY <1>0, <2>5 DEF ResumeOverflows, Gone, IsOpen
    <3>2. PICK k \in DOMAIN p : down'[c] = d \o SubSeq(p, 1, k - 1)
      BY <1>0, <2>5 DEF ResumeOverflows, job, d
    <3> DEFINE q == SubSeq(p, 1, k - 1)
               m == p[k].seq - 1
    <3>3. q \in Seq([type : {"event"}, seq : 1..MaxSeq]) /\ m \in Int /\ Exactly(q, PageItems(job.since, m))
      BY <2>1, <3>2, PageCut
    <3> HIDE DEF q, m
    <3>4. q \in Seq(Messages) BY <3>3, EventIsMessage, SeqMonotonic
    <3>5. Chain(d \o q, T) BY <1>7, <1>8, <2>1, <2>3, <3>1, <3>3, <3>4, PageFollows
    <3> QED BY <3>1, <3>2, <3>5 DEF Follows, T, q
  <2> QED BY <1>12, <2>4, <2>5
<1> QED BY <1>9, <1>10, <1>11, <1>12

\* The pump sends a page, or as much of it as the socket takes.
LEMMA FollowsPump ==
  ASSUME ServerTypes, ServerTypes', seen \in Nat, seen' = seen, PumpSends \/ PumpOverflows,
         NEW c \in Conns, c = tick.conn, Follows(c)
  PROVE  Follows(c)'
<1> DEFINE S == Safe(c)
           d == down[c]
           p == PageEvents(tick.since, tick.top)
<1>0. /\ down \in [Conns -> Seq(Messages)] /\ cursor \in [Conns -> Unseeded..MaxSeq]
      /\ sock \in [Conns -> {"new", "open", "closing", "closed"}]
      /\ UNCHANGED <<lastSeq, jobs, hist>> /\ InTick(c) /\ ~InTick(c)'
  <2>1. tick'.phase = "next" /\ tick.phase = "send"
    BY DEF PumpSends, PumpOverflows, TickMovesOn, NoTick
  <2> QED BY <2>1 DEF ServerTypes, PumpSends, PumpOverflows, InTick
<1>1. tick.since \in Nat /\ tick.top \in Int /\ tick.top <= MaxSeq
  <2>1. tick \in Ticks BY DEF ServerTypes, GoodTick
  <2> QED BY <2>1, SeqAssumption DEF Ticks
<1>2. Safe(c)' = S BY <1>0 DEF Safe
<1>3. Hidden \subseteq S BY SeqAssumption DEF Safe
<1>4. /\ p \in Seq([type : {"event"}, seq : 1..MaxSeq])
      /\ Exactly(p, PageItems(tick.since, tick.top)) /\ p \in Seq(Messages)
  <2>1. p \in Seq([type : {"event"}, seq : 1..MaxSeq]) /\ Exactly(p, PageItems(tick.since, tick.top))
    BY <1>1, PageIs
  <2> HIDE DEF p
  <2> QED BY <2>1, EventIsMessage, SeqMonotonic
<1>5. /\ Chain(d, S) /\ d \in Seq(Messages)
      /\ IsOpen(c) => Reaches(d, S, cursor[c]) /\ Reaches(d, S, tick.since)
  BY <1>0 DEF Follows, Continues
<1> HIDE DEF S, d, p
<1>6. CASE PumpSends
  <2>1. sock' = sock /\ up' = up BY <1>6 DEF PumpSends
  <2>2. CASE ~IsOpen(c)
    <3>1. down'[c] = d /\ ~IsOpen(c)' BY <1>6, <2>1, <2>2 DEF PumpSends, IsOpen, d
    <3> QED BY <1>2, <1>5, <3>1 DEF Follows
  <2>3. CASE IsOpen(c)
    <3>1. down'[c] = d \o p BY <1>0, <1>6, <2>3 DEF PumpSends, d, p
    <3>2. cursor'[c] \in {cursor[c], tick.top} BY <1>0, <1>6 DEF PumpSends, Advances
    <3>3. Chain(d \o p, S) /\ Reaches(d \o p, S, tick.top)
      BY <1>1, <1>3, <1>4, <1>5, <2>3, PageFollows
    <3>4. Reaches(d \o p, S, cursor[c])
      <4>1. Seqs(d) \subseteq Seqs(d \o p) BY <1>4, <1>5, EventsOnTop DEF Seqs
      <4> QED BY <1>5, <2>3, <4>1 DEF Reaches
    <3>5. Resumes(up'[c], seen') /\ Resumes(jobs'[c], seen')
      BY <1>0, <2>1, <2>3 DEF Follows, Continues
    <3>6. Chain(down'[c], Safe(c)') BY <1>2, <3>1, <3>3
    <3>7. Reaches(down'[c], Safe(c)', cursor'[c]) BY <1>2, <3>1, <3>2, <3>3, <3>4
    <3> QED BY <1>0, <3>5, <3>6, <3>7 DEF Follows, Continues
  <2> QED BY <2>2, <2>3
<1>7. CASE PumpOverflows
  <2>1. IsOpen(c) /\ ~IsOpen(c)' BY <1>0, <1>7 DEF PumpOverflows, Gone, IsOpen
  <2>2. PICK k \in DOMAIN p : down'[c] = d \o SubSeq(p, 1, k - 1) BY <1>0, <1>7 DEF PumpOverflows, d, p
  <2> DEFINE q == SubSeq(p, 1, k - 1)
             m == p[k].seq - 1
  <2>3. q \in Seq([type : {"event"}, seq : 1..MaxSeq]) /\ m \in Int /\ Exactly(q, PageItems(tick.since, m))
    BY <1>1, <2>2, PageCut DEF p
  <2> HIDE DEF q, m
  <2>4. q \in Seq(Messages) BY <2>3, EventIsMessage, SeqMonotonic
  <2>5. Chain(d \o q, S) BY <1>1, <1>3, <1>5, <2>1, <2>3, <2>4, PageFollows
  <2> QED BY <1>2, <2>1, <2>2, <2>5 DEF Follows, q
<1> QED BY <1>6, <1>7

LEMMA FollowsServer ==
  ASSUME ServerTypes, ServerTypes', seen \in Nat, seen' = seen, ServerNext, NEW c \in Conns, Follows(c)
  PROVE  Follows(c)'
<1>0. /\ up \in [Conns -> Seq(Frames)] /\ seen' \in Nat /\ seen <= seen'
      /\ sock \in [Conns -> {"new", "open", "closing", "closed"}] /\ tick \in Ticks
      /\ hist \in [Conns -> History] /\ cursor \in [Conns -> Unseeded..MaxSeq]
      /\ down \in [Conns -> Seq(Messages)] /\ jobs \in [Conns -> Seq(GoodJobs(lastSeq))]
      /\ hist[c].start \in Int
  BY StartIs DEF ServerTypes, GoodTick
<1>1. ASSUME UNCHANGED <<up, jobs, cursor, down, hist>>, IsOpen(c)' => IsOpen(c),
             InTick(c)' => (InTick(c) /\ tick'.since = tick.since) \/ tick'.since = cursor[c]
      PROVE  Follows(c)'
  <2>1. hist[c].start <= hist'[c].start BY <1>0, <1>1
  <2>2. IsOpen(c) => Resumes(up[c], seen) /\ Resumes(jobs[c], seen) BY DEF Follows, Continues
  <2> QED BY <1>0, <1>1, <2>1, <2>2, FollowsStays
<1>2. ASSUME hist'[c] = hist[c], down'[c] = down[c],
             IsOpen(c)' => /\ IsOpen(c) /\ up'[c] = up[c] /\ jobs'[c] = jobs[c] /\ cursor'[c] = cursor[c]
                           /\ InTick(c)' => (InTick(c) /\ tick'.since = tick.since) \/ tick'.since = cursor[c]
      PROVE  Follows(c)'
  <2>1. hist[c].start <= hist'[c].start BY <1>0, <1>2
  <2>2. IsOpen(c) => Resumes(up[c], seen) /\ Resumes(jobs[c], seen) BY DEF Follows, Continues
  <2>3. IsOpen(c)' => Resumes(up'[c], seen) /\ Resumes(jobs'[c], seen) BY <1>2, <2>2
  <2> QED BY <1>0, <1>2, <2>1, <2>3, FollowsStays
<1>3. CASE Commit \/ TickStarts \/ PumpReads \/ PumpFails
  <2>1. UNCHANGED <<sock, up, jobs, cursor, down, hist>>
    BY <1>3 DEF Commit, TickStarts, PumpReads, PumpFails
  <2>2. InTick(c)' => InTick(c) /\ tick'.since = tick.since
    BY <1>0, <1>3 DEF Commit, TickStarts, PumpReads, PumpFails, TickMovesOn, InTick, NoTick, Ticks
  <2> QED BY <1>1, <2>1, <2>2 DEF IsOpen
<1>4. ASSUME NEW e \in Conns, TickTakes(e) PROVE Follows(c)'
  <2>1. UNCHANGED <<sock, up, jobs, down, hist>> BY <1>4 DEF TickTakes
  <2>2. IsOpen(c)' => IsOpen(c) /\ cursor'[c] = cursor[c] BY <1>0, <1>4, <2>1 DEF TickTakes, IsOpen
  <2>3. InTick(c)' => tick'.since = cursor[c]
    <3>1. CASE IsOpen(e) /\ Eligible(e)
      <4>1. tick'.conn = e /\ tick'.since = cursor[e] BY <1>0, <1>4, <3>1 DEF TickTakes, Ticks
      <4> QED BY <4>1 DEF InTick
    <3>2. CASE ~(IsOpen(e) /\ Eligible(e))
      <4>1. tick'.phase = "next" BY <1>0, <1>4, <3>2 DEF TickTakes, Ticks
      <4> QED BY <4>1 DEF InTick
    <3> QED BY <3>1, <3>2
  <2>4. hist[c].start <= hist'[c].start BY <1>0, <2>1
  <2>5. IsOpen(c) => Resumes(up[c], seen) /\ Resumes(jobs[c], seen) BY DEF Follows, Continues
  <2> QED BY <1>0, <2>1, <2>2, <2>3, <2>4, <2>5, FollowsStays
<1>5. CASE PumpSends \/ PumpOverflows
  <2>1. CASE c = tick.conn BY <1>5, <2>1, FollowsPump
  <2>2. CASE c # tick.conn
    <3>1. ~InTick(c)' /\ UNCHANGED <<jobs, hist>>
      BY <1>5 DEF PumpSends, PumpOverflows, TickMovesOn, NoTick, InTick
    <3>2. down'[c] = down[c] /\ cursor'[c] = cursor[c] /\ sock'[c] = sock[c] /\ up'[c] = up[c]
      BY <1>0, <1>5, <2>2 DEF PumpSends, PumpOverflows, Advances, Gone
    <3> QED BY <1>2, <3>1, <3>2 DEF IsOpen
  <2> QED BY <2>1, <2>2
<1>6. ASSUME NEW e \in Conns, Finish(e) \/ PresenceExpires(e) PROVE Follows(c)'
  <2>1. UNCHANGED <<tick, jobs, down, hist>> BY <1>6 DEF Finish, PresenceExpires
  <2>2. IsOpen(c)' => IsOpen(c) /\ up'[c] = up[c] /\ cursor'[c] = cursor[c]
    BY <1>0, <1>6 DEF Finish, Gone, PresenceExpires, IsOpen
  <2> QED BY <1>2, <2>1, <2>2 DEF InTick
<1>7. ASSUME NEW e \in Conns, Receive(e) PROVE Follows(c)'
  <2>1. CASE c = e BY <1>7, <2>1, FollowsReceive
  <2>2. CASE c # e
    <3>1. UNCHANGED <<sock, cursor, tick, down>> BY <1>7 DEF Receive
    <3>2. jobs'[c] = jobs[c] /\ hist'[c] = hist[c] /\ up'[c] = up[c] BY <1>0, <1>7, <2>2 DEF Receive
    <3> QED BY <1>2, <3>1, <3>2 DEF InTick, IsOpen
  <2> QED BY <2>1, <2>2
<1>8. ASSUME NEW e \in Conns, JobWork(e) \/ JobFault(e) PROVE Follows(c)'
  <2>1. PICK i \in DOMAIN jobs[e] :
          Authorized(e, i) \/ Reads(e, i) \/ SeedMark(e, i) \/ SendPage(e, i) \/ SetPresence(e, i)
            \/ Refused(e, i) \/ ReadFails(e, i) \/ ResumeOverflows(e, i)
    BY <1>8 DEF JobWork, JobFault
  <2>2. CASE c = e BY <2>1, <2>2, FollowsJob
  <2>3. CASE c # e
    <3>1. tick' = tick /\ jobs'[c] = jobs[c]
      BY <1>0, <2>1, <2>3 DEF Ends, Authorized, Reads, SeedMark, SendPage, SetPresence, Refused,
         ReadFails, ResumeOverflows
    <3>2. hist'[c] = hist[c]
      BY <1>0, <2>1, <2>3 DEF Authorized, Reads, SeedMark, SendPage, SetPresence, Refused,
         ReadFails, ResumeOverflows
    <3>3. cursor'[c] = cursor[c] /\ sock'[c] = sock[c] /\ up'[c] = up[c]
      BY <1>0, <2>1, <2>3 DEF Seeded, Gone, Authorized, Reads, SeedMark, SendPage, SetPresence, Refused,
         ReadFails, ResumeOverflows
    <3>4. down'[c] = down[c]
      BY <1>0, <2>1, <2>3 DEF Authorized, Reads, SeedMark, SendPage, SetPresence, Refused,
         ReadFails, ResumeOverflows
    <3> QED BY <1>2, <3>1, <3>2, <3>3, <3>4 DEF InTick, IsOpen
  <2> QED BY <2>2, <2>3
<1> QED BY <1>3, <1>4, <1>5, <1>6, <1>7, <1>8 DEF ServerNext, TickWork

-----------------------------------------------------------------------------
(* The steps of the client.                                                 *)

LEMMA FeedFacts ==
  ASSUME FeedTypes
  PROVE  /\ ServerTypes /\ ClientTypes /\ seen \in Nat /\ opens \in Nat
         /\ open => opens # 0
         /\ conn # NoConn => conn \in Conns /\ sock[conn] # "new"
         /\ NoConn \notin Conns
<1>1. ServerTypes /\ ClientTypes BY DEF FeedTypes
<1>2. opens \in Nat /\ epoch \in Nat /\ seen \in Nat /\ epoch + (IF open THEN 1 ELSE 0) <= opens
  BY <1>1 DEF ClientTypes
<1> QED BY <1>1, <1>2, NoConnAssumption DEF ClientTypes

\* Nothing of the server but its log changes, and the cursor moves on.
LEMMA QuietKeeps ==
  ASSUME FeedTypes, FeedTypes', FeedInv, seen <= seen',
         UNCHANGED <<sock, up, jobs, cursor, tick, down, hist, opens, open>>
  PROVE  FeedInv'
<1> SUFFICES ASSUME NEW c \in Conns
             PROVE  /\ opens' = 0 \/ sock'[c] = "new" => Untouched(c)'
                    /\ open' /\ opens' = 1 => Follows(c)'
  BY DEF FeedInv
<1>1. ServerTypes /\ ServerTypes' /\ seen \in Nat /\ seen' \in Nat BY FeedFacts DEF FeedTypes, ClientTypes
<1>2. Untouched(c) => Untouched(c)' BY DEF Untouched, InTick
<1>3. ASSUME open, opens = 1 PROVE Follows(c)'
  <2>1. Follows(c) /\ hist[c].start <= hist'[c].start BY <1>1, <1>3, StartIs DEF FeedInv
  <2>2. IsOpen(c) => Resumes(up[c], seen) /\ Resumes(jobs[c], seen) BY <2>1 DEF Follows, Continues
  <2> QED BY <1>1, <2>1, <2>2, FollowsStays DEF IsOpen, InTick
<1> QED BY <1>2, <1>3 DEF FeedInv

\* Frames are sent, or a socket is opened.
LEMMA SendKeeps ==
  ASSUME FeedTypes, FeedTypes', FeedInv, seen' = seen, NEW frames \in Seq(Frames), Resumes(frames, seen),
         UNCHANGED <<sock, jobs, cursor, tick, down, hist, opens>>, open' => open,
         conn # NoConn, open \/ frames = <<>>, SendsOn(conn, frames) \/ UNCHANGED up
  PROVE  FeedInv'
<1> SUFFICES ASSUME NEW c \in Conns
             PROVE  /\ opens' = 0 \/ sock'[c] = "new" => Untouched(c)'
                    /\ open' /\ opens' = 1 => Follows(c)'
  BY DEF FeedInv
<1>1. /\ ServerTypes /\ ServerTypes' /\ seen \in Nat /\ seen' \in Nat /\ seen <= seen'
      /\ up \in [Conns -> Seq(Frames)] /\ conn \in Conns /\ sock[conn] # "new" /\ (open => opens # 0)
  <2>1. /\ ServerTypes /\ seen \in Nat /\ conn \in Conns /\ sock[conn] # "new" /\ (open => opens # 0)
    BY FeedFacts
  <2>2. ServerTypes' BY DEF FeedTypes
  <2>3. up \in [Conns -> Seq(Frames)] BY <2>1 DEF ServerTypes
  <2> QED BY <2>1, <2>2, <2>3
<1>2. up'[c] = up[c] \/ (c = conn /\ up'[c] = up[c] \o frames) BY <1>1 DEF SendsOn
<1>3. opens = 0 \/ sock[c] = "new" => up'[c] = up[c]
  <2>1. up[c] \o <<>> = up[c] BY <1>1, ConcatEmptySeq
  <2> QED BY <1>1, <1>2, <2>1
<1>4. opens = 0 \/ sock[c] = "new" => Untouched(c)' BY <1>3 DEF Untouched, InTick, FeedInv
<1>5. ASSUME open, opens = 1 PROVE Follows(c)'
  <2>1. Follows(c) /\ hist[c].start <= hist'[c].start BY <1>1, <1>5, StartIs DEF FeedInv
  <2>2. ASSUME IsOpen(c) PROVE Resumes(up'[c], seen) /\ Resumes(jobs[c], seen)
    <3>1. Resumes(up[c], seen) /\ Resumes(jobs[c], seen) BY <2>1, <2>2 DEF Follows, Continues
    <3>2. up[c] \in Seq(Frames) /\ Resumes(up[c] \o frames, seen) BY <1>1, <3>1, ResumesOn
    <3> QED BY <1>2, <3>1, <3>2
  <2> QED BY <1>1, <2>1, <2>2, FollowsStays DEF IsOpen, InTick
<1> QED BY <1>4, <1>5

LEMMA ConnectKeeps ==
  ASSUME FeedTypes, FeedTypes', FeedInv, seen' = seen, Connects,
         UNCHANGED <<up, jobs, cursor, tick, down, hist, opens, open>>
  PROVE  FeedInv'
<1> SUFFICES ASSUME NEW c \in Conns
             PROVE  /\ opens' = 0 \/ sock'[c] = "new" => Untouched(c)'
                    /\ open' /\ opens' = 1 => Follows(c)'
  BY DEF FeedInv
<1>1. /\ ServerTypes /\ ServerTypes' /\ ClientTypes /\ seen \in Nat /\ seen' \in Nat /\ seen <= seen'
  BY FeedFacts DEF FeedTypes
<1>2. sock'[c] = sock[c] \/ (sock[c] = "new" /\ sock'[c] = "open") BY <1>1, ConnectsTypes
<1>3. Untouched(c) => Untouched(c)' BY DEF Untouched, InTick
<1>4. ASSUME open, opens = 1, sock'[c] = sock[c] PROVE Follows(c)'
  <2>1. Follows(c) /\ hist[c].start <= hist'[c].start BY <1>1, <1>4, StartIs DEF FeedInv
  <2>2. IsOpen(c) => Resumes(up[c], seen) /\ Resumes(jobs[c], seen) BY <2>1 DEF Follows, Continues
  <2> QED BY <1>1, <1>4, <2>1, <2>2, FollowsStays DEF IsOpen, InTick
<1>5. ASSUME sock[c] = "new" PROVE Follows(c)' BY <1>3, <1>5, UntouchedFollows DEF FeedInv
<1> QED BY <1>2, <1>3, <1>4, <1>5 DEF FeedInv

\* The client leaves its socket, perhaps for a new one.
LEMMA LeaveKeeps ==
  ASSUME FeedTypes, FeedTypes', FeedInv, seen <= seen', Leaves(conn), UNCHANGED <<tick, opens, open>>,
         conn' = NoConn \/ (conn' \in Conns /\ sock[conn'] = "new")
  PROVE  FeedInv'
<1> SUFFICES ASSUME NEW c \in Conns
             PROVE  /\ opens' = 0 \/ sock'[c] = "new" => Untouched(c)'
                    /\ open' /\ opens' = 1 => Follows(c)'
  BY DEF FeedInv
<1>1. ServerTypes /\ ServerTypes' /\ seen \in Nat /\ seen' \in Nat /\ NoConn \notin Conns
  BY FeedFacts DEF FeedTypes, ClientTypes
<1>2. CASE c = conn
  <2>1. /\ sock'[c] = "closed" /\ up'[c] = <<>> /\ down'[c] = <<>> /\ jobs'[c] = <<>>
        /\ cursor'[c] \in {Unseeded, cursor[c]}
    BY <1>2 DEF Leaves
  <2>2. Untouched(c) => Untouched(c)' BY <2>1 DEF Untouched, InTick
  <2>3. Follows(c)' BY <2>1, NothingSent DEF Follows, IsOpen
  <2> QED BY <2>1, <2>2, <2>3 DEF FeedInv
<1>3. CASE c # conn
  <2>1. /\ UNCHANGED <<up[c], down[c], jobs[c], cursor[c], hist[c]>>
        /\ sock'[c] = IF c = conn' THEN "open" ELSE sock[c]
    BY <1>3 DEF Leaves
  <2>2. Untouched(c) => Untouched(c)' BY <2>1 DEF Untouched, InTick
  <2>3. CASE c = conn'
    <3>1. Untouched(c) BY <1>1, <2>3 DEF FeedInv
    <3> QED BY <2>2, <3>1, UntouchedFollows
  <2>4. CASE c # conn'
    <3>1. ASSUME open, opens = 1 PROVE Follows(c)'
      <4>1. Follows(c) /\ hist[c].start <= hist'[c].start BY <1>1, <2>1, <3>1, StartIs DEF FeedInv
      <4>2. IsOpen(c) => Resumes(up[c], seen) /\ Resumes(jobs[c], seen) BY <4>1 DEF Follows, Continues
      <4> QED BY <1>1, <2>1, <2>4, <4>1, <4>2, FollowsStays DEF IsOpen, InTick
    <3> QED BY <2>1, <2>2, <2>4, <3>1 DEF FeedInv
  <2> QED BY <2>3, <2>4
<1> QED BY <1>2, <1>3

\* The first opening finds every socket untouched; at a second one nothing is claimed.
LEMMA OpenKeeps ==
  ASSUME FeedTypes, FeedTypes', FeedInv, OpenSpace
  PROVE  FeedInv'
<1> SUFFICES ASSUME NEW c \in Conns
             PROVE  /\ opens' = 0 \/ sock'[c] = "new" => Untouched(c)'
                    /\ open' /\ opens' = 1 => Follows(c)'
  BY DEF FeedInv
<1> DEFINE frames == <<Frame("subscribe", 0), Frame("resume", seen')>>
<1>1. /\ ServerTypes /\ ClientTypes /\ up \in [Conns -> Seq(Frames)] /\ opens \in Nat /\ opens' = opens + 1
      /\ NoConn \notin Conns /\ (conn # NoConn => conn \in Conns /\ sock[conn] # "new")
  BY FeedFacts DEF OpenSpace, ServerTypes
<1>2. /\ UNCHANGED <<jobs, cursor, tick, down, hist>>
      /\ up'[c] = up[c] \/ (c = conn /\ up'[c] = up[c] \o frames)
  BY <1>1 DEF OpenSpace, Sends, SendsOn
<1>3. sock'[c] = sock[c] \/ (sock[c] = "new" /\ sock'[c] = "open")
  BY <1>1, ConnectsTypes DEF OpenSpace
<1>4. ASSUME sock'[c] = "new" PROVE Untouched(c)'
  <2>1. Untouched(c) /\ c # conn BY <1>1, <1>3, <1>4 DEF FeedInv
  <2> QED BY <1>2, <2>1 DEF Untouched, InTick
<1>5. ASSUME opens = 0 PROVE Follows(c)'
  <2>1. Untouched(c) BY <1>5 DEF FeedInv
  <2>2. Resumes(up'[c], seen')
    <3>1. seen' \in 0..MaxSeq BY DEF FeedTypes, ClientTypes
    <3>2. Resumes(frames, seen')
      <4>1. seen' <= seen' BY <3>1
      <4> QED BY <4>1 DEF Resumes, Frame
    <3>3. frames \in Seq(Frames) /\ <<>> \in Seq(Frames) BY <3>1, FrameIs
    <3> HIDE DEF frames
    <3>4. <<>> \o frames = frames BY <3>3, ConcatEmptySeq
    <3> QED BY <1>2, <2>1, <3>2, <3>4, NothingSent DEF Untouched
  <2>3. jobs'[c] = <<>> /\ down'[c] = <<>> /\ cursor'[c] = Unseeded /\ ~InTick(c)'
    BY <1>2, <2>1 DEF Untouched, InTick
  <2>4. Unseeded \in Int /\ Unseeded <= 0 BY DEF Unseeded
  <2> QED BY <2>2, <2>3, <2>4, NothingSent DEF Follows, Continues
<1> QED BY <1>1, <1>4, <1>5

\* A message is taken off the current socket.
LEMMA ReceiveKeeps ==
  ASSUME FeedTypes, FeedTypes', FeedInv, ReceivesMessage
  PROVE  FeedInv'
<1> SUFFICES ASSUME NEW c \in Conns
             PROVE  /\ opens' = 0 \/ sock'[c] = "new" => Untouched(c)'
                    /\ open' /\ opens' = 1 => Follows(c)'
  BY DEF FeedInv
<1> DEFINE m == Head(down[conn])
<1>1. /\ ServerTypes /\ ServerTypes' /\ seen \in Nat /\ seen' \in Nat /\ conn \in Conns
      /\ sock[conn] # "new" /\ down \in [Conns -> Seq(Messages)] /\ down[conn] # <<>>
      /\ UNCHANGED <<sock, up, jobs, cursor, tick, hist, opens, open>>
  <2>1. ServerTypes /\ ClientTypes /\ seen \in Nat /\ (conn # NoConn => conn \in Conns /\ sock[conn] # "new")
    BY FeedFacts
  <2>2. ServerTypes' /\ seen' \in Nat BY DEF FeedTypes, ClientTypes
  <2>3. conn # NoConn BY <2>1 DEF ClientTypes, ReceivesMessage
  <2>4. down \in [Conns -> Seq(Messages)] BY <2>1 DEF ServerTypes
  <2>5. down[conn] # <<>> /\ UNCHANGED <<sock, up, jobs, cursor, tick, hist, opens, open>>
    BY DEF ReceivesMessage
  <2> QED BY <2>1, <2>2, <2>3, <2>4, <2>5
<1>2. seen' = seen \/ (m.type = "event" /\ m.seq \in Int /\ seen' = AtLeast(seen, m.seq))
  <2>1. m \in Messages BY <1>1, HeadTailProperties
  <2> QED BY <2>1 DEF ReceivesMessage, Messages
<1>3. seen <= seen' /\ (open /\ m.type = "event" => m.seq \in 1..MaxSeq /\ m.seq <= seen')
  <2>1. m \in Messages BY <1>1, HeadTailProperties
  <2>2. m.type = "event" => m.seq \in 1..MaxSeq BY <2>1 DEF Messages
  <2>3. m.type = "event" /\ open => seen' = AtLeast(seen, m.seq) BY DEF ReceivesMessage
  <2> HIDE DEF m
  <2>4. seen <= seen' BY <1>1, <1>2 DEF AtLeast
  <2>5. open /\ m.type = "event" => m.seq <= seen' BY <1>1, <2>2, <2>3 DEF AtLeast
  <2> QED BY <2>2, <2>4, <2>5
<1>4. down'[c] = IF c = conn THEN Tail(down[c]) ELSE down[c] BY <1>1 DEF ReceivesMessage
<1>5. ASSUME opens' = 0 \/ sock'[c] = "new" PROVE Untouched(c)'
  <2>1. ~Untouched(conn) BY <1>1 DEF Untouched
  <2>2. Untouched(c) /\ c # conn BY <1>1, <1>5, <2>1 DEF FeedInv
  <2> QED BY <1>1, <1>4, <2>2 DEF Untouched, InTick
<1>6. ASSUME open, opens = 1 PROVE Follows(c)'
  <2>1. Follows(c) /\ hist[c].start <= hist'[c].start BY <1>1, <1>6, StartIs DEF FeedInv
  <2>2. IsOpen(c) => Resumes(up[c], seen) /\ Resumes(jobs[c], seen) BY <2>1 DEF Follows, Continues
  <2>3. CASE c # conn BY <1>1, <1>3, <1>4, <2>1, <2>2, <2>3, FollowsStays DEF IsOpen, InTick
  <2>4. CASE c = conn
    <3> DEFINE S == Safe(c)
               T == Safe(c)'
               d == down[c]
    <3>1. S \subseteq T BY <1>1, <1>3, <2>1, SafeGrows
    <3>2. Head(d).type = "event" => Head(d).seq \in T BY <1>3, <1>6, <2>4 DEF Safe
    <3>3. /\ d \in Seq(Messages) /\ d # <<>> /\ down'[c] = Tail(d) /\ Chain(d, S)
          /\ IsOpen(c) => Reaches(d, S, cursor[c]) /\ (InTick(c) => Reaches(d, S, tick.since))
      BY <1>1, <1>4, <2>1, <2>4 DEF Follows, Continues
    <3> HIDE DEF S, T, d
    <3>4. Chain(Tail(d), T) /\ \A n : Reaches(d, S, n) => Reaches(Tail(d), T, n)
      BY <3>1, <3>2, <3>3, RestFollows
    <3>5. ASSUME IsOpen(c) PROVE Resumes(up'[c], seen') /\ Resumes(jobs'[c], seen')
      <4>1. up[c] \in Seq(Frames) /\ jobs[c] \in Seq(GoodJobs(lastSeq)) BY <1>1 DEF ServerTypes
      <4>2. \A x \in Frames : x.since \in Int BY DEF Frames
      <4>3. \A x \in GoodJobs(lastSeq) : x.since \in Int BY DEF GoodJobs, Job
      <4>4. \A i \in DOMAIN up[c] : up[c][i].since \in Int BY <4>1, <4>2, RowOf
      <4>5. \A i \in DOMAIN jobs[c] : jobs[c][i].since \in Int BY <4>1, <4>3, RowOf
      <4>6. \A n \in Int : n <= seen => n <= seen' BY <1>1, <1>3
      <4> QED BY <1>1, <2>2, <3>5, <4>4, <4>5, <4>6 DEF Resumes
    <3>6. IsOpen(c)' => Continues(c)' BY <1>1, <3>3, <3>4, <3>5 DEF Continues, IsOpen, InTick, T
    <3> QED BY <3>3, <3>4, <3>6 DEF Follows, T
  <2> QED BY <2>3, <2>4
<1> QED BY <1>1, <1>5, <1>6

LEMMA FeedInvStep ==
  ASSUME FeedTypes, FeedTypes', FeedInv, [FeedNext]_vars
  PROVE  FeedInv'
<1>1. /\ ServerTypes /\ ServerTypes' /\ ClientTypes /\ seen \in Nat /\ seen' \in Nat /\ seen <= seen
      /\ (ready => conn # NoConn) /\ (open => opens # 0)
  <2>1. ClientTypes' BY DEF FeedTypes
  <2>2. seen' \in Nat BY <2>1 DEF ClientTypes
  <2> QED BY <2>2, FeedFacts DEF FeedTypes, ClientTypes
<1>2. <<>> \in Seq(Frames) /\ Resumes(<<>>, seen) BY NothingSent
<1>3. CASE ServerNext /\ UNCHANGED clientVars
  <2>1. UNCHANGED <<seen, opens, open>> BY <1>3 DEF clientVars
  <2> SUFFICES ASSUME NEW c \in Conns
               PROVE  /\ opens' = 0 \/ sock'[c] = "new" => Untouched(c)'
                      /\ open' /\ opens' = 1 => Follows(c)'
    BY DEF FeedInv
  <2>2. open /\ opens = 1 => Follows(c)' BY <1>1, <1>3, <2>1, FollowsServer DEF FeedInv
  <2>3. sock'[c] = "new" => sock[c] = "new" BY <1>1, <1>3, SocketsStay
  <2>4. Untouched(c) => Untouched(c)' BY <1>1, <1>3, UntouchedStays
  <2> QED BY <2>1, <2>2, <2>3, <2>4 DEF FeedInv
<1>4. CASE UNCHANGED vars
  <2>1. seen' = seen /\ UNCHANGED <<sock, up, jobs, cursor, tick, down, hist, opens, open>>
    BY <1>4 DEF vars, serverVars, clientVars
  <2> QED BY <1>1, <2>1, QuietKeeps
<1>5. CASE PollTimerFires \/ PollReads \/ PollFails \/ ProbeStarts \/ ProbeReads \/ ProbeFails
  <2>1. seen' = seen /\ UNCHANGED <<sock, up, jobs, cursor, tick, down, hist, opens, open>>
    BY <1>5 DEF PollTimerFires, PollReads, PollFails, ProbeStarts, ProbeReads, ProbeFails, serverVars
  <2> QED BY <1>1, <2>1, QuietKeeps
<1>6. CASE PollAnswers
  <2>1. UNCHANGED <<sock, up, jobs, cursor, tick, down, hist, opens, open>>
    BY <1>6 DEF PollAnswers, serverVars
  <2>2. seen <= seen'
    <3>1. seen' = seen \/ seen' = AtLeast(poll.top, seen) BY <1>6 DEF PollAnswers, PollCursor
    <3>2. poll.top \in Int BY <1>1 DEF ClientTypes, AsksBehind, Request
    <3> QED BY <1>1, <3>1, <3>2 DEF AtLeast
  <2> QED BY <2>1, <2>2, QuietKeeps
<1>7. CASE ProbeAnswers
  <2> DEFINE items == PageItems(probe.since, probe.top)
  <2>1. seen <= seen'
    <3>1. seen' = seen \/ seen' = LastOr(items, seen) BY <1>7 DEF ProbeAnswers
    <3>2. items \in SUBSET (1..MaxSeq) /\ seen \in 0..MaxSeq
      BY <1>1, PageOf DEF ClientTypes, AsksBehind
    <3> HIDE DEF items
    <3> QED BY <1>1, <3>1, <3>2, LastIs
  <2>2. CASE items # {}
    <3>1. Leaves(conn) /\ conn' = NoConn /\ UNCHANGED <<tick, opens, open>>
      BY <1>7, <2>2 DEF ProbeAnswers, Closes
    <3> QED BY <2>1, <3>1, LeaveKeeps
  <2>3. CASE items = {}
    <3>1. UNCHANGED <<sock, up, jobs, cursor, tick, down, hist, opens, open>>
      BY <1>7, <2>3 DEF ProbeAnswers
    <3> QED BY <2>1, <3>1, QuietKeeps
  <2> QED BY <2>2, <2>3
<1>8. CASE ReplaceSocket
  <2>1. Leaves(conn) /\ UNCHANGED <<tick, opens, open, seen>> /\ conn' \in Conns /\ sock[conn'] = "new"
    BY <1>8 DEF ReplaceSocket, Fresh
  <2> QED BY <1>1, <2>1, LeaveKeeps
<1>9. CASE LosesSocket
  <2>1. Leaves(conn) /\ UNCHANGED <<tick, opens, open, seen>> /\ conn' = NoConn
    BY <1>9 DEF LosesSocket, Closes
  <2> QED BY <1>1, <2>1, LeaveKeeps
<1>10. CASE Reconnects \/ Foreground
  <2>1. Connects /\ seen' = seen /\ UNCHANGED <<up, jobs, cursor, tick, down, hist, opens, open>>
    BY <1>10 DEF Reconnects, Foreground
  <2> QED BY <2>1, ConnectKeeps
<1>11. CASE CloseSpace \/ AcceleratesFires \/ HandleOpen
  <2>1. seen' = seen /\ UNCHANGED <<sock, jobs, cursor, tick, down, hist, opens>> /\ (open' => open)
    BY <1>11 DEF CloseSpace, AcceleratesFires, HandleOpen
  <2>2. \E frames \in Seq(Frames) :
          /\ Resumes(frames, seen) /\ (open \/ frames = <<>>)
          /\ (conn # NoConn /\ SendsOn(conn, frames)) \/ UNCHANGED up
    <3>1. /\ <<Frame("subscribe", 0), Frame("resume", seen)>> \in Seq(Frames)
          /\ <<Frame("resume", seen)>> \in Seq(Frames) /\ <<Frame("unsubscribe", 0)>> \in Seq(Frames)
      <4>1. seen \in 0..MaxSeq BY <1>1 DEF ClientTypes
      <4> QED BY <4>1, FrameIs
    <3>2. /\ Resumes(<<Frame("subscribe", 0), Frame("resume", seen)>>, seen)
          /\ Resumes(<<Frame("resume", seen)>>, seen) /\ Resumes(<<Frame("unsubscribe", 0)>>, seen)
      BY <1>1 DEF Resumes, Frame
    <3>3. CASE CloseSpace BY <1>1, <3>1, <3>2, <3>3 DEF CloseSpace, Sends
    <3>4. CASE AcceleratesFires BY <1>1, <1>2, <3>1, <3>2, <3>4 DEF AcceleratesFires, Sends
    <3>5. CASE HandleOpen BY <1>2, <3>1, <3>2, <3>5 DEF HandleOpen
    <3> QED BY <1>11, <3>3, <3>4, <3>5
  <2>3. PICK frames \in Seq(Frames) :
          /\ Resumes(frames, seen) /\ (open \/ frames = <<>>)
          /\ (conn # NoConn /\ SendsOn(conn, frames)) \/ UNCHANGED up
    BY <2>2
  <2>4. CASE conn # NoConn BY <2>1, <2>3, <2>4, SendKeeps
  <2>5. CASE conn = NoConn
    <3>1. UNCHANGED up BY <2>3, <2>5
    <3>2. CASE open' = open
      <4>1. seen <= seen' BY <1>1, <2>1
      <4> QED BY <2>1, <3>1, <3>2, <4>1, QuietKeeps
    <3>3. CASE ~open'
      <4>1. \A c \in Conns : Untouched(c) => Untouched(c)' BY <2>1, <3>1 DEF Untouched, InTick
      <4> QED BY <2>1, <3>3, <4>1 DEF FeedInv
    <3> QED BY <1>11, <3>2, <3>3 DEF CloseSpace, AcceleratesFires, HandleOpen
  <2> QED BY <2>4, <2>5
<1> QED BY <1>3, <1>4, <1>5, <1>6, <1>7, <1>8, <1>9, <1>10, <1>11, OpenKeeps, ReceiveKeeps
    DEF FeedNext, ClientNext, ClientWork

\* A page that is answered leaves out no row that a client may read.
LEMMA PageMissesNothing ==
  ASSUME NEW request \in Request, seen \in 0..MaxSeq, Filed(applied, seen), request.since <= seen,
         Applies(PageItems(request.since, request.top), seen), base \in 0..MaxSeq, base' = base,
         seen' \in 0..MaxSeq, seen' <= request.top \/ seen' = seen
  PROVE  Missing' \subseteq Missing
<1> DEFINE items == PageItems(request.since, request.top)
<1> SUFFICES ASSUME NEW e \in Missing' PROVE e \in Missing OBVIOUS
<1>1. e \in Int /\ e > base /\ e <= seen' /\ e \notin Hidden /\ e \notin {applied'[i] : i \in DOMAIN applied'}
  BY DEF Missing
<1>2. /\ items \in SUBSET (1..MaxSeq) /\ \A x \in items : x <= request.top
      /\ request.top \in 0..MaxSeq /\ request.since \in 0..MaxSeq
  BY PageOf
<1>3. {applied'[i] : i \in DOMAIN applied'} =
        {applied[i] : i \in DOMAIN applied} \cup {x \in items : x > seen}
  <2> DEFINE n == IF request.top < seen THEN seen ELSE request.top
  <2>1. n \in 0..MaxSeq /\ n >= seen /\ \A x \in items : x <= n BY <1>2
  <2> HIDE DEF items, n
  <2>2. Applies(items, seen) BY DEF items
  <2> QED BY <1>2, <2>1, <2>2, AppliesIs
<1>4. e <= seen
  <2> SUFFICES ASSUME e > seen PROVE FALSE BY <1>1
  <2>1. e <= request.top /\ e > request.since BY <1>1, <1>2
  <2>2. e \in items BY <1>1, <1>2, <2>1 DEF PageItems
  <2> QED BY <1>1, <1>3, <2>2
<1>5. \A i \in DOMAIN applied : applied[i] # e BY <1>1, <1>3
<1>6. e \in (base + 1)..seen BY <1>1, <1>4
<1> QED BY <1>1, <1>5, <1>6 DEF Missing

LEMMA LossStep ==
  ASSUME FeedTypes, FeedTypes', FeedInv, FeedNext, opens = 1, NEW e \in Missing' \ Missing
  PROVE  conn # NoConn /\ e <= hist[conn].start
<1>1. /\ ServerTypes /\ ClientTypes /\ seen \in 0..MaxSeq /\ seen' \in 0..MaxSeq /\ base \in 0..MaxSeq
      /\ Filed(applied, seen) /\ poll \in Request /\ probe \in Request
      /\ poll.since <= seen /\ probe.since <= seen
  BY DEF FeedTypes, ClientTypes, AsksBehind
<1>2. CASE UNCHANGED <<seen, base, applied>> BY <1>2 DEF Missing
<1>3. CASE OpenSpace
  <2>1. seen' = AtLeast(seen, seen) /\ base' = base /\ applied' = applied BY <1>3 DEF OpenSpace
  <2>2. seen' = seen BY <2>1 DEF AtLeast
  <2> QED BY <1>2, <2>1, <2>2
<1>4. CASE PollAnswers
  <2>1. CASE PollIsCurrent
    <3>1. /\ Applies(PageItems(poll.since, poll.top), seen) /\ seen' = AtLeast(poll.top, seen)
          /\ base' = base
      BY <1>4, <2>1 DEF PollAnswers, PollCursor
    <3>2. seen' <= poll.top \/ seen' = seen
      <4>1. poll.top \in 0..MaxSeq BY <1>1, PageOf
      <4> QED BY <1>1, <3>1, <4>1 DEF AtLeast
    <3> QED BY <1>1, <3>1, <3>2, PageMissesNothing
  <2>2. CASE ~PollIsCurrent BY <1>2, <1>4, <2>2 DEF PollAnswers
  <2> QED BY <2>1, <2>2
<1>5. CASE ProbeAnswers
  <2> DEFINE items == PageItems(probe.since, probe.top)
  <2>1. CASE open
    <3>1. Applies(items, seen) /\ seen' = LastOr(items, seen) /\ base' = base
      BY <1>5, <2>1 DEF ProbeAnswers
    <3>2. seen' <= probe.top \/ seen' = seen
      <4>1. items \in SUBSET (1..MaxSeq) /\ \A x \in items : x <= probe.top BY <1>1, PageOf
      <4> HIDE DEF items
      <4>2. seen' \in items \cup {seen} BY <1>1, <3>1, <4>1, LastIs
      <4> QED BY <4>1, <4>2
    <3> QED BY <1>1, <3>1, <3>2, PageMissesNothing
  <2>2. CASE ~open BY <1>2, <1>5, <2>2 DEF ProbeAnswers
  <2> QED BY <2>1, <2>2
<1>6. CASE ReceivesMessage
  <2> DEFINE m == Head(down[conn])
             d == down[conn]
  <2>1. CASE ~(m.type = "event" /\ open) BY <1>2, <1>6, <2>1 DEF ReceivesMessage
  <2>2. CASE m.type = "event" /\ open
    <3>1. conn # NoConn /\ conn \in Conns /\ d \in Seq(Messages) /\ d # <<>>
      <4>1. conn # NoConn BY <1>1, <1>6 DEF ReceivesMessage, ClientTypes
      <4> QED BY <1>1, <1>6, <4>1 DEF ReceivesMessage, ClientTypes, ServerTypes
    <3>2. /\ Applies({m.seq}, seen) /\ seen' = AtLeast(seen, m.seq) /\ base' = base
      BY <1>6, <2>2 DEF ReceivesMessage
    <3>3. m \in Messages /\ m = d[1] /\ 1 \in DOMAIN d
      BY <3>1, HeadTailProperties, EmptySeq, LenProperties
    <3>4. m.seq \in 1..MaxSeq BY <2>2, <3>3 DEF Messages
    <3>5. Chain(d, Safe(conn)) BY <2>2, <3>1 DEF FeedInv, Follows
    <3>6. 1 \in EventsOf(d) /\ \A i \in EventsOf(d) : i \in Nat /\ ~(i < 1)
      <4>1. DOMAIN d = 1..Len(d) /\ Len(d) \in Nat BY <3>1, LenProperties
      <4> QED BY <2>2, <3>3, <4>1 DEF EventsOf
    <3>7. /\ e \in Int /\ e >= 1 /\ e > base /\ e <= seen' /\ e \notin Hidden
          /\ e \notin {applied'[i] : i \in DOMAIN applied'}
      BY <1>1, <3>2 DEF Missing
    <3> DEFINE s == m.seq
    <3>8. {applied'[i] : i \in DOMAIN applied'} =
            {applied[i] : i \in DOMAIN applied} \cup {x \in {s} : x > seen}
      <4> DEFINE n == IF s < seen THEN seen ELSE s
      <4>1. n \in 0..MaxSeq /\ n >= seen /\ {s} \in SUBSET (1..MaxSeq) /\ \A x \in {s} : x <= n
        BY <1>1, <3>4
      <4>2. Applies({s}, seen) BY <3>2
      <4> HIDE DEF s, n
      <4> QED BY <1>1, <4>1, <4>2, AppliesIs
    <3>9. e > seen
      <4>1. \A i \in DOMAIN applied : applied[i] # e BY <3>7, <3>8
      <4>2. ~(e \in (base + 1)..seen) BY <3>7, <4>1 DEF Missing
      <4> QED BY <1>1, <3>7, <4>2
    <3>10. e < s /\ s \in Int
      <4>1. s \in 1..MaxSeq /\ seen' = AtLeast(seen, s) BY <3>2, <3>4
      <4>2. e # s BY <3>7, <3>8, <3>9
      <4> HIDE DEF s
      <4> QED BY <1>1, <3>7, <3>9, <4>1, <4>2 DEF AtLeast
    <3>11. e \in Safe(conn)
      <4>1. d[1].seq = s BY <3>3
      <4> HIDE DEF s, d
      <4>2. e \in 1..(d[1].seq - 1) BY <3>7, <3>10, <4>1
      <4>3. e \in Safe(conn) \/ \E j \in EventsOf(d) : j < 1 /\ d[j].seq = e
        BY <3>5, <3>6, <4>2 DEF Chain
      <4> QED BY <3>6, <4>3
    <3>12. ~(e <= seen) BY <1>1, <3>7, <3>9
    <3> QED BY <3>1, <3>7, <3>11, <3>12 DEF Safe
  <2> QED BY <2>1, <2>2
<1>7. CASE ServerNext /\ UNCHANGED clientVars BY <1>2, <1>7 DEF clientVars
<1>8. CASE HandleOpen \/ AcceleratesFires \/ PollTimerFires \/ PollReads \/ ProbeStarts \/ ProbeReads
           \/ Reconnects \/ CloseSpace \/ Foreground \/ ReplaceSocket \/ LosesSocket \/ PollFails
           \/ ProbeFails
  BY <1>2, <1>8 DEF HandleOpen, AcceleratesFires, PollTimerFires, PollReads, ProbeStarts, ProbeReads,
     Reconnects, CloseSpace, Foreground, ReplaceSocket, LosesSocket, PollFails, ProbeFails
<1> QED BY <1>3, <1>4, <1>5, <1>6, <1>7, <1>8 DEF FeedNext, ClientNext, ClientWork

\* Until the space is opened a second time, no step of the client, the network or the
\* server makes the client pass over a readable row, unless the row is at or below the
\* mark its connection went live at by a subscribe.
THEOREM NothingElseLoses == FeedSpec => OnlySubscribesLose
<1>1. FeedTypes /\ [FeedNext]_vars => FeedTypes' BY FeedTypesStep
<1>2. FeedInit => FeedInv
  <2> SUFFICES ASSUME FeedInit PROVE FeedInv OBVIOUS
  <2>1. \A c \in Conns : Untouched(c) BY DEF FeedInit, ServerInit, Untouched, InTick, NoTick
  <2>2. ~open BY DEF FeedInit, ClientInit
  <2> QED BY <2>1, <2>2 DEF FeedInv
<1>3. FeedTypes /\ FeedTypes' /\ FeedInv /\ [FeedNext]_vars => FeedInv' BY FeedInvStep
<1>4. FeedTypes /\ FeedTypes' /\ FeedInv /\ [FeedNext]_vars =>
        [opens = 1 => \A e \in Missing' \ Missing : conn # NoConn /\ e <= hist[conn].start]_vars
  BY LossStep
<1> QED BY <1>1, <1>2, <1>3, <1>4, FeedStarts, PTL DEF FeedSpec, OnlySubscribesLose
=============================================================================
