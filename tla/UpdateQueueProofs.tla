-------------------------- MODULE UpdateQueueProofs --------------------------
(***************************************************************************)
(* Proofs about UpdateQueue for every set of producers and owners and      *)
(* every depth of nesting: callbacks keep their order and are neither lost *)
(* nor duplicated, none crosses a shutdown, none runs on a destroyed       *)
(* owner, and a freeze holds back what it should.  The first part reasons  *)
(* about the lanes as plain sequences, the second about the actions.       *)
(***************************************************************************)
EXTENDS UpdateQueue, SequenceTheorems, TLAPS

-----------------------------------------------------------------------------
(* The lanes, one condition per pair of them.                              *)

Sorted(s) == \A j, k \in DOMAIN s : j < k => s[j].id < s[k].id

\* Every callback of s was accepted before every callback of t.
Before(s, t) == \A j \in DOMAIN s, k \in DOMAIN t : s[j].id < t[k].id

\* OrderKept of the batches B, the queue P and the freeze buffer F.
InOrder(B, P, F) ==
    /\ \A d \in DOMAIN B : Sorted(B[d]) /\ Before(B[d], P) /\ Before(B[d], F)
    /\ \A c, d \in DOMAIN B : c < d => Before(B[c], B[d])
    /\ Sorted(P) /\ Sorted(F) /\ Before(P, F)

\* The entries of the batches B, the queue P and the freeze buffer F.
Members(B, P, F) == (UNION {Range(B[d]) : d \in DOMAIN B}) \cup Range(P) \cup Range(F)

\* The heads of the batches but the innermost, and of that one too if r.
Heads(B, r) == {Head(B[d]) : d \in {c \in DOMAIN B : c < Len(B) \/ r}}

\* Sets with the same elements are equal.
LEMMA SameSet ==
    ASSUME NEW S, NEW T, \A e : e \in S <=> e \in T
    PROVE  S = T
  OBVIOUS

\* A lane is indexed from 1 and holds entries.
LEMMA LaneHoldsEntries ==
    ASSUME NEW s \in Seq(Entries)
    PROVE  /\ Len(s) \in Nat /\ DOMAIN s = 1..Len(s) /\ DOMAIN s \subseteq Nat
           /\ \A k \in DOMAIN s : s[k] \in Entries /\ s[k].id \in Ids
<1>1. Len(s) \in Nat /\ DOMAIN s = 1..Len(s) /\ \A k \in DOMAIN s : s[k] \in Entries
  OBVIOUS
<1>2. \A e \in Entries : e.id \in Ids
  BY DEF Entries
<1> QED
  BY <1>1, <1>2

\* Two sequences of a set, one behind the other.
LEMMA Concat ==
    ASSUME NEW S, NEW s \in Seq(S), NEW t \in Seq(S)
    PROVE  /\ s \o t \in Seq(S)
           /\ Len(s) \in Nat /\ Len(t) \in Nat /\ Len(s \o t) = Len(s) + Len(t)
           /\ DOMAIN s = 1..Len(s) /\ DOMAIN (s \o t) = 1..(Len(s) + Len(t))
           /\ \A d \in 1..(Len(s) + Len(t)) :
                  (s \o t)[d] = IF d <= Len(s) THEN s[d] ELSE t[d - Len(s)]
  OBVIOUS

\* The lanes of the code are the batches, then the queue, then the buffer.
LEMMA LanesAre ==
    ASSUME NEW B \in Seq(Seq(Entries)), NEW P \in Seq(Entries), NEW F \in Seq(Entries),
           NEW L, L = B \o <<P, F>>
    PROVE  /\ DOMAIN L = 1..(Len(B) + 2) /\ DOMAIN B = 1..Len(B) /\ Len(B) \in Nat
           /\ \A d \in 1..Len(B) : L[d] = B[d]
           /\ L[Len(B) + 1] = P
           /\ L[Len(B) + 2] = F
<1>1. PICK T : T = <<P, F>>
  OBVIOUS
<1>2. T \in Seq(Seq(Entries)) /\ Len(T) = 2 /\ T[1] = P /\ T[2] = F
  BY <1>1
<1>3. /\ Len(B) \in Nat /\ DOMAIN B = 1..Len(B) /\ DOMAIN L = 1..(Len(B) + 2)
      /\ \A d \in 1..(Len(B) + 2) : L[d] = IF d <= Len(B) THEN B[d] ELSE T[d - Len(B)]
  BY <1>1, <1>2, Concat
<1> QED
  BY <1>2, <1>3

\* OrderKept and Unfinished of the sequence of lanes L.
Ordered(L) ==
    \A c, d \in DOMAIN L : \A j \in DOMAIN L[c], k \in DOMAIN L[d] :
        c < d \/ (c = d /\ j < k) => L[c][j].id < L[d][k].id
EntriesOf(L) == UNION {Range(L[d]) : d \in DOMAIN L}

\* The order of the lanes, lane by lane.
LEMMA OrderByLane ==
    ASSUME NEW B \in Seq(Seq(Entries)), NEW P \in Seq(Entries), NEW F \in Seq(Entries),
           NEW L, L = B \o <<P, F>>, InOrder(B, P, F)
    PROVE  Ordered(L)
<1>1. PICK n : n = Len(B)
  OBVIOUS
<1>2. /\ DOMAIN L = 1..(n + 2) /\ DOMAIN B = 1..n /\ n \in Nat
      /\ \A d \in 1..n : L[d] = B[d]
      /\ L[n + 1] = P /\ L[n + 2] = F
  BY <1>1, LanesAre
<1>3. \A d \in 1..(n + 2) : d \in 1..n \/ d = n + 1 \/ d = n + 2
  BY <1>2
<1>4. \A d \in 1..(n + 2) : Sorted(L[d])
  BY <1>2, <1>3 DEF InOrder
<1>5. \A c, d \in 1..(n + 2) : c < d => Before(L[c], L[d])
  <2> SUFFICES ASSUME NEW c \in 1..(n + 2), NEW d \in 1..(n + 2), c < d
               PROVE  Before(L[c], L[d])
    OBVIOUS
  <2>1. \/ c \in 1..n /\ d \in 1..n
        \/ c \in 1..n /\ d = n + 1
        \/ c \in 1..n /\ d = n + 2
        \/ c = n + 1 /\ d = n + 2
    BY <1>2
  <2> QED
    BY <1>2, <2>1 DEF InOrder
<1>6. DOMAIN L = 1..(n + 2)
  BY <1>2
<1> SUFFICES ASSUME NEW c \in DOMAIN L, NEW d \in DOMAIN L,
                    NEW j \in DOMAIN L[c], NEW k \in DOMAIN L[d], c < d \/ (c = d /\ j < k)
             PROVE  L[c][j].id < L[d][k].id
  BY Zenon DEF Ordered
<1>7. CASE c < d
  BY <1>5, <1>6, <1>7 DEF Before
<1>8. CASE c = d /\ j < k
  BY <1>4, <1>6, <1>8 DEF Sorted
<1> QED
  BY <1>7, <1>8

\* The entries of the lanes, lane by lane.
LEMMA MembersByLane ==
    ASSUME NEW B \in Seq(Seq(Entries)), NEW P \in Seq(Entries), NEW F \in Seq(Entries),
           NEW L, L = B \o <<P, F>>
    PROVE  EntriesOf(L) = Members(B, P, F)
<1>1. PICK n : n = Len(B)
  OBVIOUS
<1>2. /\ DOMAIN L = 1..(n + 2) /\ DOMAIN B = 1..n /\ n \in Nat
      /\ \A d \in 1..n : L[d] = B[d]
      /\ L[n + 1] = P /\ L[n + 2] = F
  BY <1>1, LanesAre
<1>3. \A d \in 1..(n + 2) : d \in 1..n \/ d = n + 1 \/ d = n + 2
  BY <1>2
<1>4. n + 1 \in 1..(n + 2) /\ n + 2 \in 1..(n + 2) /\ \A d \in 1..n : d \in 1..(n + 2)
  BY <1>2
<1>5. PICK U : U = UNION {Range(L[d]) : d \in 1..(n + 2)}
  OBVIOUS
<1>6. ASSUME NEW e
      PROVE  e \in U <=>
                 \/ \E d \in 1..n : e \in Range(B[d])
                 \/ e \in Range(P) \/ e \in Range(F)
  <2>1. e \in U <=> \E d \in 1..(n + 2) : e \in Range(L[d])
    BY <1>5
  <2> QED
    BY <1>2, <1>3, <1>4, <2>1
<1>7. ASSUME NEW e
      PROVE  e \in Members(B, P, F) <=>
                 \/ \E d \in 1..n : e \in Range(B[d])
                 \/ e \in Range(P) \/ e \in Range(F)
  BY <1>2 DEF Members
<1>8. \A e : e \in U <=> e \in Members(B, P, F)
  BY <1>6, <1>7
<1> QED
  BY <1>2, <1>5, <1>8, SameSet DEF EntriesOf

\* An entry of one of the batches B.
InBatches(B, e) == \E d \in DOMAIN B : e \in Range(B[d])

\* What it is to be an entry of a lane.
LEMMA MembersAre ==
    ASSUME NEW B, NEW P, NEW F, NEW e
    PROVE  e \in Members(B, P, F) <=> InBatches(B, e) \/ e \in Range(P) \/ e \in Range(F)
  BY DEF Members, InBatches

\* An id names one entry of the lanes.
LEMMA IdsAreUnique ==
    ASSUME NEW B \in Seq(Seq(Entries)), NEW P \in Seq(Entries), NEW F \in Seq(Entries),
           InOrder(B, P, F),
           NEW e \in Members(B, P, F), NEW f \in Members(B, P, F), e.id = f.id
    PROVE  e = f
<1>0. \A i, j \in Ids : ~(i < j /\ i = j) /\ (i < j \/ i = j \/ j < i)
  BY BoundsAssumption DEF Ids
<1>1. \A d \in DOMAIN B : DOMAIN B[d] \subseteq Nat /\ \A k \in DOMAIN B[d] : B[d][k].id \in Ids
  <2>1. \A d \in DOMAIN B : B[d] \in Seq(Entries)
    OBVIOUS
  <2> QED
    BY <2>1, LaneHoldsEntries
<1>2. DOMAIN P \subseteq Nat /\ DOMAIN F \subseteq Nat /\ DOMAIN B \subseteq Nat
  OBVIOUS
<1>3. /\ \A k \in DOMAIN P : P[k].id \in Ids
      /\ \A k \in DOMAIN F : F[k].id \in Ids
  BY LaneHoldsEntries
<1>4. ASSUME NEW s, DOMAIN s \subseteq Nat, Sorted(s), \A k \in DOMAIN s : s[k].id \in Ids,
             NEW j \in DOMAIN s, NEW k \in DOMAIN s, s[j].id = s[k].id
      PROVE  s[j] = s[k]
  <2>1. j < k \/ j = k \/ k < j
    BY <1>4
  <2> QED
    BY <1>0, <1>4, <2>1 DEF Sorted
<1>5. ASSUME NEW s, NEW t, Before(s, t), NEW j \in DOMAIN s, NEW k \in DOMAIN t,
             s[j].id \in Ids, t[k].id \in Ids
      PROVE  s[j].id # t[k].id
  <2>1. s[j].id < t[k].id
    BY <1>5 DEF Before
  <2> QED
    BY <1>0, <1>5, <2>1
<1>6. CASE InBatches(B, e) /\ InBatches(B, f)
  <2>1. PICK c \in DOMAIN B : \E k \in DOMAIN B[c] : e = B[c][k]
    BY <1>6 DEF InBatches, Range
  <2>2. PICK d \in DOMAIN B : \E k \in DOMAIN B[d] : f = B[d][k]
    BY <1>6 DEF InBatches, Range
  <2>3. PICK j \in DOMAIN B[c] : e = B[c][j]
    BY <2>1
  <2>4. PICK k \in DOMAIN B[d] : f = B[d][k]
    BY <2>2
  <2>5. c < d \/ c = d \/ d < c
    BY <1>2
  <2>6. CASE c = d
    BY <1>1, <1>4, <2>3, <2>4, <2>6 DEF InOrder
  <2>7. CASE c < d
    <3>1. Before(B[c], B[d])
      BY <2>7 DEF InOrder
    <3>2. B[c][j].id < B[d][k].id /\ B[c][j].id \in Ids /\ B[d][k].id \in Ids
      BY <1>1, <3>1 DEF Before
    <3> QED
      BY <1>0, <2>3, <2>4, <3>2
  <2>8. CASE d < c
    <3>1. Before(B[d], B[c])
      BY <2>8 DEF InOrder
    <3>2. B[d][k].id < B[c][j].id /\ B[c][j].id \in Ids /\ B[d][k].id \in Ids
      BY <1>1, <3>1 DEF Before
    <3> QED
      BY <1>0, <2>3, <2>4, <3>2
  <2> QED
    BY <2>5, <2>6, <2>7, <2>8
<1>7. ASSUME NEW d \in DOMAIN B, NEW k \in DOMAIN B[d]
      PROVE  /\ \A n \in DOMAIN P : B[d][k].id # P[n].id
             /\ \A n \in DOMAIN F : B[d][k].id # F[n].id
  <2>1. Before(B[d], P) /\ Before(B[d], F)
    BY DEF InOrder
  <2>2. B[d][k].id \in Ids
    BY <1>1
  <2>3. ASSUME NEW n \in DOMAIN P PROVE B[d][k].id # P[n].id
    <3>1. P[n].id \in Ids
      BY <1>3
    <3> QED
      BY <1>5, <2>1, <2>2, <3>1
  <2>4. ASSUME NEW n \in DOMAIN F PROVE B[d][k].id # F[n].id
    <3>1. F[n].id \in Ids
      BY <1>3
    <3> QED
      BY <1>5, <2>1, <2>2, <3>1
  <2> QED
    BY <2>3, <2>4
<1>8. ASSUME NEW j \in DOMAIN P, NEW k \in DOMAIN F PROVE P[j].id # F[k].id
  <2>1. Before(P, F)
    BY DEF InOrder
  <2>2. P[j].id \in Ids /\ F[k].id \in Ids
    BY <1>3
  <2> QED
    BY <1>5, <2>1, <2>2
<1>9. /\ \A j, k \in DOMAIN P : P[j].id = P[k].id => P[j] = P[k]
      /\ \A j, k \in DOMAIN F : F[j].id = F[k].id => F[j] = F[k]
  BY <1>2, <1>3, <1>4 DEF InOrder
<1>10. ASSUME NEW g, InBatches(B, g)
       PROVE  \E d \in DOMAIN B : \E k \in DOMAIN B[d] : g = B[d][k]
  BY <1>10 DEF InBatches, Range
<1>11. ASSUME NEW q, NEW g \in Range(q)
       PROVE  \E k \in DOMAIN q : g = q[k]
  BY DEF Range
<1>12. /\ InBatches(B, e) \/ e \in Range(P) \/ e \in Range(F)
       /\ InBatches(B, f) \/ f \in Range(P) \/ f \in Range(F)
  BY MembersAre
<1> QED
  BY <1>6, <1>7, <1>8, <1>9, <1>10, <1>11, <1>12

\* C is the batches B with the queue P swapped in on top of them, next to the
\* buffer F.
Swapped(B, P, F, C) ==
    /\ B \in Seq(Seq(Entries)) /\ P \in Seq(Entries) /\ F \in Seq(Entries)
    /\ InOrder(B, P, F)
    /\ C = Append(B, P)

\* What swapping in P on top of the batches B, giving C, does to the lanes.
SwappedTo(B, P, F, C) ==
    /\ C \in Seq(Seq(Entries)) /\ Len(C) = Len(B) + 1
    /\ \A d \in DOMAIN B : C[d] = B[d]
    /\ InOrder(C, <<>>, F)
    /\ Members(C, <<>>, F) = Members(B, P, F)
    /\ Heads(C, FALSE) = Heads(B, TRUE)

\* A batch is swapped in: the lanes hold the same entries in the same order,
\* and a callback of every other batch has started.
LEMMA SwapIn ==
    ASSUME NEW B, NEW P, NEW F, NEW C, Swapped(B, P, F, C)
    PROVE  SwappedTo(B, P, F, C)
<1> DEFINE n == Len(B)
<1>1. /\ n \in Nat /\ DOMAIN B = 1..n /\ C \in Seq(Seq(Entries)) /\ Len(C) = n + 1
      /\ DOMAIN C = 1..(n + 1)
      /\ (\A d \in 1..n : C[d] = B[d]) /\ C[n + 1] = P
  BY AppendProperties DEF Swapped
<1> HIDE DEF n
<1>2. \A d \in 1..(n + 1) : d \in 1..n \/ d = n + 1
  BY <1>1
<1>3. n + 1 \in 1..(n + 1) /\ \A d \in 1..n : d \in 1..(n + 1) /\ d < n + 1
  BY <1>1
<1>4. DOMAIN <<>> = {}
  OBVIOUS
<1>5. InOrder(C, <<>>, F)
  <2>1. \A d \in 1..(n + 1) : Sorted(C[d]) /\ Before(C[d], <<>>) /\ Before(C[d], F)
    BY <1>1, <1>2, <1>4 DEF Swapped, InOrder, Before
  <2>2. \A c, d \in 1..(n + 1) : c < d => Before(C[c], C[d])
    <3> SUFFICES ASSUME NEW c \in 1..(n + 1), NEW d \in 1..(n + 1), c < d
                 PROVE  Before(C[c], C[d])
      OBVIOUS
    <3>1. c \in 1..n
      BY <1>1
    <3> QED
      BY <1>1, <1>2, <3>1 DEF Swapped, InOrder
  <2>3. Sorted(<<>>) /\ Sorted(F) /\ Before(<<>>, F)
    BY <1>4 DEF Swapped, InOrder, Sorted, Before
  <2> QED
    BY <1>1, <2>1, <2>2, <2>3 DEF InOrder
<1>6. Members(C, <<>>, F) = Members(B, P, F)
  <2>1. \A e : InBatches(C, e) <=> InBatches(B, e) \/ e \in Range(P)
    BY <1>1, <1>2, <1>3 DEF InBatches
  <2>2. \A e : e \notin Range(<<>>)
    BY <1>4 DEF Range
  <2>3. \A e : e \in Members(C, <<>>, F) <=> e \in Members(B, P, F)
    BY <2>1, <2>2, MembersAre
  <2> QED
    BY <2>3, SameSet
<1>7. Heads(C, FALSE) = Heads(B, TRUE)
  <2>1. {c \in DOMAIN C : c < Len(C) \/ FALSE} = 1..n
    BY <1>1
  <2>2. {c \in DOMAIN B : c < Len(B) \/ TRUE} = 1..n
    BY <1>1 DEF n
  <2> QED
    BY <1>1, <2>1, <2>2 DEF Heads
<1> QED
  BY <1>1, <1>5, <1>6, <1>7 DEF n, SwappedTo

\* All sequences but the last, and the last.
LEMMA FrontAndLast ==
    ASSUME NEW S, NEW B \in Seq(S), B # <<>>
    PROVE  /\ Len(B) \in Nat \ {0} /\ DOMAIN B = 1..Len(B)
           /\ Front(B) \in Seq(S) /\ Len(Front(B)) = Len(B) - 1
           /\ DOMAIN Front(B) = 1..(Len(B) - 1)
           /\ \A d \in 1..(Len(B) - 1) : Front(B)[d] = B[d]
           /\ Last(B) = B[Len(B)] /\ Last(B) \in S
<1>1. Len(B) \in Nat \ {0} /\ DOMAIN B = 1..Len(B) /\ Len(B) \in 1..Len(B)
  OBVIOUS
<1>2. PICK m : m = Len(B) - 1
  OBVIOUS
<1>3. m \in Nat /\ 1 + m - 1 = m /\ m <= Len(B)
  BY <1>1, <1>2
<1>4. PICK f : f = SubSeq(B, 1, m)
  OBVIOUS
<1>5. f \in Seq(S) /\ Len(f) = m /\ \A d \in 1..m : f[d] = B[d]
  BY <1>1, <1>2, <1>3, <1>4
<1>6. DOMAIN f = 1..m
  BY <1>5
<1> QED
  BY <1>1, <1>2, <1>4, <1>5, <1>6 DEF Front, Last

\* A lane without its head.
LEMMA TailOfLane ==
    ASSUME NEW s \in Seq(Entries), s # <<>>
    PROVE  /\ Len(s) \in Nat \ {0} /\ DOMAIN s = 1..Len(s)
           /\ Head(s) = s[1] /\ Tail(s) \in Seq(Entries)
           /\ DOMAIN Tail(s) = 1..(Len(s) - 1)
           /\ \A k \in DOMAIN Tail(s) : k + 1 \in 1..Len(s) /\ Tail(s)[k] = s[k + 1]
           /\ \A k \in 1..Len(s) : k = 1 \/ (k - 1 \in DOMAIN Tail(s) /\ Tail(s)[k - 1] = s[k])
<1>1. /\ Len(s) \in Nat \ {0} /\ DOMAIN s = 1..Len(s)
      /\ Head(s) = s[1] /\ Tail(s) \in Seq(Entries)
      /\ Len(Tail(s)) = Len(s) - 1
      /\ \A k \in 1..(Len(s) - 1) : Tail(s)[k] = s[k + 1]
  OBVIOUS
<1>2. DOMAIN Tail(s) = 1..(Len(s) - 1)
  BY <1>1
<1>3. /\ \A k \in 1..(Len(s) - 1) : k + 1 \in 1..Len(s)
      /\ \A k \in 1..Len(s) : k = 1 \/ (k - 1 \in 1..(Len(s) - 1) /\ (k - 1) + 1 = k)
  BY <1>1
<1> QED
  BY <1>1, <1>2, <1>3

\* A sequence with one more element.
LEMMA AppendIs ==
    ASSUME NEW f \in Seq(Seq(Entries)), NEW t \in Seq(Entries)
    PROVE  /\ Append(f, t) \in Seq(Seq(Entries)) /\ Len(Append(f, t)) = Len(f) + 1
           /\ \A d \in 1..Len(f) : Append(f, t)[d] = f[d]
           /\ Append(f, t)[Len(f) + 1] = t
  BY AppendProperties

\* The batches after PopHead.
LEMMA PoppedIs ==
    ASSUME NEW B \in Seq(Seq(Entries)), B # <<>>, Last(B) # <<>>
    PROVE  LET C == Append(Front(B), Tail(Last(B)))
           IN  /\ C \in Seq(Seq(Entries)) /\ Len(C) = Len(B)
               /\ \A d \in 1..(Len(B) - 1) : C[d] = B[d]
               /\ C[Len(B)] = Tail(Last(B))
<1>1. PICK f : f = Front(B)
  OBVIOUS
<1>2. PICK t : t = Tail(Last(B))
  OBVIOUS
<1>3. f \in Seq(Seq(Entries)) /\ Len(f) = Len(B) - 1 /\ Len(B) \in Nat /\ Last(B) \in Seq(Entries)
  BY <1>1, FrontAndLast
<1>4. t \in Seq(Entries)
  BY <1>2, <1>3
<1>5. Len(f) + 1 = Len(B)
  BY <1>3
<1>6. /\ Append(f, t) \in Seq(Seq(Entries)) /\ Len(Append(f, t)) = Len(B)
      /\ \A d \in 1..(Len(B) - 1) : Append(f, t)[d] = f[d]
      /\ Append(f, t)[Len(B)] = t
  BY <1>3, <1>4, <1>5, AppendIs
<1>7. \A d \in 1..(Len(B) - 1) : f[d] = B[d]
  BY <1>1, FrontAndLast
<1> QED
  BY <1>1, <1>2, <1>6, <1>7

\* C is the n batches B without the head h of the innermost one, s, above the
\* queue P and the buffer F.
Popped(n, B, C, P, F, s, h) ==
    /\ n \in Nat \ {0} /\ P \in Seq(Entries) /\ F \in Seq(Entries)
    /\ DOMAIN B = 1..n /\ Len(B) = n /\ \A d \in 1..n : B[d] \in Seq(Entries)
    /\ InOrder(B, P, F)
    /\ s \in Seq(Entries) /\ s = B[n] /\ s # <<>> /\ h = Head(s)
    /\ \A d \in 1..(n - 1) : B[d] # <<>>
    /\ DOMAIN C = 1..n /\ Len(C) = n /\ \A d \in 1..(n - 1) : C[d] = B[d]
    /\ C[n] = Tail(s)

\* What popping h off the batches B, giving C, does to the lanes.
PoppedTo(B, C, P, F, h) ==
    /\ InOrder(C, P, F)
    /\ Members(C, P, F) = Members(B, P, F) \ {h}
    /\ h \in Members(B, P, F)
    /\ Heads(C, FALSE) = Heads(B, FALSE)
    /\ Heads(B, TRUE) = Heads(B, FALSE) \cup {h}
    /\ \A e \in Heads(B, FALSE) : e.id # h.id

\* The head of the innermost batch is popped: it is the one entry that goes,
\* and the heads of the outer batches stay.
LEMMA PopIt ==
    ASSUME NEW n, NEW B, NEW C, NEW P, NEW F, NEW s, NEW h, Popped(n, B, C, P, F, s, h)
    PROVE  PoppedTo(B, C, P, F, h)
<1>1. s \in Seq(Entries) /\ s # <<>>
  BY DEF Popped
<1>2. /\ Len(s) \in Nat \ {0} /\ DOMAIN s = 1..Len(s)
      /\ Head(s) = s[1] /\ Tail(s) \in Seq(Entries)
      /\ DOMAIN Tail(s) = 1..(Len(s) - 1)
      /\ \A k \in DOMAIN Tail(s) : k + 1 \in 1..Len(s) /\ Tail(s)[k] = s[k + 1]
      /\ \A k \in 1..Len(s) : k = 1 \/ (k - 1 \in DOMAIN Tail(s) /\ Tail(s)[k - 1] = s[k])
  BY <1>1, TailOfLane
<1>4. /\ Head(s) = s[1] /\ 1 \in DOMAIN s /\ Tail(s) \in Seq(Entries)
      /\ DOMAIN s \subseteq Nat /\ DOMAIN Tail(s) \subseteq Nat
      /\ \A k \in DOMAIN Tail(s) : k + 1 \in DOMAIN s /\ Tail(s)[k] = s[k + 1]
      /\ \A k \in DOMAIN s : k = 1 \/ (k - 1 \in DOMAIN Tail(s) /\ Tail(s)[k - 1] = s[k])
  BY <1>2
<1> USE DEF Popped
<1>3. n \in 1..n
  OBVIOUS
<1>6. \A d \in 1..n : d \in 1..(n - 1) \/ d = n
  BY <1>3
<1>7. \A d \in 1..(n - 1) : d \in 1..n /\ d < n
  BY <1>3
<1>8. /\ Sorted(Tail(s))
      /\ \A t : Before(s, t) => Before(Tail(s), t)
      /\ \A t : Before(t, s) => Before(t, Tail(s))
  <2>1. Sorted(s)
    BY <1>3 DEF InOrder
  <2>2. Sorted(Tail(s))
    <3> SUFFICES ASSUME NEW j \in DOMAIN Tail(s), NEW k \in DOMAIN Tail(s), j < k
                 PROVE  Tail(s)[j].id < Tail(s)[k].id
      BY DEF Sorted
    <3>1. j + 1 \in DOMAIN s /\ k + 1 \in DOMAIN s /\ j + 1 < k + 1
      BY <1>4
    <3>2. s[j + 1].id < s[k + 1].id
      BY <2>1, <3>1 DEF Sorted
    <3> QED
      BY <1>4, <3>2
  <2>3. \A t : Before(s, t) => Before(Tail(s), t)
    BY <1>4 DEF Before
  <2>4. \A t : Before(t, s) => Before(t, Tail(s))
    BY <1>4 DEF Before
  <2> QED
    BY <2>2, <2>3, <2>4
<1>9. InOrder(C, P, F)
  <2>1. \A d \in 1..n : Sorted(C[d]) /\ Before(C[d], P) /\ Before(C[d], F)
    BY <1>3, <1>6, <1>7, <1>8 DEF InOrder
  <2>2. \A c, d \in 1..n : c < d => Before(C[c], C[d])
    <3> SUFFICES ASSUME NEW c \in 1..n, NEW d \in 1..n, c < d
                 PROVE  Before(C[c], C[d])
      OBVIOUS
    <3>1. c \in 1..(n - 1)
      BY <1>3
    <3>2. Before(B[c], B[d])
      BY <1>3 DEF InOrder
    <3> QED
      BY <1>3, <1>6, <1>8, <3>1, <3>2
  <2>3. Sorted(P) /\ Sorted(F) /\ Before(P, F)
    BY DEF InOrder
  <2> QED
    BY <2>1, <2>2, <2>3 DEF InOrder
<1>10. h = s[1] /\ h = B[n][1] /\ 1 \in DOMAIN B[n]
  BY <1>3, <1>4
<1>11. h \in Members(B, P, F)
  <2>1. h \in Range(B[n])
    BY <1>10 DEF Range
  <2> QED
    BY <1>3, <2>1, MembersAre DEF InBatches
<1>12. \A d \in 1..(n - 1), k \in Nat : k \in DOMAIN B[d] => B[d][k].id < h.id
  <2> SUFFICES ASSUME NEW d \in 1..(n - 1), NEW k \in DOMAIN B[d]
               PROVE  B[d][k].id < h.id
    OBVIOUS
  <2>1. Before(B[d], B[n])
    BY <1>3, <1>7 DEF InOrder
  <2> QED
    BY <1>10, <2>1 DEF Before
<1>13. /\ \A k \in DOMAIN s : k = 1 \/ s[k] # h
       /\ \A k \in DOMAIN P : P[k] # h
       /\ \A k \in DOMAIN F : F[k] # h
       /\ \A d \in 1..(n - 1) : \A k \in DOMAIN B[d] : B[d][k] # h
  <2>1. h.id \in Ids /\ ~(h.id < h.id)
    <3>1. h.id \in Ids
      BY <1>3, <1>10, LaneHoldsEntries
    <3> QED
      BY <3>1, BoundsAssumption DEF Ids
  <2>2. Sorted(s) /\ Before(s, P) /\ Before(s, F)
    BY <1>3 DEF InOrder
  <2>3. \A k \in DOMAIN s : k = 1 \/ 1 < k
    BY <1>4
  <2>4. DOMAIN P \subseteq Nat /\ DOMAIN F \subseteq Nat
    OBVIOUS
  <2>5. \A k \in DOMAIN s : k = 1 \/ h.id < s[k].id
    BY <1>4, <1>10, <2>2, <2>3 DEF Sorted
  <2>6. (\A k \in DOMAIN P : h.id < P[k].id) /\ (\A k \in DOMAIN F : h.id < F[k].id)
    BY <1>4, <1>10, <2>2 DEF Before
  <2>7. \A d \in 1..(n - 1) : DOMAIN B[d] \subseteq Nat
    BY <1>3, <1>7
  <2> QED
    BY <1>12, <2>1, <2>5, <2>6, <2>7
<1>14. Members(C, P, F) = Members(B, P, F) \ {h}
  <2>1. ASSUME NEW e
        PROVE  e \in Range(Tail(s)) <=> e \in Range(s) /\ e # h
    <3>1. ASSUME e \in Range(Tail(s)) PROVE e \in Range(s) /\ e # h
      <4>1. PICK k \in DOMAIN Tail(s) : e = Tail(s)[k]
        BY <3>1 DEF Range
      <4>2. k + 1 \in DOMAIN s /\ e = s[k + 1] /\ k + 1 # 1
        BY <1>4, <4>1
      <4> QED
        BY <1>13, <4>2 DEF Range
    <3>2. ASSUME e \in Range(s), e # h PROVE e \in Range(Tail(s))
      <4>1. PICK k \in DOMAIN s : e = s[k]
        BY <3>2 DEF Range
      <4>2. k # 1
        BY <1>10, <3>2, <4>1
      <4>3. k - 1 \in DOMAIN Tail(s) /\ Tail(s)[k - 1] = e
        BY <1>4, <4>1, <4>2
      <4> QED
        BY <4>3 DEF Range
    <3> QED
      BY <3>1, <3>2
  <2>2. \A e : InBatches(C, e) <=> (\E d \in 1..(n - 1) : e \in Range(B[d])) \/ e \in Range(Tail(s))
    BY <1>3, <1>6, <1>7 DEF InBatches
  <2>3. \A e : InBatches(B, e) <=> (\E d \in 1..(n - 1) : e \in Range(B[d])) \/ e \in Range(s)
    BY <1>3, <1>6, <1>7 DEF InBatches
  <2>4. h \notin Range(P) /\ h \notin Range(F) /\ \A d \in 1..(n - 1) : h \notin Range(B[d])
    <3>1. h \notin Range(P) /\ h \notin Range(F)
      BY <1>13 DEF Range
    <3>2. ASSUME NEW d \in 1..(n - 1), h \in Range(B[d])
          PROVE  FALSE
      <4>1. PICK k \in DOMAIN B[d] : h = B[d][k]
        BY <3>2 DEF Range
      <4> QED
        BY <1>13, <4>1
    <3> QED
      BY <3>1, <3>2
  <2>5. ASSUME NEW e
        PROVE  e \in Members(C, P, F) <=> e \in Members(B, P, F) /\ e # h
    <3>1. e \in Members(C, P, F) <=> InBatches(C, e) \/ e \in Range(P) \/ e \in Range(F)
      BY MembersAre
    <3>2. e \in Members(B, P, F) <=> InBatches(B, e) \/ e \in Range(P) \/ e \in Range(F)
      BY MembersAre
    <3>3. /\ InBatches(C, e) <=> (\E d \in 1..(n - 1) : e \in Range(B[d])) \/ e \in Range(Tail(s))
          /\ InBatches(B, e) <=> (\E d \in 1..(n - 1) : e \in Range(B[d])) \/ e \in Range(s)
      BY <2>2, <2>3
    <3> QED
      BY <2>1, <2>4, <3>1, <3>2, <3>3
  <2>6. \A e : e \in Members(C, P, F) <=> e \in Members(B, P, F) \ {h}
    BY <2>5
  <2> QED
    BY <2>6, SameSet
<1>15. /\ {c \in DOMAIN B : c < Len(B) \/ FALSE} = 1..(n - 1)
       /\ {c \in DOMAIN B : c < Len(B) \/ TRUE} = 1..n
       /\ {c \in DOMAIN C : c < Len(C) \/ FALSE} = 1..(n - 1)
  BY <1>3
<1>16. Heads(C, FALSE) = Heads(B, FALSE)
  BY <1>15 DEF Heads
<1>17. Heads(B, TRUE) = Heads(B, FALSE) \cup {h}
  <2>1. Head(B[n]) = h
    BY <1>3
  <2>2. \A e : (\E d \in 1..n : e = Head(B[d])) <=> (\E d \in 1..(n - 1) : e = Head(B[d])) \/ e = h
    BY <1>3, <1>6, <1>7, <2>1
  <2> QED
    BY <1>15, <2>2 DEF Heads
<1>18. ASSUME \A d \in 1..(n - 1) : B[d] # <<>>
       PROVE  \A e \in Heads(B, FALSE) : e.id # h.id
  <2> SUFFICES ASSUME NEW d \in 1..(n - 1) PROVE Head(B[d]).id # h.id
    BY <1>15 DEF Heads
  <2>1. B[d] \in Seq(Entries) /\ B[d] # <<>>
    BY <1>3, <1>7, <1>18
  <2>2. Head(B[d]) = B[d][1] /\ 1 \in DOMAIN B[d] /\ Head(B[d]).id \in Ids /\ h.id \in Ids
    BY <1>3, <1>10, <2>1, LaneHoldsEntries
  <2>3. Head(B[d]).id < h.id
    BY <1>12, <2>2
  <2>4. \A i, j \in Ids : i < j => i # j
    BY BoundsAssumption DEF Ids
  <2> QED
    BY <2>2, <2>3, <2>4
<1> QED
  BY <1>9, <1>11, <1>14, <1>16, <1>17, <1>18 DEF PoppedTo

\* C is the n batches B without the innermost one, which is empty.
Dropped(n, B, C, P, F) ==
    /\ n \in Nat \ {0} /\ DOMAIN B = 1..n /\ Len(B) = n /\ InOrder(B, P, F) /\ B[n] = <<>>
    /\ DOMAIN C = 1..(n - 1) /\ Len(C) = n - 1 /\ \A d \in 1..(n - 1) : C[d] = B[d]

\* Dropping it changes nothing else.
DroppedTo(n, B, C, P, F) ==
    /\ InOrder(C, P, F)
    /\ Members(C, P, F) = Members(B, P, F)
    /\ Heads(C, n > 1) = Heads(B, FALSE)

\* The innermost batch is over and is dropped: nothing else changes.
LEMMA DropIt ==
    ASSUME NEW n, NEW B, NEW C, NEW P, NEW F, Dropped(n, B, C, P, F)
    PROVE  DroppedTo(n, B, C, P, F)
<1> USE DEF Dropped
<1>1. \A d \in 1..n : d \in 1..(n - 1) \/ d = n
  OBVIOUS
<1>2. n \in 1..n /\ \A d \in 1..(n - 1) : d \in 1..n
  OBVIOUS
<1>3. InOrder(C, P, F)
  BY <1>2 DEF InOrder
<1>4. Members(C, P, F) = Members(B, P, F)
  <2>1. \A e : e \notin Range(<<>>)
    <3>1. DOMAIN <<>> = {}
      OBVIOUS
    <3> QED
      BY <3>1 DEF Range
  <2>2. \A e : InBatches(C, e) <=> InBatches(B, e)
    BY <1>1, <1>2, <2>1 DEF InBatches
  <2>3. \A e : e \in Members(C, P, F) <=> e \in Members(B, P, F)
    BY <2>2, MembersAre
  <2> QED
    BY <2>3, SameSet
<1>5. /\ {c \in DOMAIN B : c < Len(B) \/ FALSE} = 1..(n - 1)
      /\ {c \in DOMAIN C : c < Len(C) \/ n > 1} = 1..(n - 1)
  OBVIOUS
<1>6. Heads(C, n > 1) = Heads(B, FALSE)
  BY <1>5 DEF Heads
<1> QED
  BY <1>3, <1>4, <1>6 DEF DroppedTo

\* The last freeze splices the buffer behind the queue.
LEMMA SpliceIt ==
    ASSUME NEW B, NEW P \in Seq(Entries), NEW F \in Seq(Entries), InOrder(B, P, F),
           NEW Q, Q = P \o F
    PROVE  /\ Q \in Seq(Entries)
           /\ InOrder(B, Q, <<>>)
           /\ Members(B, Q, <<>>) = Members(B, P, F)
<1>1. PICK m : m = Len(P)
  OBVIOUS
<1>2. PICK k : k = Len(F)
  OBVIOUS
<1>3. /\ m \in Nat /\ k \in Nat /\ DOMAIN P = 1..m /\ DOMAIN F = 1..k
      /\ Q \in Seq(Entries) /\ DOMAIN Q = 1..(m + k)
      /\ \A i \in 1..(m + k) : Q[i] = IF i <= m THEN P[i] ELSE F[i - m]
  BY <1>1, <1>2, Concat
<1>4. \A i \in 1..(m + k) : (i \in 1..m /\ Q[i] = P[i]) \/ (i > m /\ i - m \in 1..k /\ Q[i] = F[i - m])
  BY <1>3
<1>5. DOMAIN <<>> = {}
  OBVIOUS
<1>6. \A t : Before(t, P) /\ Before(t, F) => Before(t, Q)
  BY <1>3, <1>4 DEF Before
<1>7. Sorted(Q)
  <2> SUFFICES ASSUME NEW i \in 1..(m + k), NEW j \in 1..(m + k), i < j
               PROVE  Q[i].id < Q[j].id
    BY <1>3 DEF Sorted
  <2>1. Sorted(P) /\ Sorted(F) /\ Before(P, F)
    BY DEF InOrder
  <2>2. CASE j \in 1..m
    <3>1. i \in 1..m /\ Q[i] = P[i] /\ Q[j] = P[j]
      BY <1>3, <2>2
    <3> QED
      BY <1>3, <2>1, <2>2, <3>1 DEF Sorted
  <2>3. CASE i \in 1..m /\ j \notin 1..m
    <3>1. j - m \in 1..k /\ Q[i] = P[i] /\ Q[j] = F[j - m]
      BY <1>3, <1>4, <2>3
    <3> QED
      BY <1>3, <2>1, <2>3, <3>1 DEF Before
  <2>4. CASE i \notin 1..m /\ j \notin 1..m
    <3>1. i - m \in 1..k /\ j - m \in 1..k /\ i - m < j - m /\ Q[i] = F[i - m] /\ Q[j] = F[j - m]
      <4>1. ~(i \in 1..m) /\ ~(j \in 1..m)
        BY <2>4
      <4>2. i - m \in 1..k /\ Q[i] = F[i - m] /\ j - m \in 1..k /\ Q[j] = F[j - m]
        BY <1>4, <4>1
      <4>3. i - m < j - m
        BY <1>3
      <4> QED
        BY <4>2, <4>3
    <3> QED
      BY <1>3, <2>1, <3>1 DEF Sorted
  <2>5. j \in 1..m \/ (i \in 1..m /\ j \notin 1..m) \/ (i \notin 1..m /\ j \notin 1..m)
    OBVIOUS
  <2> QED
    BY <2>2, <2>3, <2>4, <2>5
<1>8. Sorted(<<>>) /\ \A t : Before(t, <<>>)
  BY <1>5 DEF Sorted, Before
<1>9. InOrder(B, Q, <<>>)
  BY <1>6, <1>7, <1>8 DEF InOrder
<1>10. Members(B, Q, <<>>) = Members(B, P, F)
  <2>1. Range(Q) = Range(P) \cup Range(F)
    BY RangeConcatenation
  <2>2. \A e : e \notin Range(<<>>)
    BY <1>5 DEF Range
  <2>3. \A e : e \in Members(B, Q, <<>>) <=> e \in Members(B, P, F)
    BY <2>1, <2>2, MembersAre
  <2> QED
    BY <2>3, SameSet
<1> QED
  BY <1>3, <1>9, <1>10

\* A new callback, newer than every other, goes behind lane s.
LEMMA PostIt ==
    ASSUME NEW s \in Seq(Entries), NEW e \in Entries,
           \A f \in Range(s) : f.id < e.id, Sorted(s)
    PROVE  /\ Append(s, e) \in Seq(Entries)
           /\ Sorted(Append(s, e))
           /\ Range(Append(s, e)) = Range(s) \cup {e}
           /\ \A t : Before(t, s) /\ (\A f \in Range(t) : f.id < e.id) => Before(t, Append(s, e))
<1>1. PICK m : m = Len(s)
  OBVIOUS
<1>2. PICK t : t = Append(s, e)
  OBVIOUS
<1>3. /\ m \in Nat /\ DOMAIN s = 1..m /\ t \in Seq(Entries) /\ DOMAIN t = 1..(m + 1)
      /\ (\A i \in 1..m : t[i] = s[i]) /\ t[m + 1] = e
  BY <1>1, <1>2, AppendProperties
<1>4. \A i \in 1..(m + 1) : i \in 1..m \/ i = m + 1
  BY <1>3
<1>5. m + 1 \in 1..(m + 1) /\ \A i \in 1..m : i \in 1..(m + 1) /\ s[i] \in Range(s)
  BY <1>3 DEF Range
<1>6. Sorted(t)
  <2> SUFFICES ASSUME NEW i \in 1..(m + 1), NEW j \in 1..(m + 1), i < j
               PROVE  t[i].id < t[j].id
    BY <1>3 DEF Sorted
  <2>1. i \in 1..m
    BY <1>3
  <2> QED
    BY <1>3, <1>4, <1>5, <2>1 DEF Sorted
<1>7. Range(t) = Range(s) \cup {e}
  <2>1. \A f : f \in Range(t) <=> f \in Range(s) \cup {e}
    BY <1>3, <1>4, <1>5 DEF Range
  <2> QED
    BY <2>1, SameSet
<1>8. ASSUME NEW q, Before(q, s), \A f \in Range(q) : f.id < e.id
      PROVE  Before(q, t)
  <2>1. \A j \in DOMAIN q : q[j].id < e.id
    BY <1>8 DEF Range
  <2> QED
    BY <1>3, <1>4, <1>8, <2>1 DEF Before
<1> QED
  BY <1>2, <1>3, <1>6, <1>7, <1>8

-----------------------------------------------------------------------------
(* Who waits.                                                              *)

\* NothingLost for the fates f, the entries M and the started ones H.
WaitingAre(f, M, H) ==
    \A i \in Ids : f[i] = "waiting" <=> (\E e \in M : e.id = i) /\ \A e \in H : e.id # i

Unique(M) == \A e, g \in M : e.id = g.id => e = g

\* Entries are found in Entries, and a started batch's head among them.
LEMMA MembersAreEntries ==
    ASSUME NEW B \in Seq(Seq(Entries)), NEW P \in Seq(Entries), NEW F \in Seq(Entries),
           NEW r, \A d \in DOMAIN B : d < Len(B) \/ r => B[d] # <<>>
    PROVE  Members(B, P, F) \subseteq Entries /\ Heads(B, r) \subseteq Members(B, P, F)
<1>1. ASSUME NEW d \in DOMAIN B PROVE B[d] \in Seq(Entries)
  OBVIOUS
<1>2. ASSUME NEW s \in Seq(Entries) PROVE Range(s) \subseteq Entries
  BY RangeOfSeq
<1>3. Members(B, P, F) \subseteq Entries
  BY <1>1, <1>2, MembersAre DEF InBatches
<1>4. ASSUME NEW d \in DOMAIN B, d < Len(B) \/ r
      PROVE  Head(B[d]) \in Members(B, P, F)
  <2>1. B[d] \in Seq(Entries) /\ B[d] # <<>>
    BY <1>1, <1>4
  <2>2. Head(B[d]) = B[d][1] /\ 1 \in DOMAIN B[d]
    BY <2>1
  <2>3. Head(B[d]) \in Range(B[d])
    BY <2>2 DEF Range
  <2> QED
    BY <2>3, MembersAre DEF InBatches
<1> QED
  BY <1>3, <1>4 DEF Heads

\* A callback is posted: it waits.
LEMMA WaitPosted ==
    ASSUME NEW f \in [Ids -> {"none", "waiting", "ran", "skipped", "discarded"}], NEW M, NEW H,
           WaitingAre(f, M, H), H \subseteq M, NEW n \in Ids, \A e \in M : e.id # n,
           NEW x, x.id = n
    PROVE  WaitingAre([f EXCEPT ![n] = "waiting"], M \cup {x}, H)
  BY DEF WaitingAre

\* A callback starts: it waits no longer, and it is a head.
LEMMA WaitStarted ==
    ASSUME NEW f \in [Ids -> {"none", "waiting", "ran", "skipped", "discarded"}], NEW M, NEW H,
           WaitingAre(f, M, H), NEW h, h.id \in Ids
    PROVE  WaitingAre([f EXCEPT ![h.id] = "ran"], M, H \cup {h})
  BY DEF WaitingAre

\* A callback is skipped: it waits no longer, and it is gone.
LEMMA WaitSkipped ==
    ASSUME NEW f \in [Ids -> {"none", "waiting", "ran", "skipped", "discarded"}], NEW M, NEW H,
           WaitingAre(f, M, H), NEW h \in M, Unique(M), h.id \in Ids
    PROVE  WaitingAre([f EXCEPT ![h.id] = "skipped"], M \ {h}, H)
<1> SUFFICES ASSUME NEW i \in Ids
             PROVE  [f EXCEPT ![h.id] = "skipped"][i] = "waiting" <=>
                        (\E e \in M \ {h} : e.id = i) /\ \A e \in H : e.id # i
  BY DEF WaitingAre
<1>1. CASE i = h.id
  <2>1. ~ \E e \in M \ {h} : e.id = i
    BY <1>1 DEF Unique
  <2> QED
    BY <1>1, <2>1
<1>2. CASE i # h.id
  <2>1. (\E e \in M \ {h} : e.id = i) <=> (\E e \in M : e.id = i)
    BY <1>2
  <2> QED
    BY <1>2, <2>1 DEF WaitingAre
<1> QED
  BY <1>1, <1>2

\* A callback has returned: it had stopped waiting when it started.
LEMMA WaitReturned ==
    ASSUME NEW f, NEW M, NEW H, NEW h \in M, WaitingAre(f, M, H \cup {h}), Unique(M),
           \A e \in H : e.id # h.id
    PROVE  WaitingAre(f, M \ {h}, H)
<1> SUFFICES ASSUME NEW i \in Ids
             PROVE  f[i] = "waiting" <=>
                        (\E e \in M \ {h} : e.id = i) /\ \A e \in H : e.id # i
  BY DEF WaitingAre
<1>1. f[i] = "waiting" <=> (\E e \in M : e.id = i) /\ \A e \in H \cup {h} : e.id # i
  BY DEF WaitingAre
<1>2. (\E e \in M \ {h} : e.id = i) <=> (\E e \in M : e.id = i) /\ h.id # i
  BY DEF Unique
<1> QED
  BY <1>1, <1>2

-----------------------------------------------------------------------------
(* The inductive invariant.                                                *)

\* The unfinished callbacks, lane by lane.
held == Members(batches, pending_, frozen_buffer_)

\* A snapshot is no newer than its guard, and older when the owner is gone:
\* what was captured from a destroyed owner has expired.
Covered(t, g, a) ==
    t.owner \in Owners => t.snapshot <= g[t.owner] /\ (t.owner \notin a => t.snapshot < g[t.owner])

\* The types of everything but what the producers hold.
LaneTypes ==
    /\ pending_ \in Seq(Entries)
    /\ frozen_buffer_ \in Seq(Entries)
    /\ freezes \in Seq(Nat)
    /\ initialized_ \in BOOLEAN
    /\ shut_down_ \in BOOLEAN
    /\ closing \in BOOLEAN
    /\ batches \in Seq(Seq(Entries))
    /\ running \in BOOLEAN
    /\ generation \in [Owners -> Nat]
    /\ alive \subseteq Owners
    /\ last_id \in 0..MaxCallbacks
    /\ epoch \in 0..MaxEpoch
    /\ fate \in [Ids -> {"none", "waiting", "ran", "skipped", "discarded"}]

\* A batch whose head is running, or has drained, has a head.
HeadsAreThere == \A d \in DOMAIN batches : d < Len(batches) \/ running => batches[d] # <<>>

\* Only a batch's head runs.
RunsInABatch == running => batches # <<>>

\* What a freeze diverted does not outlive the freezes.
BufferNeedsFreeze == freezes = <<>> => frozen_buffer_ = <<>>

\* Every unfinished callback was numbered, belongs to this session, and has a
\* snapshot its owner's guard covers.
HeldAreSound ==
    \A e \in held : e.id <= last_id /\ e.epoch = epoch /\ Covered(e, generation, alive)

LaneInv ==
    /\ LaneTypes
    /\ InOrder(batches, pending_, frozen_buffer_)
    /\ WaitingAre(fate, held, Heads(batches, running))
    /\ HeadsAreThere
    /\ RunsInABatch
    /\ BufferNeedsFreeze
    /\ HeldAreSound

\* What the producers hold: a producer past the check has a token, and every
\* token's snapshot is covered.
TokenInv ==
    /\ token \in [Producers -> Tokens \cup {NoToken}]
    /\ checked \subseteq Producers
    /\ \A p \in checked : token[p] # NoToken
    /\ \A p \in Producers : token[p] # NoToken => Covered(token[p], generation, alive)

\* A shutdown under way has not been counted yet.
ClosingFits == closing => epoch < MaxEpoch

IInv == LaneInv /\ TokenInv /\ ClosingFits

\* The invariant holds initially.
LEMMA InitHolds == Init => IInv
<1> SUFFICES ASSUME Init PROVE IInv
  OBVIOUS
<1>1. DOMAIN <<>> = {} /\ Len(<<>>) = 0
  OBVIOUS
<1>2. LaneTypes
  <2>1. 0 \in 0..MaxCallbacks /\ 0 \in 0..MaxEpoch
    BY BoundsAssumption
  <2>2. /\ pending_ \in Seq(Entries) /\ frozen_buffer_ \in Seq(Entries)
        /\ freezes \in Seq(Nat) /\ batches \in Seq(Seq(Entries))
    BY DEF Init
  <2>3. /\ generation \in [Owners -> Nat] /\ alive \subseteq Owners
        /\ fate \in [Ids -> {"none", "waiting", "ran", "skipped", "discarded"}]
    BY DEF Init
  <2> QED
    BY <2>1, <2>2, <2>3 DEF Init, LaneTypes
<1>3. held = {} /\ Heads(batches, running) = {}
  <2>1. \A e : e \notin held
    BY <1>1, MembersAre DEF Init, held, InBatches, Range
  <2>2. \A e : e \notin Heads(batches, running)
    BY <1>1 DEF Init, Heads
  <2> QED
    BY <2>1, <2>2
<1>4. InOrder(batches, pending_, frozen_buffer_)
  BY <1>1 DEF Init, InOrder, Sorted, Before
<1>5. WaitingAre(fate, held, Heads(batches, running))
  BY <1>3 DEF Init, WaitingAre
<1>6. HeadsAreThere /\ RunsInABatch /\ BufferNeedsFreeze /\ HeldAreSound
  BY <1>1, <1>3 DEF Init, HeadsAreThere, RunsInABatch, BufferNeedsFreeze, HeldAreSound
<1>7. TokenInv /\ ClosingFits
  BY DEF Init, TokenInv, ClosingFits
<1> QED
  BY <1>2, <1>4, <1>5, <1>6, <1>7 DEF IInv, LaneInv

\* The invariant is what the properties say, and more.
LEMMA InvariantImplies == IInv => QueueIsIntact /\ NoStaleSession /\ Unfinished = held
<1> SUFFICES ASSUME IInv PROVE QueueIsIntact /\ NoStaleSession /\ Unfinished = held
  OBVIOUS
<1>1. /\ batches \in Seq(Seq(Entries)) /\ pending_ \in Seq(Entries)
      /\ frozen_buffer_ \in Seq(Entries)
  BY DEF IInv, LaneInv, LaneTypes
<1>2. Lanes = batches \o <<pending_, frozen_buffer_>>
  BY DEF Lanes
<1>4. Unfinished = held
  <2>1. EntriesOf(Lanes) = Members(batches, pending_, frozen_buffer_)
    BY <1>1, <1>2, MembersByLane
  <2> QED
    BY <2>1 DEF Unfinished, EntriesOf, held
<1>5. OrderKept
  <2>1. InOrder(batches, pending_, frozen_buffer_)
    BY DEF IInv, LaneInv
  <2>2. Ordered(Lanes)
    BY <1>1, <1>2, <2>1, OrderByLane
  <2> QED
    BY <2>2 DEF OrderKept, Ordered
<1>6. NothingLost
  <2>1. Started = Heads(batches, running)
    BY DEF Started, Heads, drain_depth_
  <2>2. held \subseteq Entries
    BY <1>1, MembersAreEntries DEF IInv, LaneInv, HeadsAreThere, held
  <2>3. \A e \in held : e.id \in Ids
    BY <2>2 DEF Entries
  <2>4. WaitingAre(fate, held, Started)
    BY <2>1 DEF IInv, LaneInv
  <2>5. \A i : i \in {x \in Ids : fate[x] = "waiting"} <=>
                   i \in {e.id : e \in held} \ {e.id : e \in Started}
    BY <2>3, <2>4 DEF WaitingAre
  <2>6. {x \in Ids : fate[x] = "waiting"} = {e.id : e \in held} \ {e.id : e \in Started}
    BY <2>5, SameSet
  <2> QED
    BY <1>4, <2>6 DEF NothingLost
<1>7. NoStaleSession
  BY <1>4 DEF NoStaleSession, IInv, LaneInv, HeldAreSound
<1>8. TypeOK
  BY DEF TypeOK, IInv, LaneInv, LaneTypes, TokenInv
<1> QED
  BY <1>4, <1>5, <1>6, <1>7, <1>8 DEF QueueIsIntact

-----------------------------------------------------------------------------
(* What an action does to the lanes.                                       *)

\* Ids of what the lanes hold, in any state the invariant allows.
LEMMA HeldFacts ==
    ASSUME LaneInv
    PROVE  /\ held \subseteq Entries /\ Unique(held)
           /\ Heads(batches, running) \subseteq held
           /\ \A e \in held : e.id \in Ids /\ e.id <= last_id
<1>1. /\ batches \in Seq(Seq(Entries)) /\ pending_ \in Seq(Entries)
      /\ frozen_buffer_ \in Seq(Entries) /\ InOrder(batches, pending_, frozen_buffer_)
      /\ \A d \in DOMAIN batches : d < Len(batches) \/ running => batches[d] # <<>>
  BY DEF LaneInv, LaneTypes, HeadsAreThere
<1>2. held \subseteq Entries /\ Heads(batches, running) \subseteq held
  BY <1>1, MembersAreEntries DEF held
<1>3. Unique(held)
  BY <1>1, IdsAreUnique DEF Unique, held
<1>4. \A e \in Entries : e.id \in Ids
  BY DEF Entries
<1> QED
  BY <1>2, <1>3, <1>4 DEF LaneInv, HeldAreSound

\* A post with a snapshot its guard covers keeps the lanes sound.
LEMMA PostKeepsLanes ==
    ASSUME LaneInv, NEW o \in Owners \cup {NoOwner}, NEW s \in Nat,
           Covered([owner |-> o, snapshot |-> s], generation, alive),
           QueueImpl(o, s),
           UNCHANGED <<freezes, lifecycle, batches, running, guards>>
    PROVE  LaneInv'
<1>1. CASE shut_down_
  <2>1. UNCHANGED <<pending_, frozen_buffer_, last_id, fate>>
    BY <1>1 DEF QueueImpl
  <2> QED
    BY <2>1 DEF LaneInv, LaneTypes, held, HeadsAreThere, RunsInABatch, BufferNeedsFreeze,
                HeldAreSound, lifecycle, guards
<1>2. CASE ~shut_down_
  <2>1. PICK n : n = last_id + 1
    OBVIOUS
  <2>2. PICK x : x = [id |-> n, owner |-> o, snapshot |-> s, epoch |-> epoch]
    OBVIOUS
  <2>3. /\ last_id < MaxCallbacks /\ last_id' = n
        /\ fate' = [fate EXCEPT ![n] = "waiting"]
        /\ \/ /\ freezes # <<>> /\ pending_' = pending_
              /\ frozen_buffer_' = Append(frozen_buffer_, x)
           \/ /\ freezes = <<>> /\ frozen_buffer_' = frozen_buffer_
              /\ pending_' = Append(pending_, x)
    <3>1. freezes \in Seq(Nat)
      BY DEF LaneInv, LaneTypes
    <3>2. freeze_depth_ > 0 <=> freezes # <<>>
      BY <3>1 DEF freeze_depth_
    <3> QED
      BY <1>2, <2>1, <2>2, <3>2 DEF QueueImpl
  <2>4. n \in Ids /\ last_id \in Nat /\ n \in 0..MaxCallbacks /\ last_id < n /\ epoch \in Nat
    BY <2>1, <2>3, BoundsAssumption DEF LaneInv, LaneTypes, Ids
  <2>5. x \in Entries /\ x.id = n /\ x.epoch = epoch /\ Covered(x, generation, alive)
    BY <2>2, <2>4 DEF Entries, Covered
  <2>6. \A e \in held : e.id \in Ids /\ e.id < n
    <3>1. \A i \in Ids : i <= last_id => i < n
      BY <2>1, <2>4, BoundsAssumption DEF Ids
    <3> QED
      BY <3>1, HeldFacts
  <2>7. /\ \A e \in Range(pending_) : e \in held
        /\ \A e \in Range(frozen_buffer_) : e \in held
        /\ \A d \in DOMAIN batches : \A e \in Range(batches[d]) : e \in held
    BY DEF held, Members
  <2>8. /\ pending_ \in Seq(Entries) /\ frozen_buffer_ \in Seq(Entries)
        /\ InOrder(batches, pending_, frozen_buffer_)
    BY DEF LaneInv, LaneTypes
  <2>9. /\ pending_' \in Seq(Entries) /\ frozen_buffer_' \in Seq(Entries)
        /\ InOrder(batches, pending_', frozen_buffer_')
        /\ Members(batches, pending_', frozen_buffer_') = held \cup {x}
        /\ BufferNeedsFreeze'
    <3>1. CASE freezes # <<>> /\ pending_' = pending_ /\ frozen_buffer_' = Append(frozen_buffer_, x)
      <4>1. PICK t : t = Append(frozen_buffer_, x)
        OBVIOUS
      <4>2. /\ t \in Seq(Entries) /\ Sorted(t) /\ Range(t) = Range(frozen_buffer_) \cup {x}
            /\ \A q : Before(q, frozen_buffer_) /\ (\A f \in Range(q) : f.id < x.id) => Before(q, t)
        BY <2>5, <2>6, <2>7, <2>8, <4>1, PostIt DEF InOrder
      <4>3. InOrder(batches, pending_, t)
        BY <2>5, <2>6, <2>7, <2>8, <4>2 DEF InOrder
      <4>4. Members(batches, pending_, t) = held \cup {x}
        BY <4>2 DEF Members, held
      <4> QED
        BY <2>8, <3>1, <4>1, <4>2, <4>3, <4>4 DEF BufferNeedsFreeze
    <3>2. CASE freezes = <<>> /\ frozen_buffer_' = frozen_buffer_ /\ pending_' = Append(pending_, x)
      <4>1. PICK t : t = Append(pending_, x)
        OBVIOUS
      <4>2. /\ t \in Seq(Entries) /\ Sorted(t) /\ Range(t) = Range(pending_) \cup {x}
            /\ \A q : Before(q, pending_) /\ (\A f \in Range(q) : f.id < x.id) => Before(q, t)
        BY <2>5, <2>6, <2>7, <2>8, <4>1, PostIt DEF InOrder
      <4>3. frozen_buffer_ = <<>>
        BY <3>2 DEF LaneInv, BufferNeedsFreeze
      <4>4. Before(t, frozen_buffer_)
        <5>1. DOMAIN <<>> = {}
          OBVIOUS
        <5> QED
          BY <4>3, <5>1 DEF Before
      <4>5. InOrder(batches, t, frozen_buffer_)
        BY <2>5, <2>6, <2>7, <2>8, <4>2, <4>4 DEF InOrder
      <4>6. Members(batches, t, frozen_buffer_) = held \cup {x}
        BY <4>2 DEF Members, held
      <4> QED
        BY <2>8, <3>2, <4>1, <4>2, <4>3, <4>5, <4>6 DEF BufferNeedsFreeze
    <3> QED
      BY <2>3, <3>1, <3>2
  <2>10. /\ batches' = batches /\ running' = running /\ freezes' = freezes /\ epoch' = epoch
         /\ generation' = generation /\ alive' = alive /\ initialized_' = initialized_
         /\ shut_down_' = shut_down_ /\ closing' = closing
    BY DEF lifecycle, guards
  <2>11. held' = held \cup {x}
    BY <2>9, <2>10 DEF held
  <2>12. WaitingAre(fate', held', Heads(batches', running'))
    <3>1. /\ fate \in [Ids -> {"none", "waiting", "ran", "skipped", "discarded"}]
          /\ WaitingAre(fate, held, Heads(batches, running))
      BY DEF LaneInv, LaneTypes
    <3>2. \A e \in held : e.id # n
      BY <2>4, <2>6, BoundsAssumption DEF Ids
    <3>3. WaitingAre([fate EXCEPT ![n] = "waiting"], held \cup {x}, Heads(batches, running))
      BY <2>4, <2>5, <3>1, <3>2, HeldFacts, WaitPosted
    <3> QED
      BY <2>3, <2>10, <2>11, <3>3
  <2>13. HeldAreSound'
    <3>1. \A e \in held : e.id <= n /\ e.epoch = epoch /\ Covered(e, generation, alive)
      <4>1. \A i \in Ids : i < n => i <= n
        BY <2>4, BoundsAssumption DEF Ids
      <4> QED
        BY <2>6, <4>1 DEF LaneInv, HeldAreSound
    <3>2. x.id <= n
      BY <2>4, <2>5
    <3> QED
      BY <2>3, <2>5, <2>10, <2>11, <3>1, <3>2 DEF HeldAreSound
  <2>14. LaneTypes'
    <3>1. fate' \in [Ids -> {"none", "waiting", "ran", "skipped", "discarded"}]
      BY <2>3 DEF LaneInv, LaneTypes
    <3> QED
      BY <2>3, <2>4, <2>9, <2>10, <3>1 DEF LaneInv, LaneTypes
  <2>15. HeadsAreThere' /\ RunsInABatch'
    BY <2>10 DEF LaneInv, HeadsAreThere, RunsInABatch
  <2> QED
    BY <2>9, <2>10, <2>12, <2>13, <2>14, <2>15 DEF LaneInv
<1> QED
  BY <1>1, <1>2

\* Swapping in a batch on top of started ones keeps the lanes sound.
LEMMA SwapKeepsLanes ==
    ASSUME LaneInv, running \/ batches = <<>>, pending_ # <<>>,
           batches' = Append(batches, pending_), pending_' = <<>>, running' = FALSE,
           UNCHANGED <<frozen_buffer_, freezes, epoch, guards, last_id, fate>>,
           {initialized_', shut_down_', closing'} \subseteq BOOLEAN
    PROVE  LaneInv'
<1>1. PICK C : C = Append(batches, pending_)
  OBVIOUS
<1>2. /\ batches \in Seq(Seq(Entries)) /\ pending_ \in Seq(Entries)
      /\ frozen_buffer_ \in Seq(Entries) /\ InOrder(batches, pending_, frozen_buffer_)
  BY DEF LaneInv, LaneTypes
<1>3. /\ C \in Seq(Seq(Entries)) /\ Len(C) = Len(batches) + 1
      /\ \A d \in DOMAIN batches : C[d] = batches[d]
      /\ InOrder(C, <<>>, frozen_buffer_)
      /\ Members(C, <<>>, frozen_buffer_) = held
      /\ Heads(C, FALSE) = Heads(batches, TRUE)
  <2>1. Swapped(batches, pending_, frozen_buffer_, C)
    BY <1>1, <1>2 DEF Swapped
  <2>2. SwappedTo(batches, pending_, frozen_buffer_, C)
    BY <2>1, SwapIn
  <2> QED
    BY <2>2 DEF SwappedTo, held
<1>4. Heads(batches, TRUE) = Heads(batches, running)
  <2>1. CASE running
    BY <2>1 DEF LaneInv, LaneTypes
  <2>2. CASE batches = <<>>
    <3>1. DOMAIN <<>> = {}
      OBVIOUS
    <3> QED
      BY <2>2, <3>1 DEF Heads
  <2> QED
    BY <2>1, <2>2
<1>5. /\ batches' = C /\ held' = held /\ generation' = generation /\ alive' = alive
      /\ Heads(batches', running') = Heads(batches, running)
      /\ frozen_buffer_' = frozen_buffer_ /\ freezes' = freezes /\ epoch' = epoch
      /\ last_id' = last_id /\ fate' = fate
  BY <1>1, <1>3, <1>4 DEF held, guards
<1>6. LaneTypes'
  <2>1. pending_' \in Seq(Entries)
    OBVIOUS
  <2> QED
    BY <1>3, <1>5, <2>1 DEF LaneInv, LaneTypes
<1>7. InOrder(batches', pending_', frozen_buffer_')
  BY <1>3, <1>5
<1>8. HeadsAreThere'
  <2> SUFFICES ASSUME NEW d \in DOMAIN C, d < Len(C) PROVE C[d] # <<>>
    BY <1>5 DEF HeadsAreThere
  <2>1. d \in DOMAIN batches /\ (d < Len(batches) \/ d = Len(batches))
    BY <1>2, <1>3
  <2>2. batches # <<>>
    <3>1. DOMAIN <<>> = {}
      OBVIOUS
    <3> QED
      BY <2>1, <3>1
  <2>3. running
    BY <2>2
  <2> QED
    BY <1>3, <2>1, <2>3 DEF LaneInv, HeadsAreThere
<1>9. WaitingAre(fate', held', Heads(batches', running'))
  BY <1>5 DEF LaneInv
<1>10. RunsInABatch' /\ BufferNeedsFreeze' /\ HeldAreSound'
  BY <1>5 DEF LaneInv, RunsInABatch, BufferNeedsFreeze, HeldAreSound
<1> QED
  BY <1>6, <1>7, <1>8, <1>9, <1>10 DEF LaneInv

\* What popping the head of the innermost batch does to the lanes.
LEMMA PopFacts ==
    ASSUME LaneInv, batches # <<>>, Last(batches) # <<>>,
           NEW h, h = Head(Last(batches)), batches' = PopHead,
           UNCHANGED <<pending_, frozen_buffer_>>
    PROVE  /\ batches' \in Seq(Seq(Entries)) /\ Len(batches') = Len(batches)
           /\ \A d \in 1..(Len(batches) - 1) : batches'[d] = batches[d]
           /\ DOMAIN batches = 1..Len(batches) /\ Len(batches) \in Nat \ {0}
           /\ DOMAIN batches' = 1..Len(batches)
           /\ InOrder(batches', pending_', frozen_buffer_')
           /\ held' = held \ {h} /\ h \in held
           /\ Heads(batches', FALSE) = Heads(batches, FALSE)
           /\ Heads(batches, TRUE) = Heads(batches, FALSE) \cup {h}
           /\ \A e \in Heads(batches, FALSE) : e.id # h.id
<1>1. PICK C : C = PopHead
  OBVIOUS
<1>2. PICK n : n = Len(batches)
  OBVIOUS
<1>3. PICK s : s = Last(batches)
  OBVIOUS
<1>4. /\ batches \in Seq(Seq(Entries)) /\ pending_ \in Seq(Entries)
      /\ frozen_buffer_ \in Seq(Entries) /\ InOrder(batches, pending_, frozen_buffer_)
  BY DEF LaneInv, LaneTypes
<1>5. /\ n \in Nat \ {0} /\ DOMAIN batches = 1..n /\ s = batches[n] /\ s \in Seq(Entries)
      /\ \A d \in 1..n : batches[d] \in Seq(Entries)
  <2>1. /\ Len(batches) \in Nat \ {0} /\ DOMAIN batches = 1..Len(batches)
        /\ Last(batches) = batches[Len(batches)] /\ Last(batches) \in Seq(Entries)
    BY <1>4, FrontAndLast
  <2>2. \A d \in DOMAIN batches : batches[d] \in Seq(Entries)
    BY <1>4
  <2> QED
    BY <1>2, <1>3, <2>1, <2>2
<1>6. /\ C \in Seq(Seq(Entries)) /\ Len(C) = n
      /\ \A d \in 1..(n - 1) : C[d] = batches[d]
      /\ C[n] = Tail(s)
  BY <1>1, <1>2, <1>3, <1>4, PoppedIs DEF PopHead
<1>7. DOMAIN C = 1..n
  BY <1>6
<1>8. \A d \in 1..(n - 1) : batches[d] # <<>>
  <2>1. \A d \in 1..(n - 1) : d \in 1..n /\ d < n
    BY <1>5
  <2> QED
    BY <1>2, <1>5, <2>1 DEF LaneInv, HeadsAreThere
<1>9. /\ InOrder(C, pending_, frozen_buffer_)
      /\ Members(C, pending_, frozen_buffer_) = held \ {h}
      /\ h \in held
      /\ Heads(C, FALSE) = Heads(batches, FALSE)
      /\ Heads(batches, TRUE) = Heads(batches, FALSE) \cup {h}
      /\ \A e \in Heads(batches, FALSE) : e.id # h.id
  <2>1. /\ n \in Nat \ {0} /\ DOMAIN batches = 1..n /\ Len(batches) = n
        /\ s = batches[n] /\ s \in Seq(Entries) /\ s # <<>> /\ h = Head(s)
        /\ DOMAIN C = 1..n /\ Len(C) = n /\ C[n] = Tail(s)
    BY <1>2, <1>3, <1>5, <1>6, <1>7
  <2>2. pending_ \in Seq(Entries) /\ frozen_buffer_ \in Seq(Entries)
    BY <1>4
  <2>3. /\ \A d \in 1..n : batches[d] \in Seq(Entries)
        /\ \A d \in 1..(n - 1) : batches[d] # <<>>
        /\ \A d \in 1..(n - 1) : C[d] = batches[d]
        /\ InOrder(batches, pending_, frozen_buffer_)
    BY <1>4, <1>5, <1>6, <1>8
  <2>4. Popped(n, batches, C, pending_, frozen_buffer_, s, h)
    BY <2>1, <2>2, <2>3 DEF Popped
  <2>5. PoppedTo(batches, C, pending_, frozen_buffer_, h)
    BY <2>4, PopIt
  <2> QED
    BY <2>5 DEF PoppedTo, held
<1>10. batches' = C /\ pending_' = pending_ /\ frozen_buffer_' = frozen_buffer_
  BY <1>1
<1>11. held' = held \ {h}
  BY <1>9, <1>10 DEF held
<1> QED
  BY <1>2, <1>5, <1>6, <1>7, <1>9, <1>10, <1>11

\* The innermost batch's head is one of the held callbacks.
LEMMA HeadIsHeld ==
    ASSUME LaneInv, batches # <<>>, Last(batches) # <<>>, NEW h, h = Head(Last(batches))
    PROVE  /\ h \in held /\ h.id \in Ids
           /\ Heads(batches, TRUE) = Heads(batches, FALSE) \cup {h}
<1>1. batches \in Seq(Seq(Entries))
  BY DEF LaneInv, LaneTypes
<1>2. PICK n : n = Len(batches)
  OBVIOUS
<1>3. PICK s : s = Last(batches)
  OBVIOUS
<1>4. /\ n \in Nat \ {0} /\ DOMAIN batches = 1..n /\ s = batches[n] /\ s \in Seq(Entries)
      /\ s # <<>>
  BY <1>1, <1>2, <1>3, FrontAndLast
<1>5. h \in Range(s) /\ h = Head(batches[n]) /\ n \in DOMAIN batches
  <2>1. h = s[1] /\ 1 \in DOMAIN s
    BY <1>3, <1>4
  <2> QED
    BY <1>3, <1>4, <2>1 DEF Range
<1>6. h \in held
  BY <1>4, <1>5, MembersAre DEF InBatches, held
<1>7. Heads(batches, TRUE) = Heads(batches, FALSE) \cup {h}
  <2>1. /\ {c \in DOMAIN batches : c < Len(batches) \/ FALSE} = 1..(n - 1)
        /\ {c \in DOMAIN batches : c < Len(batches) \/ TRUE} = 1..n
    BY <1>2, <1>4
  <2>2. \A d \in 1..n : d \in 1..(n - 1) \/ d = n
    BY <1>4
  <2>3. n \in 1..n /\ \A d \in 1..(n - 1) : d \in 1..n
    BY <1>4
  <2>4. \A e : (\E d \in 1..n : e = Head(batches[d])) <=>
                   (\E d \in 1..(n - 1) : e = Head(batches[d])) \/ e = h
    BY <1>5, <2>2, <2>3
  <2> QED
    BY <2>1, <2>4 DEF Heads
<1> QED
  BY <1>6, <1>7, HeldFacts

\* The next callback starts, or is skipped.
LEMMA RunNextHolds == IInv /\ RunNext => IInv'
<1> SUFFICES ASSUME IInv, RunNext PROVE IInv'
  OBVIOUS
<1>1. PICK h : h = Head(Last(batches))
  OBVIOUS
<1>2. LaneInv /\ TokenInv /\ batches # <<>> /\ running = FALSE /\ Last(batches) # <<>>
  BY DEF IInv, RunNext, LaneInv, LaneTypes
<1>3. /\ h \in held /\ h.id \in Ids
      /\ Heads(batches, TRUE) = Heads(batches, FALSE) \cup {h}
  BY <1>1, <1>2, HeadIsHeld
<1>4. /\ fate \in [Ids -> {"none", "waiting", "ran", "skipped", "discarded"}]
      /\ WaitingAre(fate, held, Heads(batches, FALSE)) /\ Unique(held)
  BY <1>2, HeldFacts DEF LaneInv, LaneTypes
<1>5. /\ pending_' = pending_ /\ frozen_buffer_' = frozen_buffer_ /\ freezes' = freezes
      /\ initialized_' = initialized_ /\ shut_down_' = shut_down_ /\ closing' = closing
      /\ epoch' = epoch /\ generation' = generation /\ alive' = alive /\ token' = token
      /\ checked' = checked /\ last_id' = last_id
  BY DEF RunNext, queue, lifecycle, guards, posting
<1>6. TokenInv'
  BY <1>2, <1>5 DEF TokenInv
<1>7. CASE running' = TRUE /\ fate' = [fate EXCEPT ![h.id] = "ran"] /\ batches' = batches
  <2>1. held' = held
    BY <1>5, <1>7 DEF held
  <2>2. WaitingAre(fate', held', Heads(batches', running'))
    <3>1. WaitingAre([fate EXCEPT ![h.id] = "ran"], held, Heads(batches, FALSE) \cup {h})
      BY <1>3, <1>4, WaitStarted
    <3> QED
      BY <1>3, <1>7, <2>1, <3>1
  <2>3. LaneTypes'
    <3>1. fate' \in [Ids -> {"none", "waiting", "ran", "skipped", "discarded"}]
      BY <1>4, <1>7
    <3> QED
      BY <1>2, <1>5, <1>7, <3>1 DEF LaneInv, LaneTypes
  <2>4. HeadsAreThere'
    <3>1. batches \in Seq(Seq(Entries)) /\ Len(batches) \in Nat /\ DOMAIN batches = 1..Len(batches)
      BY <1>2 DEF LaneInv, LaneTypes
    <3>2. batches[Len(batches)] # <<>>
      BY <1>2 DEF Last
    <3>3. \A d \in DOMAIN batches : d < Len(batches) \/ d = Len(batches)
      BY <3>1
    <3> QED
      BY <1>2, <1>7, <3>2, <3>3 DEF LaneInv, HeadsAreThere
  <2> QED
    BY <1>2, <1>5, <1>6, <1>7, <2>1, <2>2, <2>3, <2>4
    DEF IInv, ClosingFits, LaneInv, RunsInABatch, BufferNeedsFreeze, HeldAreSound
<1>8. CASE batches' = PopHead /\ fate' = [fate EXCEPT ![h.id] = "skipped"] /\ running' = running
  <2>1. /\ batches' \in Seq(Seq(Entries)) /\ Len(batches') = Len(batches)
        /\ \A d \in 1..(Len(batches) - 1) : batches'[d] = batches[d]
        /\ DOMAIN batches = 1..Len(batches) /\ Len(batches) \in Nat \ {0}
        /\ DOMAIN batches' = 1..Len(batches)
        /\ InOrder(batches', pending_', frozen_buffer_')
        /\ held' = held \ {h}
        /\ Heads(batches', FALSE) = Heads(batches, FALSE)
    BY <1>1, <1>2, <1>5, <1>8, PopFacts
  <2>2. running' = FALSE
    BY <1>2, <1>8
  <2>3. WaitingAre(fate', held', Heads(batches', running'))
    <3>1. WaitingAre([fate EXCEPT ![h.id] = "skipped"], held \ {h}, Heads(batches, FALSE))
      BY <1>3, <1>4, WaitSkipped
    <3> QED
      BY <1>8, <2>1, <2>2, <3>1
  <2>4. LaneTypes'
    <3>1. fate' \in [Ids -> {"none", "waiting", "ran", "skipped", "discarded"}]
      BY <1>4, <1>8
    <3> QED
      BY <1>2, <1>5, <2>1, <2>2, <3>1 DEF LaneInv, LaneTypes
  <2>5. HeadsAreThere'
    <3>1. \A d \in 1..Len(batches) : d < Len(batches) => d \in 1..(Len(batches) - 1)
      BY <2>1
    <3> QED
      BY <1>2, <2>1, <2>2, <3>1 DEF LaneInv, HeadsAreThere
  <2>6. HeldAreSound'
    BY <1>2, <1>5, <2>1 DEF LaneInv, HeldAreSound
  <2> QED
    BY <1>2, <1>5, <1>6, <2>1, <2>2, <2>3, <2>4, <2>5, <2>6
    DEF IInv, ClosingFits, LaneInv, RunsInABatch, BufferNeedsFreeze
<1> QED
  BY <1>1, <1>7, <1>8 DEF RunNext

\* The callback returns and is popped.
LEMMA ReturnHolds == IInv /\ Return => IInv'
<1> SUFFICES ASSUME IInv, Return PROVE IInv'
  OBVIOUS
<1>1. PICK h : h = Head(Last(batches))
  OBVIOUS
<1>2. LaneInv /\ TokenInv /\ running = TRUE /\ batches # <<>>
  BY DEF IInv, Return, LaneInv, LaneTypes, RunsInABatch
<1>3. Last(batches) # <<>>
  <2>1. batches \in Seq(Seq(Entries)) /\ Len(batches) \in DOMAIN batches
    BY <1>2 DEF LaneInv, LaneTypes
  <2> QED
    BY <1>2, <2>1 DEF LaneInv, HeadsAreThere, Last
<1>4. /\ pending_' = pending_ /\ frozen_buffer_' = frozen_buffer_ /\ freezes' = freezes
      /\ initialized_' = initialized_ /\ shut_down_' = shut_down_ /\ closing' = closing
      /\ epoch' = epoch /\ generation' = generation /\ alive' = alive /\ token' = token
      /\ checked' = checked /\ last_id' = last_id /\ fate' = fate
      /\ batches' = PopHead /\ running' = FALSE
  BY DEF Return, queue, lifecycle, guards, posting
<1>5. /\ batches' \in Seq(Seq(Entries)) /\ Len(batches') = Len(batches)
      /\ \A d \in 1..(Len(batches) - 1) : batches'[d] = batches[d]
      /\ DOMAIN batches = 1..Len(batches) /\ Len(batches) \in Nat \ {0}
      /\ DOMAIN batches' = 1..Len(batches)
      /\ InOrder(batches', pending_', frozen_buffer_')
      /\ held' = held \ {h} /\ h \in held
      /\ Heads(batches', FALSE) = Heads(batches, FALSE)
      /\ Heads(batches, TRUE) = Heads(batches, FALSE) \cup {h}
      /\ \A e \in Heads(batches, FALSE) : e.id # h.id
  BY <1>1, <1>2, <1>3, <1>4, PopFacts
<1>6. WaitingAre(fate', held', Heads(batches', running'))
  <2>1. WaitingAre(fate, held, Heads(batches, FALSE) \cup {h}) /\ Unique(held)
    BY <1>2, <1>5, HeldFacts DEF LaneInv
  <2>2. WaitingAre(fate, held \ {h}, Heads(batches, FALSE))
    BY <1>5, <2>1, WaitReturned
  <2> QED
    BY <1>4, <1>5, <2>2
<1>7. LaneTypes'
  BY <1>2, <1>4, <1>5 DEF LaneInv, LaneTypes
<1>8. HeadsAreThere'
  <2>1. \A d \in 1..Len(batches) : d < Len(batches) => d \in 1..(Len(batches) - 1)
    BY <1>5
  <2> QED
    BY <1>2, <1>4, <1>5, <2>1 DEF LaneInv, HeadsAreThere
<1>9. HeldAreSound'
  BY <1>2, <1>4, <1>5 DEF LaneInv, HeldAreSound
<1>10. TokenInv'
  BY <1>2, <1>4 DEF TokenInv
<1> QED
  BY <1>2, <1>4, <1>5, <1>6, <1>7, <1>8, <1>9, <1>10
  DEF IInv, ClosingFits, LaneInv, RunsInABatch, BufferNeedsFreeze

\* The innermost batch ends.
LEMMA EndBatchHolds == IInv /\ EndBatch => IInv'
<1> SUFFICES ASSUME IInv, EndBatch PROVE IInv'
  OBVIOUS
<1>1. LaneInv /\ TokenInv /\ running = FALSE /\ batches # <<>> /\ Last(batches) = <<>>
  BY DEF IInv, EndBatch, LaneInv, LaneTypes
<1>2. PICK n : n = Len(batches)
  OBVIOUS
<1>3. PICK C : C = Front(batches)
  OBVIOUS
<1>4. /\ pending_' = pending_ /\ frozen_buffer_' = frozen_buffer_ /\ freezes' = freezes
      /\ initialized_' = initialized_ /\ shut_down_' = shut_down_ /\ closing' = closing
      /\ epoch' = epoch /\ generation' = generation /\ alive' = alive /\ token' = token
      /\ checked' = checked /\ last_id' = last_id /\ fate' = fate
      /\ batches' = C /\ running' = (n > 1)
  BY <1>2, <1>3 DEF EndBatch, queue, lifecycle, guards, posting, drain_depth_
<1>5. batches \in Seq(Seq(Entries)) /\ InOrder(batches, pending_, frozen_buffer_)
  BY <1>1 DEF LaneInv, LaneTypes
<1>6. /\ n \in Nat \ {0} /\ DOMAIN batches = 1..n /\ batches[n] = <<>>
      /\ C \in Seq(Seq(Entries)) /\ Len(C) = n - 1 /\ DOMAIN C = 1..(n - 1)
      /\ \A d \in 1..(n - 1) : C[d] = batches[d]
  BY <1>1, <1>2, <1>3, <1>5, FrontAndLast
<1>7. /\ InOrder(C, pending_, frozen_buffer_)
      /\ Members(C, pending_, frozen_buffer_) = held
      /\ Heads(C, n > 1) = Heads(batches, FALSE)
  <2>1. Dropped(n, batches, C, pending_, frozen_buffer_)
    BY <1>2, <1>5, <1>6 DEF Dropped
  <2>2. DroppedTo(n, batches, C, pending_, frozen_buffer_)
    BY <2>1, DropIt
  <2> QED
    BY <2>2 DEF DroppedTo, held
<1>8. held' = held /\ Heads(batches', running') = Heads(batches, running)
  BY <1>1, <1>4, <1>7 DEF held
<1>9. LaneTypes'
  <2>1. running' \in BOOLEAN
    BY <1>4
  <2> QED
    BY <1>1, <1>4, <1>6, <2>1 DEF LaneInv, LaneTypes
<1>10. HeadsAreThere'
  <2>1. \A d \in 1..(n - 1) : d \in 1..n /\ d < n
    BY <1>6
  <2> QED
    BY <1>1, <1>2, <1>4, <1>6, <2>1 DEF LaneInv, HeadsAreThere
<1>11. RunsInABatch'
  <2>1. n > 1 => C # <<>>
    <3>1. DOMAIN <<>> = {}
      OBVIOUS
    <3>2. n > 1 => 1 \in 1..(n - 1)
      BY <1>6
    <3> QED
      BY <1>6, <3>1, <3>2
  <2> QED
    BY <1>4, <2>1 DEF RunsInABatch
<1>12. TokenInv'
  BY <1>1, <1>4 DEF TokenInv
<1> QED
  BY <1>1, <1>4, <1>7, <1>8, <1>9, <1>10, <1>11, <1>12
  DEF IInv, ClosingFits, LaneInv, BufferNeedsFreeze, HeldAreSound

\* A freeze ends.
LEMMA ThawHolds == IInv /\ Thaw => IInv'
<1> SUFFICES ASSUME IInv, Thaw PROVE IInv'
  OBVIOUS
<1>1. LaneInv /\ TokenInv /\ freezes # <<>>
  BY DEF IInv, Thaw, EndFreeze
<1>2. /\ freezes' = Front(freezes) /\ batches' = batches /\ running' = running
      /\ initialized_' = initialized_ /\ shut_down_' = shut_down_ /\ closing' = closing
      /\ epoch' = epoch /\ generation' = generation /\ alive' = alive /\ token' = token
      /\ checked' = checked /\ last_id' = last_id /\ fate' = fate
  BY DEF Thaw, EndFreeze, lifecycle, guards, posting
<1>3. freezes' \in Seq(Nat) /\ (Len(freezes) # 1 => freezes' # <<>>)
  <2>1. freezes \in Seq(Nat)
    BY <1>1 DEF LaneInv, LaneTypes
  <2>2. /\ Len(freezes) \in Nat \ {0} /\ Front(freezes) \in Seq(Nat)
        /\ Len(Front(freezes)) = Len(freezes) - 1
    BY <1>1, <2>1, FrontAndLast
  <2>3. Len(<<>>) = 0
    OBVIOUS
  <2> QED
    BY <1>2, <2>2, <2>3
<1>4. /\ pending_ \in Seq(Entries) /\ frozen_buffer_ \in Seq(Entries)
      /\ InOrder(batches, pending_, frozen_buffer_)
  BY <1>1 DEF LaneInv, LaneTypes
<1>5. /\ pending_' \in Seq(Entries) /\ frozen_buffer_' \in Seq(Entries)
      /\ InOrder(batches, pending_', frozen_buffer_')
      /\ Members(batches, pending_', frozen_buffer_') = held
      /\ BufferNeedsFreeze'
  <2>1. CASE Len(freezes) = 1
    <3>1. PICK Q : Q = pending_ \o frozen_buffer_
      OBVIOUS
    <3>2. pending_' = Q /\ frozen_buffer_' = <<>>
      BY <2>1, <3>1 DEF Thaw, freeze_depth_
    <3>3. /\ Q \in Seq(Entries) /\ InOrder(batches, Q, <<>>)
          /\ Members(batches, Q, <<>>) = Members(batches, pending_, frozen_buffer_)
      BY <1>4, <3>1, SpliceIt
    <3>4. <<>> \in Seq(Entries)
      OBVIOUS
    <3> QED
      BY <3>2, <3>3, <3>4 DEF BufferNeedsFreeze, held
  <2>2. CASE Len(freezes) # 1
    <3>1. pending_' = pending_ /\ frozen_buffer_' = frozen_buffer_
      BY <2>2 DEF Thaw, freeze_depth_
    <3> QED
      BY <1>3, <1>4, <2>2, <3>1 DEF BufferNeedsFreeze, held
  <2> QED
    BY <2>1, <2>2
<1>6. held' = held
  BY <1>2, <1>5 DEF held
<1>7. LaneTypes'
  BY <1>1, <1>2, <1>3, <1>5 DEF LaneInv, LaneTypes
<1>8. TokenInv'
  BY <1>1, <1>2 DEF TokenInv
<1> QED
  BY <1>1, <1>2, <1>5, <1>6, <1>7, <1>8
  DEF IInv, ClosingFits, LaneInv, HeadsAreThere, RunsInABatch, HeldAreSound

\* shutdown() discards the stragglers.
LEMMA FinishShutdownHolds == IInv /\ FinishShutdown => IInv'
<1> SUFFICES ASSUME IInv, FinishShutdown PROVE IInv'
  OBVIOUS
<1>1. LaneInv /\ TokenInv /\ epoch < MaxEpoch
  BY DEF IInv, ClosingFits, FinishShutdown
<1>2. PICK D : D = {e.id : e \in Range(pending_) \cup Range(frozen_buffer_)}
  OBVIOUS
<1>3. /\ batches = <<>> /\ batches' = <<>> /\ running' = running /\ pending_' = <<>>
      /\ frozen_buffer_' = <<>> /\ freezes' = freezes /\ last_id' = last_id
      /\ closing' = FALSE /\ initialized_' = FALSE /\ shut_down_' = TRUE /\ epoch' = epoch + 1
      /\ generation' = generation /\ alive' = alive /\ token' = token /\ checked' = checked
      /\ fate' = [i \in Ids |-> IF i \in D THEN "discarded" ELSE fate[i]]
  BY <1>2 DEF FinishShutdown, guards, posting
<1>4. DOMAIN <<>> = {}
  OBVIOUS
<1>5. held' = {} /\ Heads(batches', running') = {} /\ Heads(batches, running) = {}
  <2>1. \A e : e \notin Members(<<>>, <<>>, <<>>)
    BY <1>4, MembersAre DEF InBatches, Range
  <2>2. \A r, e : e \notin Heads(<<>>, r)
    BY <1>4 DEF Heads
  <2> QED
    BY <1>3, <2>1, <2>2 DEF held
<1>6. \A e \in held : e.id \in D
  <2>1. \A e \in held : e \in Range(pending_) \cup Range(frozen_buffer_)
    BY <1>3, <1>4, MembersAre DEF held, InBatches
  <2> QED
    BY <1>2, <2>1
<1>7. WaitingAre(fate', held', Heads(batches', running'))
  <2>1. \A i \in Ids : fate[i] = "waiting" => i \in D
    BY <1>1, <1>6 DEF LaneInv, WaitingAre
  <2>2. \A i \in Ids : fate'[i] # "waiting"
    BY <1>3, <2>1
  <2> QED
    BY <1>5, <2>2 DEF WaitingAre
<1>8. LaneTypes'
  <2>1. fate' \in [Ids -> {"none", "waiting", "ran", "skipped", "discarded"}]
    BY <1>1, <1>3 DEF LaneInv, LaneTypes
  <2>2. epoch' \in 0..MaxEpoch
    BY <1>1, <1>3, BoundsAssumption DEF LaneInv, LaneTypes
  <2>3. /\ pending_' \in Seq(Entries) /\ frozen_buffer_' \in Seq(Entries)
        /\ batches' \in Seq(Seq(Entries))
    BY <1>3
  <2> QED
    BY <1>1, <1>3, <2>1, <2>2, <2>3 DEF LaneInv, LaneTypes
<1>9. InOrder(batches', pending_', frozen_buffer_')
  BY <1>3, <1>4 DEF InOrder, Sorted, Before
<1>10. HeadsAreThere' /\ RunsInABatch' /\ BufferNeedsFreeze' /\ HeldAreSound'
  BY <1>1, <1>3, <1>4, <1>5
  DEF LaneInv, HeadsAreThere, RunsInABatch, BufferNeedsFreeze, HeldAreSound
<1>11. TokenInv'
  BY <1>1, <1>3 DEF TokenInv
<1> QED
  BY <1>3, <1>7, <1>8, <1>9, <1>10, <1>11 DEF IInv, ClosingFits, LaneInv

\* Posting: by a producer that holds a token,
LEMMA PostDeferredHolds ==
    ASSUME IInv, NEW p \in Producers, PostDeferred(p)
    PROVE  IInv'
<1>1. PICK t : t = token[p]
  OBVIOUS
<1>2. /\ t # NoToken /\ t \in Tokens /\ Covered(t, generation, alive)
      /\ QueueImpl(t.owner, t.snapshot) /\ LaneInv
      /\ UNCHANGED <<freezes, lifecycle, batches, running, guards>>
  BY <1>1 DEF IInv, TokenInv, PostDeferred
<1>3. /\ t.owner \in Owners \cup {NoOwner} /\ t.snapshot \in Nat
      /\ Covered([owner |-> t.owner, snapshot |-> t.snapshot], generation, alive)
  BY <1>2 DEF Tokens, Covered
<1>4. LaneInv'
  BY <1>2, <1>3, PostKeepsLanes
<1>5. TokenInv' /\ ClosingFits'
  BY DEF IInv, TokenInv, ClosingFits, PostDeferred, lifecycle, guards
<1> QED
  BY <1>4, <1>5 DEF IInv

\* ... posting without a token, or by the main thread itself.
LEMMA PostsHold ==
    ASSUME IInv, PostRaw \/ \E o \in Owners : PostFromMain(o)
    PROVE  IInv'
<1>1. LaneInv /\ generation \in [Owners -> Nat]
  BY DEF IInv, LaneInv, LaneTypes
<1>2. /\ UNCHANGED <<freezes, lifecycle, batches, running, guards>>
      /\ UNCHANGED posting
  BY DEF PostRaw, PostFromMain
<1>3. TokenInv' /\ ClosingFits'
  BY <1>2 DEF IInv, TokenInv, ClosingFits, lifecycle, guards, posting
<1>4. CASE PostRaw
  <2>1. Covered([owner |-> NoOwner, snapshot |-> 0], generation, alive) /\ QueueImpl(NoOwner, 0)
    BY <1>4, NoOwnerAssumption DEF PostRaw, Covered
  <2>2. LaneInv'
    BY <1>1, <1>2, <2>1, PostKeepsLanes
  <2> QED
    BY <1>3, <2>2 DEF IInv
<1>5. ASSUME NEW o \in Owners, PostFromMain(o) PROVE IInv'
  <2>1. PICK s : s = generation[o]
    OBVIOUS
  <2>2. /\ s \in Nat /\ o \in Owners \cup {NoOwner} /\ QueueImpl(o, s)
        /\ Covered([owner |-> o, snapshot |-> s], generation, alive)
    BY <1>1, <1>5, <2>1 DEF PostFromMain, Covered
  <2>3. LaneInv'
    BY <1>1, <1>2, <2>2, PostKeepsLanes
  <2> QED
    BY <1>3, <2>3 DEF IInv
<1> QED
  BY <1>4, <1>5

\* Swapping in a batch: the timer's tick or a drain,
LEMMA SwapsHold ==
    ASSUME IInv, TimerTick \/ Drain
    PROVE  IInv'
<1>1. /\ LaneInv /\ pending_ # <<>> /\ batches' = Append(batches, pending_) /\ pending_' = <<>>
      /\ running' = FALSE /\ (running \/ batches = <<>>)
      /\ UNCHANGED <<frozen_buffer_, freezes, lifecycle, guards, posting, last_id, fate>>
  BY DEF IInv, TimerTick, Drain, ProcessPending, MainFree
<1>2. {initialized_', shut_down_', closing'} \subseteq BOOLEAN
  BY <1>1 DEF LaneInv, LaneTypes, lifecycle
<1>3. UNCHANGED <<frozen_buffer_, freezes, epoch, guards, last_id, fate>>
  BY <1>1 DEF lifecycle
<1>4. LaneInv'
  BY <1>1, <1>2, <1>3, SwapKeepsLanes
<1>5. TokenInv' /\ ClosingFits'
  BY <1>1 DEF IInv, TokenInv, ClosingFits, lifecycle, guards, posting
<1> QED
  BY <1>4, <1>5 DEF IInv

\* ... or a shutdown, which drains first.
LEMMA ShutdownHolds ==
    ASSUME IInv, Shutdown
    PROVE  IInv'
<1>1. /\ LaneInv /\ batches = <<>> /\ epoch < MaxEpoch /\ closing' = TRUE
      /\ UNCHANGED <<frozen_buffer_, freezes, initialized_, shut_down_, epoch, running,
                     guards, posting, last_id, fate>>
  BY DEF IInv, Shutdown
<1>2. TokenInv' /\ ClosingFits'
  BY <1>1 DEF IInv, TokenInv, ClosingFits, guards, posting
<1>3. {initialized_', shut_down_', closing'} \subseteq BOOLEAN
  BY <1>1 DEF LaneInv, LaneTypes
<1>4. running' = FALSE
  BY <1>1 DEF LaneInv, LaneTypes, RunsInABatch
<1>5. CASE pending_ = <<>>
  <2>1. pending_' = pending_ /\ batches' = batches
    BY <1>5 DEF Shutdown
  <2>2. LaneTypes'
    BY <1>1, <1>3, <2>1 DEF LaneInv, LaneTypes, guards
  <2>3. held' = held
    BY <1>1, <2>1 DEF held
  <2> QED
    BY <1>1, <1>2, <2>1, <2>2, <2>3
    DEF IInv, LaneInv, HeadsAreThere, RunsInABatch, BufferNeedsFreeze, HeldAreSound, guards
<1>6. CASE pending_ # <<>>
  <2>1. batches' = <<pending_>> /\ pending_' = <<>>
    BY <1>6 DEF Shutdown
  <2>2. Append(batches, pending_) = <<pending_>>
    BY <1>1
  <2>3. UNCHANGED <<frozen_buffer_, freezes, epoch, guards, last_id, fate>>
    BY <1>1
  <2>4. LaneInv'
    BY <1>1, <1>3, <1>4, <1>6, <2>1, <2>2, <2>3, SwapKeepsLanes
  <2> QED
    BY <1>2, <2>4 DEF IInv
<1> QED
  BY <1>5, <1>6

\* Steps that leave the lanes alone.
LEMMA QuietStepsHold ==
    ASSUME IInv,
           \/ \E p \in Producers : CheckToken(p) \/ \E o \in Owners : TakeToken(p, o)
           \/ Freeze \/ InitQueue \/ UNCHANGED vars
    PROVE  IInv'
<1>1. /\ LaneInv /\ TokenInv /\ ClosingFits
  BY DEF IInv
<1>2. /\ pending_' = pending_ /\ frozen_buffer_' = frozen_buffer_ /\ batches' = batches
      /\ running' = running /\ generation' = generation /\ alive' = alive
      /\ last_id' = last_id /\ fate' = fate /\ epoch' = epoch /\ closing' = closing
  BY DEF CheckToken, TakeToken, Freeze, InitQueue, vars, queue, lifecycle, guards, posting
<1>3. held' = held
  BY <1>2 DEF held
<1>4. /\ freezes' \in Seq(Nat) /\ initialized_' \in BOOLEAN /\ shut_down_' \in BOOLEAN
      /\ freezes' = <<>> => freezes = <<>>
  <2>1. freezes \in Seq(Nat) /\ initialized_ \in BOOLEAN /\ shut_down_ \in BOOLEAN
    BY <1>1 DEF LaneInv, LaneTypes
  <2>2. CASE Freeze
    <3>1. Len(batches) \in Nat
      BY <1>1 DEF LaneInv, LaneTypes
    <3>2. freezes' = Append(freezes, Len(batches)) /\ UNCHANGED lifecycle
      BY <2>2 DEF Freeze, drain_depth_
    <3>3. freezes' \in Seq(Nat) /\ freezes' # <<>>
      BY <2>1, <3>1, <3>2
    <3> QED
      BY <2>1, <3>2, <3>3 DEF lifecycle
  <2>3. CASE InitQueue
    BY <2>1, <2>3 DEF InitQueue, queue
  <2>4. CASE UNCHANGED <<queue, lifecycle>>
    BY <2>1, <2>4 DEF queue, lifecycle
  <2>5. Freeze \/ InitQueue \/ UNCHANGED <<queue, lifecycle>>
    BY DEF CheckToken, TakeToken, vars
  <2> QED
    BY <2>2, <2>3, <2>4, <2>5
<1>5. LaneInv'
  <2>1. LaneTypes'
    BY <1>1, <1>2, <1>4 DEF LaneInv, LaneTypes
  <2>2. BufferNeedsFreeze'
    BY <1>1, <1>2, <1>4 DEF LaneInv, BufferNeedsFreeze
  <2> QED
    BY <1>1, <1>2, <1>3, <2>1, <2>2
    DEF LaneInv, HeadsAreThere, RunsInABatch, HeldAreSound
<1>6. TokenInv'
  <2>1. CASE UNCHANGED posting
    BY <1>1, <1>2, <2>1 DEF TokenInv, posting
  <2>2. ASSUME NEW p \in Producers, CheckToken(p) PROVE TokenInv'
    BY <1>1, <1>2, <2>2 DEF TokenInv, CheckToken
  <2>3. ASSUME NEW p \in Producers, NEW o \in Owners, TakeToken(p, o) PROVE TokenInv'
    <3>1. PICK t : t = [owner |-> o, snapshot |-> generation[o]]
      OBVIOUS
    <3>2. generation[o] \in Nat
      BY <1>1 DEF LaneInv, LaneTypes
    <3>3. t \in Tokens /\ Covered(t, generation, alive) /\ t # NoToken
      BY <2>3, <3>1, <3>2, NoTokenAssumption DEF Tokens, Covered, TakeToken
    <3>4. token' = [token EXCEPT ![p] = t] /\ checked' = checked
      BY <2>3, <3>1 DEF TakeToken
    <3> QED
      BY <1>1, <1>2, <3>3, <3>4 DEF TokenInv
  <2> QED
    BY <2>1, <2>2, <2>3 DEF Freeze, InitQueue, vars
<1>7. ClosingFits'
  BY <1>1, <1>2 DEF ClosingFits
<1> QED
  BY <1>5, <1>6, <1>7 DEF IInv

\* A guard is invalidated, with its owner or without.
LEMMA GuardStepsHold ==
    ASSUME IInv, NEW o \in Owners, Invalidate(o) \/ Destroy(o)
    PROVE  IInv'
<1>1. /\ LaneInv /\ TokenInv /\ ClosingFits
      /\ generation \in [Owners -> Nat] /\ alive \subseteq Owners
  BY DEF IInv, LaneInv, LaneTypes
<1>2. /\ pending_' = pending_ /\ frozen_buffer_' = frozen_buffer_ /\ batches' = batches
      /\ running' = running /\ last_id' = last_id /\ fate' = fate /\ epoch' = epoch
      /\ closing' = closing /\ freezes' = freezes /\ initialized_' = initialized_
      /\ shut_down_' = shut_down_ /\ token' = token /\ checked' = checked
      /\ generation' = [generation EXCEPT ![o] = @ + 1]
      /\ o \in alive /\ (alive' = alive \/ alive' = alive \ {o})
  BY DEF Invalidate, Destroy, queue, lifecycle, posting
<1>3. /\ generation' \in [Owners -> Nat] /\ alive' \subseteq Owners
      /\ \A q \in Owners : generation[q] \in Nat
      /\ generation'[o] = generation[o] + 1
      /\ \A q \in Owners : q # o => generation'[q] = generation[q] /\ (q \in alive <=> q \in alive')
  BY <1>1, <1>2
<1>4. ASSUME NEW t, t.snapshot \in Nat, Covered(t, generation, alive)
      PROVE  Covered(t, generation', alive')
  <2>1. CASE t.owner = o
    BY <1>2, <1>3, <1>4, <2>1 DEF Covered
  <2>2. CASE t.owner # o
    BY <1>3, <1>4, <2>2 DEF Covered
  <2> QED
    BY <2>1, <2>2
<1>5. held' = held
  BY <1>2 DEF held
<1>6. HeldAreSound'
  <2>1. \A e \in held : e.snapshot \in Nat
    BY <1>1, HeldFacts DEF Entries
  <2> QED
    BY <1>1, <1>2, <1>4, <1>5, <2>1 DEF LaneInv, HeldAreSound
<1>7. LaneInv'
  <2>1. LaneTypes'
    BY <1>1, <1>2, <1>3 DEF LaneInv, LaneTypes
  <2> QED
    BY <1>1, <1>2, <1>5, <1>6, <2>1
    DEF LaneInv, HeadsAreThere, RunsInABatch, BufferNeedsFreeze
<1>8. TokenInv'
  <2>1. \A p \in Producers : token[p] # NoToken => token[p].snapshot \in Nat
    BY <1>1 DEF TokenInv, Tokens
  <2>2. \A p \in Producers : token[p] # NoToken => Covered(token[p], generation', alive')
    BY <1>1, <1>4, <2>1 DEF TokenInv
  <2> QED
    BY <1>1, <1>2, <2>2 DEF TokenInv
<1> QED
  BY <1>1, <1>2, <1>7, <1>8 DEF IInv, ClosingFits

-----------------------------------------------------------------------------
(* The theorems.                                                           *)

\* Every step keeps the invariant.
LEMMA StepHolds == IInv /\ [Next]_vars => IInv'
<1> SUFFICES ASSUME IInv, [Next]_vars PROVE IInv'
  OBVIOUS
<1>1. CASE \E p \in Producers : PostDeferred(p)
  BY <1>1, PostDeferredHolds
<1>2. CASE \/ \E p \in Producers : CheckToken(p) \/ \E o \in Owners : TakeToken(p, o)
           \/ Freeze \/ InitQueue \/ UNCHANGED vars
  BY <1>2, QuietStepsHold
<1>3. CASE PostRaw \/ \E o \in Owners : PostFromMain(o)
  BY <1>3, PostsHold
<1>4. CASE TimerTick \/ Drain
  BY <1>4, SwapsHold
<1>5. CASE RunNext \/ Return \/ EndBatch \/ Thaw
  BY <1>5, RunNextHolds, ReturnHolds, EndBatchHolds, ThawHolds
<1>6. CASE \E o \in Owners : Invalidate(o) \/ Destroy(o)
  BY <1>6, GuardStepsHold
<1>7. CASE Shutdown \/ FinishShutdown
  BY <1>7, ShutdownHolds, FinishShutdownHolds
<1> QED
  BY <1>1, <1>2, <1>3, <1>4, <1>5, <1>6, <1>7 DEF Next

\* The inductive invariant holds throughout.
THEOREM Invariance == Spec => []IInv
<1> QED
  BY InitHolds, StepHolds, PTL DEF Spec

\* The queue, the nested batches and the freeze buffer together hold each
\* accepted callback once, oldest first, through every nesting of drains and
\* freezes and across shutdowns: queue_impl(), process_pending(),
\* ~ScopedFreeze() and shutdown_internal() lose and reorder nothing.
THEOREM QueueStaysIntact == Spec => []QueueIsIntact
<1>1. IInv => QueueIsIntact
  BY InvariantImplies
<1> QED
  BY Invariance, <1>1, PTL

\* No callback crosses a shutdown, not even one a live ScopedFreeze holds.
THEOREM SessionsStayApart == Spec => []NoStaleSession
<1>1. IInv => NoStaleSession
  BY InvariantImplies
<1> QED
  BY Invariance, <1>1, PTL

\* The body of a deferred callback starts only while its owner is alive: the
\* generation check in the queued lambda covers every callback that
\* LifetimeToken::defer() let through before the owner was destroyed.
THEOREM BodiesRunOnLivingOwners == Spec => NoBodyOnDeadOwner
<1>1. ASSUME IInv, Next, NEW e \in Unfinished, fate[e.id] = "waiting", fate'[e.id] = "ran",
             e.owner # NoOwner
      PROVE  e.owner \in alive
  <2>1. /\ LaneInv /\ e \in held
        /\ fate \in [Ids -> {"none", "waiting", "ran", "skipped", "discarded"}]
    BY <1>1, InvariantImplies DEF IInv, LaneInv, LaneTypes
  <2>2. e \in Entries /\ Unique(held) /\ e.id \in Ids
    BY <2>1, HeldFacts
  <2>3. RunNext
    <3>1. CASE \E p \in Producers : PostDeferred(p)
      <4>1. PICK p \in Producers : PostDeferred(p)
        BY <3>1
      <4> QED
        BY <1>1, <2>1, <2>2, <4>1 DEF PostDeferred, QueueImpl
    <3>2. CASE PostRaw \/ \E o \in Owners : PostFromMain(o)
      BY <1>1, <2>1, <2>2, <3>2 DEF PostRaw, PostFromMain, QueueImpl
    <3>3. CASE FinishShutdown
      BY <1>1, <2>1, <2>2, <3>3 DEF FinishShutdown
    <3>4. CASE UNCHANGED fate
      BY <1>1, <3>4
    <3>5. \/ RunNext \/ FinishShutdown \/ PostRaw \/ UNCHANGED fate
          \/ (\E p \in Producers : PostDeferred(p)) \/ (\E o \in Owners : PostFromMain(o))
      BY <1>1 DEF Next, CheckToken, TakeToken, TimerTick, Drain, Return, EndBatch, Freeze, Thaw,
                  EndFreeze, Invalidate, Destroy, Shutdown, InitQueue
    <3> QED
      BY <3>1, <3>2, <3>3, <3>4, <3>5
  <2>4. PICK h : h = Head(Last(batches))
    OBVIOUS
  <2>5. h \in held /\ h.id \in Ids
    BY <2>1, <2>3, <2>4, HeadIsHeld DEF RunNext
  <2>6. ~Expired(h) /\ fate' = [fate EXCEPT ![h.id] = "ran"]
    <3>1. CASE fate' = [fate EXCEPT ![h.id] = "skipped"]
      BY <1>1, <2>1, <2>2, <2>5, <3>1
    <3> QED
      BY <2>3, <2>4, <3>1 DEF RunNext
  <2>7. e = h
    <3>1. e.id = h.id
      BY <1>1, <2>1, <2>2, <2>5, <2>6
    <3> QED
      BY <2>1, <2>2, <2>5, <3>1 DEF Unique
  <2>8. e.owner \in Owners /\ generation[e.owner] = e.snapshot /\ e.snapshot \in Nat
    BY <1>1, <2>2, <2>6, <2>7 DEF Entries, Expired
  <2>9. Covered(e, generation, alive)
    BY <2>1 DEF LaneInv, HeldAreSound
  <2> QED
    BY <2>8, <2>9 DEF Covered
<1>2. IInv /\ [Next]_vars =>
          [\A e \in Unfinished : fate[e.id] = "waiting" /\ fate'[e.id] = "ran" /\ e.owner # NoOwner =>
               e.owner \in alive]_vars
  BY <1>1
<1> QED
  BY Invariance, <1>2, PTL DEF Spec, NoBodyOnDeadOwner

\* While a freeze is held nothing accepted reaches the queue, so a drain under
\* it runs only what was there before: queue_impl() diverts, and only the last
\* ~ScopedFreeze() splices.
THEOREM FreezesHold == Spec => FreezeHolds
<1>1. ASSUME IInv, Next, freezes # <<>>, freezes' # <<>>
      PROVE  Range(pending_') \subseteq Range(pending_)
  <2>1. freezes \in Seq(Nat)
    BY <1>1 DEF IInv, LaneInv, LaneTypes
  <2>2. freeze_depth_ > 0
    BY <1>1, <2>1 DEF freeze_depth_
  <2>3. CASE UNCHANGED pending_
    BY <2>3
  <2>4. CASE pending_' = <<>>
    <3>1. DOMAIN <<>> = {}
      OBVIOUS
    <3> QED
      BY <2>4, <3>1 DEF Range
  <2>5. ~ (Thaw /\ freeze_depth_ = 1)
    <3> SUFFICES ASSUME Thaw, freeze_depth_ = 1 PROVE FALSE
      OBVIOUS
    <3>1. freezes' = Front(freezes) /\ Len(freezes) = 1
      BY DEF Thaw, EndFreeze, freeze_depth_
    <3>2. Front(freezes) \in Seq(Nat) /\ Len(Front(freezes)) = 0
      BY <1>1, <2>1, <3>1, FrontAndLast
    <3>3. Front(freezes) = <<>>
      BY <3>2
    <3> QED
      BY <1>1, <3>1, <3>3
  <2>6. \A o, s : QueueImpl(o, s) => UNCHANGED pending_
    BY <2>2 DEF QueueImpl
  <2> QED
    BY <1>1, <2>3, <2>4, <2>5, <2>6
    DEF Next, CheckToken, TakeToken, PostDeferred, PostRaw, PostFromMain, TimerTick, Drain,
        ProcessPending, RunNext, Return, EndBatch, Freeze, Thaw, Invalidate, Destroy, Shutdown,
        FinishShutdown, InitQueue, queue
<1>2. IInv /\ [Next]_vars =>
          [freezes # <<>> /\ freezes' # <<>> => Range(pending_') \subseteq Range(pending_)]_vars
  BY <1>1
<1> QED
  BY Invariance, <1>2, PTL DEF Spec, FreezeHolds
=============================================================================
