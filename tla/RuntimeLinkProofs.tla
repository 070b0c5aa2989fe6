------------------------- MODULE RuntimeLinkProofs --------------------------
(***************************************************************************)
(* The safety properties of RuntimeLink for any workers, keys and actions, *)
(* any capacity and any retention.  The spool drops items out of the       *)
(* middle of its queue; that what stays is again a queue rests on the      *)
(* ascending enumeration of a finite set of positions, which is shown to   *)
(* exist by descent on the largest position.                               *)
(***************************************************************************)
EXTENDS RuntimeLink, FiniteSetTheorems, WellFoundedInduction, TLAPS

-----------------------------------------------------------------------------
(* Ascending.                                                              *)

\* f lists the members of S in ascending order.
Lists(f, S) == /\ f \in [1 .. Cardinality(S) -> S]
               /\ \A i, j \in 1 .. Cardinality(S) : i < j => f[i] < f[j]

\* Every set of natural numbers that is not empty has a least member.
LEMMA LeastNumber ==
    ASSUME NEW T \in SUBSET Nat, T # {}
    PROVE  \E n \in T : \A m \in T : ~ (m < n)
<1>1. IsWellFoundedOn(OpToRel(<, Nat), Nat)
  BY NatLessThanWellFounded
<1>2. PICK n \in T : \A m \in T : ~ (<<m, n>> \in OpToRel(<, Nat))
  BY <1>1, WFMin
<1>3. \A m \in T : m < n => <<m, n>> \in OpToRel(<, Nat)
  BY DEF OpToRel
<1> QED
  BY <1>2, <1>3

\* A set of positions can be listed in ascending order.
LEMMA CanBeListed ==
    ASSUME NEW n \in Nat, NEW S \in SUBSET (1 .. n)
    PROVE  \E f : Lists(f, S)
<1> DEFINE Bad == {m \in Nat : \E U \in SUBSET (1 .. m) : ~ \E f : Lists(f, U)}
<1> SUFFICES ASSUME Bad # {} PROVE FALSE
  OBVIOUS
<1>1. PICK m \in Bad : \A k \in Bad : ~ (k < m)
  BY LeastNumber
<1>2. PICK U \in SUBSET (1 .. m) : ~ \E f : Lists(f, U)
  OBVIOUS
<1>3. IsFiniteSet(U) /\ Cardinality(U) \in Nat
  <2>1. 1 \in Int /\ m \in Int
    OBVIOUS
  <2>2. IsFiniteSet(1 .. m)
    BY <2>1, FS_Interval
  <2> QED
    BY <2>2, FS_Subset, FS_CardinalityType
<1>4. CASE U = {}
  <2>1. Cardinality(U) = 0
    BY <1>4, FS_EmptySet
  <2>2. Lists([i \in {} |-> i], U)
    BY <1>4, <2>1 DEF Lists
  <2> QED
    BY <1>2, <2>2
<1>5. CASE U # {}
  <2>1. m \in Nat /\ m # 0 /\ m - 1 \in Nat
    <3>1. PICK u \in U : u \in 1 .. m
      BY <1>5
    <3>2. m \in Nat
      OBVIOUS
    <3> QED
      BY <3>1, <3>2
  <2>2. m - 1 \notin Bad
    <3>1. m - 1 < m
      BY <2>1
    <3> HIDE DEF Bad
    <3> QED
      BY <1>1, <3>1
  <2>3. \A W \in SUBSET (1 .. m - 1) : \E f : Lists(f, W)
    BY <2>1, <2>2
  <2>4. m \in U
    <3>1. m \notin U => U \in SUBSET (1 .. m - 1)
      OBVIOUS
    <3> QED
      BY <1>2, <2>3, <3>1
  <2> DEFINE V == U \ {m}
             c == Cardinality(V)
  <2>5. V \in SUBSET (1 .. m - 1)
    OBVIOUS
  <2>6. PICK g : Lists(g, V)
    BY <2>3, <2>5
  <2>7. c \in Nat /\ Cardinality(U) = c + 1
    <3>1. IsFiniteSet(V) /\ c = Cardinality(U) - 1
      BY <1>3, <2>4, FS_RemoveElement
    <3>2. c \in Nat
      BY <3>1, FS_CardinalityType
    <3> HIDE DEF c
    <3> QED
      BY <1>3, <3>1, <3>2
  <2> DEFINE f == [i \in 1 .. c + 1 |-> IF i <= c THEN g[i] ELSE m]
  <2> HIDE DEF c
  <2>8. \A i \in 1 .. c : g[i] \in V
    BY <2>6 DEF Lists, c
  <2>9. f \in [1 .. c + 1 -> U]
    BY <2>4, <2>7, <2>8
  <2>10. ASSUME NEW i \in 1 .. c + 1, NEW j \in 1 .. c + 1, i < j PROVE f[i] < f[j]
    <3>1. i \in 1 .. c /\ f[i] = g[i]
      BY <2>7, <2>10
    <3>2. g[i] \in 1 .. m - 1
      BY <2>5, <2>8, <3>1
    <3>3. CASE j = c + 1
      <4>1. f[j] = m
        BY <2>7, <3>3
      <4> QED
        BY <3>1, <3>2, <4>1
    <3>4. CASE j # c + 1
      <4>1. j \in 1 .. c /\ f[j] = g[j]
        BY <2>7, <3>4
      <4> QED
        BY <2>6, <2>10, <3>1, <4>1 DEF Lists, c
    <3> QED
      BY <3>3, <3>4
  <2> HIDE DEF f
  <2>11. Lists(f, U)
    BY <2>7, <2>9, <2>10 DEF Lists
  <2> QED
    BY <1>2, <2>11
<1> QED
  BY <1>4, <1>5

\* What Ascending returns for the positions of a queue: an ascending list that
\* leaves none out.
LEMMA AscendingFacts ==
    ASSUME NEW n \in Nat, NEW S \in SUBSET (1 .. n)
    PROVE  /\ Lists(Ascending(S), S)
           /\ Cardinality(S) \in Nat /\ Cardinality(S) <= n
           /\ \A x \in S : \E i \in 1 .. Cardinality(S) : Ascending(S)[i] = x
<1>1. 1 \in Int /\ n \in Int /\ n - 1 + 1 = n
  OBVIOUS
<1>2. IsFiniteSet(1 .. n) /\ Cardinality(1 .. n) = n
  BY <1>1, FS_Interval
<1>3. IsFiniteSet(S) /\ Cardinality(S) \in Nat /\ Cardinality(S) <= n
  BY <1>2, FS_Subset, FS_CardinalityType
<1> DEFINE c == Cardinality(S)
           f == Ascending(S)
<1>4. Lists(f, S)
  <2>1. \E g \in [1 .. c -> S] : \A i, j \in 1 .. c : i < j => g[i] < g[j]
    BY CanBeListed DEF Lists
  <2> QED
    BY <2>1 DEF Ascending, Lists
<1> HIDE DEF f, c
<1>5. f \in [1 .. c -> S] /\ \A i, j \in 1 .. c : i < j => f[i] < f[j]
  BY <1>4 DEF Lists, c
<1>6. c \in Int /\ 1 \in Int /\ c \in Nat
  BY <1>3 DEF c
<1>7. IsFiniteSet(1 .. c) /\ Cardinality(1 .. c) = c
  BY <1>6, FS_Interval
<1>8. \A i, j \in 1 .. c : f[i] = f[j] => i = j
  <2> SUFFICES ASSUME NEW i \in 1 .. c, NEW j \in 1 .. c, i # j PROVE f[i] # f[j]
    OBVIOUS
  <2>1. f[i] \in S /\ f[j] \in S
    BY <1>5
  <2>2. f[i] \in Nat /\ f[j] \in Nat
    <3>1. \A x \in S : x \in Nat
      OBVIOUS
    <3> QED
      BY <2>1, <3>1
  <2>3. i < j \/ j < i
    BY <1>6
  <2> QED
    BY <1>5, <2>2, <2>3
<1>9. f \in Injection(1 .. c, S)
  BY <1>5, <1>8 DEF Injection, IsInjective
<1>10. Cardinality(1 .. c) = Cardinality(S)
  BY <1>7 DEF c
<1>11. f \in Surjection(1 .. c, S)
  BY <1>3, <1>9, <1>10, FS_Injection
<1>12. \A x \in S : \E i \in 1 .. c : f[i] = x
  BY <1>11 DEF Surjection
<1> QED
  BY <1>3, <1>4, <1>12 DEF f, c

-----------------------------------------------------------------------------
(* The inductive invariant.                                                *)

\* Where a handler stands between its calls says what session and spool hold:
\* the first call moved the session, the spool is still to follow.
HandlerAgrees ==
    /\ handler = "idle" => link = session
    /\ handler = "disconnecting" => session = "disconnected"
    /\ handler = "sweeping" => session = "disconnected" /\ link = "disconnected"
    /\ handler = "beginning" => session = "reconnecting" /\ link # "connected"
    /\ handler = "completing" => session = "connected"

\* An item still pending has not left.
PendingUnsent == \A i \in DOMAIN items : items[i].outcome = "pending" => ~ items[i].sent

LinkInv == /\ LinkTypeOK
           /\ SpoolWellFormed
           /\ LeftBeforeDisconnectIsInDoubt
           /\ HandlerAgrees
           /\ PendingUnsent

\* The parts of SpoolWellFormed, of any queue and any index.
Ordered(its) == \A i, j \in DOMAIN its : i < j =>
                    its[i].seq < its[j].seq /\ its[i].fence <= its[j].fence
Under(its, next, token) ==
    \A i \in DOMAIN its : its[i].seq < next /\ its[i].fence <= token
Indexed(its, index) ==
    /\ \A k \in Keys : index[k] # 0 <=>
            \E i \in DOMAIN its : its[i].key = k /\ its[i].seq = index[k]
    /\ \A i \in DOMAIN its : index[its[i].key] = its[i].seq

\* SpoolWellFormed is its three parts.
LEMMA SpoolParts ==
    SpoolWellFormed <=> /\ Ordered(items)
                        /\ Under(items, nextSeq, fence)
                        /\ Indexed(items, byKey)
BY DEF SpoolWellFormed, Ordered, Under, Indexed

-----------------------------------------------------------------------------
(* Queues of items.                                                        *)

\* The fields of an item that the proofs use.
LEMMA ItemFields ==
    ASSUME NEW x \in Item
    PROVE  /\ x.seq \in Nat /\ x.seq # 0 /\ x.fence \in Nat
           /\ x.key \in Keys /\ x.outcome \in Outcomes
BY RuntimeLinkAssumption DEF Item

\* A function on the first n numbers is a queue of length n.
LEMMA IsQueue ==
    ASSUME NEW n \in Nat, NEW its \in [1 .. n -> Item]
    PROVE  its \in Seq(Item) /\ Len(its) = n /\ DOMAIN its = 1 .. n
OBVIOUS

\* jts changes nothing but the outcome and the sent flag of the items of its.
SameQueue(its, jts) ==
    /\ DOMAIN jts = DOMAIN its
    /\ \A i \in DOMAIN its : /\ jts[i].seq = its[i].seq
                             /\ jts[i].key = its[i].key
                             /\ jts[i].fence = its[i].fence

\* Such a change leaves the queue in order and the index right.
LEMMA SameQueueKeeps ==
    ASSUME NEW its, NEW jts, NEW next, NEW token, NEW index, SameQueue(its, jts),
           Ordered(its), Under(its, next, token), Indexed(its, index)
    PROVE  Ordered(jts) /\ Under(jts, next, token) /\ Indexed(jts, index)
<1>1. Ordered(jts)
  BY DEF SameQueue, Ordered
<1>2. Under(jts, next, token)
  BY DEF SameQueue, Under
<1>3. Indexed(jts, index)
  BY DEF SameQueue, Indexed
<1> QED
  BY <1>1, <1>2, <1>3

\* In a queue in order a sequence number names one item.
LEMMA SeqNamesItem ==
    ASSUME NEW its \in Seq(Item), Ordered(its),
           NEW i \in DOMAIN its, NEW j \in DOMAIN its, its[i].seq = its[j].seq
    PROVE  i = j
<1>1. i \in Nat /\ j \in Nat /\ its[i] \in Item /\ its[j] \in Item
  OBVIOUS
<1>2. its[i].seq \in Nat /\ its[j].seq \in Nat
  BY <1>1, ItemFields
<1>3. ~ (i < j) /\ ~ (j < i)
  BY <1>2 DEF Ordered
<1> QED
  BY <1>1, <1>3

\* What a drop leaves: a queue of items of the old one, in the old order, that
\* misses none but those dropped.
LEMMA KeptFacts ==
    ASSUME items \in Seq(Item), NEW gone \in SUBSET DOMAIN items
    PROVE  /\ Kept(gone) \in Seq(Item) /\ Len(Kept(gone)) <= Len(items)
           /\ \E f \in [DOMAIN Kept(gone) -> DOMAIN items \ gone] :
                /\ \A i, j \in DOMAIN Kept(gone) : i < j => f[i] < f[j]
                /\ \A x \in DOMAIN items \ gone : \E i \in DOMAIN Kept(gone) : f[i] = x
                /\ \A i \in DOMAIN Kept(gone) : Kept(gone)[i] = items[f[i]]
<1> DEFINE stay == DOMAIN items \ gone
           c == Cardinality(stay)
           f == Ascending(stay)
<1>1. Len(items) \in Nat /\ DOMAIN items = 1 .. Len(items)
  OBVIOUS
<1>2. stay \in SUBSET (1 .. Len(items))
  BY <1>1
<1>3. /\ Lists(f, stay) /\ c \in Nat /\ c <= Len(items)
      /\ \A x \in stay : \E i \in 1 .. c : f[i] = x
  BY <1>1, <1>2, AscendingFacts
<1>4. f \in [1 .. c -> stay] /\ \A i, j \in 1 .. c : i < j => f[i] < f[j]
  BY <1>3 DEF Lists
<1>5. Kept(gone) = [i \in 1 .. c |-> items[f[i]]]
  BY DEF Kept
<1> HIDE DEF c, f
<1>6. \A i \in 1 .. c : f[i] \in stay /\ items[f[i]] \in Item
  BY <1>4
<1>7. Kept(gone) \in [1 .. c -> Item]
  BY <1>5, <1>6
<1>8. Kept(gone) \in Seq(Item) /\ Len(Kept(gone)) = c /\ DOMAIN Kept(gone) = 1 .. c
  BY <1>3, <1>7, IsQueue
<1>9. \A i \in 1 .. c : Kept(gone)[i] = items[f[i]]
  BY <1>5
<1>10. /\ f \in [DOMAIN Kept(gone) -> stay]
       /\ \A i, j \in DOMAIN Kept(gone) : i < j => f[i] < f[j]
       /\ \A x \in stay : \E i \in DOMAIN Kept(gone) : f[i] = x
       /\ \A i \in DOMAIN Kept(gone) : Kept(gone)[i] = items[f[i]]
  <2>1. \A x \in stay : \E i \in 1 .. c : f[i] = x
    BY <1>3
  <2>2. DOMAIN Kept(gone) = 1 .. c
    BY <1>8
  <2> QED
    BY <1>4, <1>9, <2>1, <2>2
<1>11. Kept(gone) \in Seq(Item) /\ Len(Kept(gone)) <= Len(items)
  BY <1>3, <1>8
<1> QED
  BY <1>10, <1>11, Zenon

\* A drop that takes the keys of the items it drops out of the index leaves the
\* queue in order and the index right.
LEMMA KeptKeeps ==
    ASSUME items \in Seq(Item), byKey \in [Keys -> 0 .. LastSeq],
           SpoolWellFormed, NEW gone \in SUBSET DOMAIN items
    PROVE  /\ Ordered(Kept(gone))
           /\ Under(Kept(gone), nextSeq, fence)
           /\ Indexed(Kept(gone), Forget(gone))
<1> DEFINE K == Kept(gone)
           B == Forget(gone)
<1>1. Ordered(items) /\ Under(items, nextSeq, fence) /\ Indexed(items, byKey)
  BY SpoolParts
<1>2. PICK f \in [DOMAIN K -> DOMAIN items \ gone] :
        /\ \A i, j \in DOMAIN K : i < j => f[i] < f[j]
        /\ \A x \in DOMAIN items \ gone : \E i \in DOMAIN K : f[i] = x
        /\ \A i \in DOMAIN K : K[i] = items[f[i]]
  BY KeptFacts
<1>3. \A k \in Keys : B[k] = IF \E i \in gone : items[i].key = k THEN 0 ELSE byKey[k]
  BY DEF Forget
<1> HIDE DEF K, B
<1>4. \A i \in DOMAIN K : f[i] \in DOMAIN items /\ f[i] \notin gone /\ K[i] = items[f[i]]
  BY <1>2
<1>5. Ordered(K)
  BY <1>1, <1>2, <1>4 DEF Ordered
<1>6. Under(K, nextSeq, fence)
  BY <1>1, <1>4 DEF Under
<1>7. \A i \in DOMAIN items : items[i] \in Item
  OBVIOUS
<1>8. ASSUME NEW x \in DOMAIN items, x \notin gone
      PROVE  B[items[x].key] = items[x].seq
  <2>1. items[x].key \in Keys /\ byKey[items[x].key] = items[x].seq
    BY <1>1, <1>7, ItemFields DEF Indexed
  <2>2. ASSUME NEW g \in gone, items[g].key = items[x].key PROVE FALSE
    <3>1. items[g].seq = items[x].seq
      BY <1>1, <2>1, <2>2 DEF Indexed
    <3>2. g = x
      BY <1>1, <3>1, SeqNamesItem
    <3> QED
      BY <1>8, <3>2
  <2> QED
    BY <1>3, <2>1, <2>2
<1>9. ASSUME NEW k \in Keys
      PROVE  B[k] # 0 <=> \E i \in DOMAIN K : K[i].key = k /\ K[i].seq = B[k]
  <2>1. ASSUME B[k] # 0 PROVE \E i \in DOMAIN K : K[i].key = k /\ K[i].seq = B[k]
    <3>1. B[k] = byKey[k] /\ ~ \E i \in gone : items[i].key = k
      BY <1>3, <2>1
    <3>2. PICK x \in DOMAIN items : items[x].key = k /\ items[x].seq = byKey[k]
      BY <1>1, <2>1, <3>1 DEF Indexed
    <3>3. x \in DOMAIN items \ gone
      BY <3>1, <3>2
    <3>4. PICK i \in DOMAIN K : f[i] = x
      BY <1>2, <3>3
    <3> QED
      BY <1>4, <3>1, <3>2, <3>4
  <2>2. ASSUME NEW i \in DOMAIN K, K[i].seq = B[k] PROVE B[k] # 0
    BY <1>4, <1>7, <2>2, ItemFields
  <2> QED
    BY <2>1, <2>2
<1>10. Indexed(K, B)
  BY <1>4, <1>8, <1>9 DEF Indexed
<1> QED
  BY <1>5, <1>6, <1>10 DEF K, B

\* An enqueue under a free key leaves the queue in order and the index right.
LEMMA AppendKeeps ==
    ASSUME LinkTypeOK, SpoolWellFormed, nextSeq <= LastSeq, NEW x \in Item,
           x.seq = nextSeq, x.fence = fence, byKey[x.key] = 0
    PROVE  /\ Append(items, x) \in Seq(Item) /\ Len(Append(items, x)) = Len(items) + 1
           /\ Ordered(Append(items, x))
           /\ Under(Append(items, x), nextSeq + 1, fence)
           /\ Indexed(Append(items, x), [byKey EXCEPT ![x.key] = nextSeq])
<1> DEFINE A == Append(items, x)
           B == [byKey EXCEPT ![x.key] = nextSeq]
           n == Len(items)
<1>1. Ordered(items) /\ Under(items, nextSeq, fence) /\ Indexed(items, byKey)
  BY SpoolParts
<1>2. /\ items \in Seq(Item) /\ n \in Nat /\ DOMAIN items = 1 .. n
      /\ nextSeq \in Nat /\ nextSeq # 0 /\ fence \in Nat
      /\ byKey \in [Keys -> 0 .. LastSeq]
  BY RuntimeLinkAssumption DEF LinkTypeOK
<1>3. /\ A \in Seq(Item) /\ Len(A) = n + 1 /\ DOMAIN A = 1 .. n + 1
      /\ A[n + 1] = x /\ \A i \in 1 .. n : A[i] = items[i]
  BY <1>2
<1>4. x.key \in Keys /\ B[x.key] = nextSeq /\ \A k \in Keys : k # x.key => B[k] = byKey[k]
  BY <1>2, ItemFields
<1> HIDE DEF A, B, n
<1>5. \A i \in DOMAIN A : i = n + 1 \/ i \in DOMAIN items
  BY <1>2, <1>3
<1>6. \A i \in DOMAIN items : items[i] \in Item /\ i \in DOMAIN A /\ A[i] = items[i]
  BY <1>2, <1>3
<1>7. n + 1 \in DOMAIN A /\ \A i \in DOMAIN items : i \in Nat /\ i < n + 1
  BY <1>2, <1>3
<1>8. \A i \in DOMAIN items : /\ items[i].seq \in Nat /\ items[i].seq < nextSeq
                              /\ items[i].fence \in Nat /\ items[i].fence <= fence
                              /\ items[i].seq # 0 /\ items[i].key \in Keys
  BY <1>1, <1>6, ItemFields DEF Under
<1>9. Ordered(A)
  <2> SUFFICES ASSUME NEW i \in DOMAIN A, NEW j \in DOMAIN A, i < j
               PROVE  A[i].seq < A[j].seq /\ A[i].fence <= A[j].fence
    BY DEF Ordered
  <2>1. i \in DOMAIN items
    BY <1>2, <1>3, <1>5
  <2>2. CASE j = n + 1
    BY <1>3, <1>6, <1>8, <2>1, <2>2
  <2>3. CASE j \in DOMAIN items
    BY <1>1, <1>6, <2>1, <2>3 DEF Ordered
  <2> QED
    BY <1>5, <2>2, <2>3
<1>10. Under(A, nextSeq + 1, fence)
  <2> SUFFICES ASSUME NEW i \in DOMAIN A
               PROVE  A[i].seq < nextSeq + 1 /\ A[i].fence <= fence
    BY DEF Under
  <2> QED
    BY <1>2, <1>3, <1>5, <1>6, <1>8
<1>11. \A i \in DOMAIN items : items[i].key # x.key
  BY <1>1, <1>8 DEF Indexed
<1>12. Indexed(A, B)
  <2>1. ASSUME NEW i \in DOMAIN A PROVE B[A[i].key] = A[i].seq
    <3>1. CASE i = n + 1
      BY <1>3, <1>4, <3>1
    <3>2. CASE i \in DOMAIN items
      BY <1>1, <1>4, <1>6, <1>8, <1>11, <3>2 DEF Indexed
    <3> QED
      BY <1>5, <3>1, <3>2
  <2>2. ASSUME NEW k \in Keys, B[k] # 0
        PROVE  \E i \in DOMAIN A : A[i].key = k /\ A[i].seq = B[k]
    <3>1. CASE k = x.key
      BY <1>3, <1>4, <1>7, <3>1
    <3>2. CASE k # x.key
      <4>1. B[k] = byKey[k]
        BY <1>4, <3>2
      <4>2. PICK i \in DOMAIN items : items[i].key = k /\ items[i].seq = byKey[k]
        BY <1>1, <2>2, <4>1 DEF Indexed
      <4> QED
        BY <1>6, <4>1, <4>2
    <3> QED
      BY <3>1, <3>2
  <2>3. \A i \in DOMAIN A : A[i].seq # 0
    BY <1>2, <1>3, <1>5, <1>6, <1>8
  <2> QED
    BY <2>1, <2>2, <2>3 DEF Indexed
<1> QED
  BY <1>3, <1>9, <1>10, <1>12 DEF A, B, n

\* The sweep of NextReplayable touches no outcome but dispatched, and leaves
\* none dispatched while the link is down.
LEMMA SweptFacts ==
    ASSUME LinkTypeOK
    PROVE  /\ Swept \in Seq(Item) /\ Len(Swept) = Len(items)
           /\ SameQueue(items, Swept)
           /\ \A i \in DOMAIN items :
                /\ Swept[i].sent = items[i].sent
                /\ Swept[i].outcome = "pending" <=> items[i].outcome = "pending"
                /\ Swept[i].outcome = "dispatched" =>
                        items[i].outcome = "dispatched" /\ link # "disconnected"
<1>1. items \in Seq(Item) /\ Len(items) \in Nat /\ DOMAIN items = 1 .. Len(items)
  BY DEF LinkTypeOK
<1>2. CASE link # "disconnected"
  <2>1. Swept = items
    BY <1>2 DEF Swept
  <2> QED
    BY <1>1, <1>2, <2>1 DEF SameQueue
<1>3. CASE link = "disconnected"
  <2>1. Swept = [i \in DOMAIN items |->
                    IF items[i].outcome = "dispatched"
                    THEN [items[i] EXCEPT !.outcome = "indeterminate"] ELSE items[i]]
    BY <1>3 DEF Swept
  <2>2. DOMAIN Swept = 1 .. Len(items)
    BY <1>1, <2>1
  <2>3. ASSUME NEW i \in DOMAIN items
        PROVE  /\ Swept[i] \in Item /\ Swept[i].sent = items[i].sent
               /\ Swept[i].seq = items[i].seq /\ Swept[i].key = items[i].key
               /\ Swept[i].fence = items[i].fence
               /\ Swept[i].outcome = "pending" <=> items[i].outcome = "pending"
               /\ Swept[i].outcome # "dispatched"
    <3>1. items[i] \in Item
      BY <1>1
    <3>2. CASE items[i].outcome = "dispatched"
      <4>1. Swept[i] = [items[i] EXCEPT !.outcome = "indeterminate"]
        BY <2>1, <3>2
      <4> QED
        BY <3>1, <3>2, <4>1 DEF Item, Outcomes
    <3>3. CASE items[i].outcome # "dispatched"
      <4>1. Swept[i] = items[i]
        BY <2>1, <3>3
      <4> QED
        BY <3>1, <3>3, <4>1
    <3> QED
      BY <3>2, <3>3
  <2>4. Swept \in [1 .. Len(items) -> Item]
    <3>1. Swept = [i \in 1 .. Len(items) |-> Swept[i]]
      BY <1>1, <2>1
    <3> QED
      BY <1>1, <2>3, <3>1
  <2>5. Swept \in Seq(Item) /\ Len(Swept) = Len(items)
    BY <1>1, <2>4, IsQueue
  <2>6. SameQueue(items, Swept)
    BY <1>1, <2>2, <2>3 DEF SameQueue
  <2> QED
    BY <2>3, <2>5, <2>6
<1> QED
  BY <1>2, <1>3

-----------------------------------------------------------------------------
(* The steps.                                                              *)

\* The initial state satisfies the invariant.
LEMMA InitLinkInv == LinkInit => LinkInv
<1> SUFFICES ASSUME LinkInit PROVE LinkInv
  OBVIOUS
<1>1. items = <<>> /\ DOMAIN items = {} /\ items \in Seq(Item) /\ Len(items) = 0
  BY DEF LinkInit
<1>2. LinkTypeOK
  BY <1>1, RuntimeLinkAssumption DEF LinkInit, LinkTypeOK, LinkStates
<1>3. SpoolWellFormed
  BY <1>1 DEF LinkInit, SpoolWellFormed
<1>4. LeftBeforeDisconnectIsInDoubt /\ HandlerAgrees /\ PendingUnsent
  BY <1>1 DEF LinkInit, LeftBeforeDisconnectIsInDoubt, HandlerAgrees, PendingUnsent
<1> QED
  BY <1>2, <1>3, <1>4 DEF LinkInv

\* The steps that leave the queue alone: the clock, the session's own methods
\* and every call of a handler but the sweep.
QueueStays ==
    \/ Tick
    \/ \E a \in Actions : \/ RecordDispatch(a)
                          \/ ClassifyAfterDisconnect(a)
                          \/ ResolveIndeterminate(a)
    \/ DisconnectRuntime \/ DisconnectSpool
    \/ BeginRuntimeReconnect \/ BeginSpool
    \/ CompleteRuntimeReconnect \/ CompleteSpool

\* They keep the items and never lower the fence.
LEMMA QueueStaysFacts ==
    ASSUME LinkInv, QueueStays
    PROVE  /\ UNCHANGED <<items, nextSeq, byKey, hand>>
           /\ fence' \in 1 .. LastFence /\ fence <= fence'
<1>1. fence \in 1 .. LastFence /\ fence \in Nat /\ LastFence \in Nat
  BY RuntimeLinkAssumption DEF LinkInv, LinkTypeOK
<1> QED
  BY <1>1 DEF QueueStays, Tick, RecordDispatch, ClassifyAfterDisconnect,
       ResolveIndeterminate, DisconnectRuntime, DisconnectSpool, BeginRuntimeReconnect,
       BeginSpool, CompleteRuntimeReconnect, CompleteSpool, SetConnectionState, queueVars

\* Such a step preserves the invariant.
LEMMA QueueStaysStep ==
    ASSUME LinkInv, QueueStays
    PROVE  LinkInv'
<1> USE DEF LinkInv
<1>1. /\ UNCHANGED <<items, nextSeq, byKey, hand>>
      /\ fence' \in 1 .. LastFence /\ fence <= fence'
  BY QueueStaysFacts
<1>2. LinkTypeOK'
  <2>1. /\ now' \in 0 .. Horizon
        /\ session' \in LinkStates /\ link' \in LinkStates
        /\ handler' \in {"idle", "disconnecting", "sweeping", "beginning", "completing"}
    BY RuntimeLinkAssumption DEF LinkTypeOK, LinkStates, QueueStays, Tick, RecordDispatch,
       ClassifyAfterDisconnect, ResolveIndeterminate, DisconnectRuntime, DisconnectSpool,
       BeginRuntimeReconnect, BeginSpool, CompleteRuntimeReconnect, CompleteSpool,
       SetConnectionState, queueVars
  <2>2. dispatches' \in [Actions -> {"none", "accepted", "indeterminate", "resolved"}]
    BY DEF LinkTypeOK, QueueStays, Tick, RecordDispatch,
       ClassifyAfterDisconnect, ResolveIndeterminate, DisconnectRuntime, DisconnectSpool,
       BeginRuntimeReconnect, BeginSpool, CompleteRuntimeReconnect, CompleteSpool
  <2> QED
    BY <1>1, <2>1, <2>2 DEF LinkTypeOK
<1>3. SpoolWellFormed'
  <2>1. \A i \in DOMAIN items : items[i].fence \in Nat
    BY ItemFields DEF LinkTypeOK
  <2>2. fence \in Nat /\ fence' \in Nat
    BY <1>1, RuntimeLinkAssumption DEF LinkTypeOK
  <2>3. \A i \in DOMAIN items : items[i].fence <= fence'
    BY <1>1, <2>1, <2>2 DEF SpoolWellFormed
  <2> QED
    BY <1>1, <2>3 DEF SpoolWellFormed
<1>4. HandlerAgrees'
  BY DEF HandlerAgrees, LinkTypeOK, QueueStays, Tick, RecordDispatch,
     ClassifyAfterDisconnect, ResolveIndeterminate, DisconnectRuntime, DisconnectSpool,
     BeginRuntimeReconnect, BeginSpool, CompleteRuntimeReconnect, CompleteSpool,
     SetConnectionState, queueVars
<1>5. LeftBeforeDisconnectIsInDoubt'
  <2>1. link' # "connected" /\ handler' # "sweeping"
            => link # "connected" /\ handler # "sweeping"
    BY DEF HandlerAgrees, QueueStays, Tick, RecordDispatch,
       ClassifyAfterDisconnect, ResolveIndeterminate, DisconnectRuntime, DisconnectSpool,
       BeginRuntimeReconnect, BeginSpool, CompleteRuntimeReconnect, CompleteSpool,
       SetConnectionState, queueVars
  <2>2. session' # "connected" => \A a \in Actions : dispatches'[a] # "accepted"
    BY DEF LeftBeforeDisconnectIsInDoubt, LinkTypeOK, HandlerAgrees, QueueStays, Tick,
       RecordDispatch, ClassifyAfterDisconnect, ResolveIndeterminate, DisconnectRuntime,
       DisconnectSpool, BeginRuntimeReconnect, BeginSpool, CompleteRuntimeReconnect,
       CompleteSpool
  <2> QED
    BY <1>1, <2>1, <2>2 DEF LeftBeforeDisconnectIsInDoubt
<1>6. PendingUnsent'
  BY <1>1 DEF PendingUnsent
<1> QED
  BY <1>2, <1>3, <1>4, <1>5, <1>6

\* An enqueue preserves the invariant.
LEMMA EnqueueStep ==
    ASSUME LinkInv, NEW k \in Keys, NEW risk \in Risks, NEW token \in 1 .. LastFence,
           Enqueue(k, risk, token)
    PROVE  LinkInv'
<1> DEFINE x == [seq |-> nextSeq, key |-> k, risk |-> risk, fence |-> token,
                 at |-> now, sent |-> FALSE, outcome |-> "pending"]
           n == Len(items)
<1> USE DEF LinkInv
<1>1. /\ nextSeq <= LastSeq /\ nextSeq \in 1 .. LastSeq /\ byKey[k] = 0 /\ token = fence
      /\ n < MaxSize /\ n \in Nat /\ LastSeq \in Nat /\ MaxSize \in Nat
  BY RuntimeLinkAssumption DEF Enqueue, MayEnqueue, LinkTypeOK
<1>2. /\ items' = Append(items, x) /\ nextSeq' = nextSeq + 1
      /\ byKey' = [byKey EXCEPT ![k] = nextSeq]
      /\ UNCHANGED <<now, session, dispatches, link, fence, handler, hand>>
  BY DEF Enqueue
<1>3. x \in Item
  BY <1>1 DEF Item, Outcomes, LinkTypeOK
<1>4. x.seq = nextSeq /\ x.key = k /\ x.fence = fence /\ x.outcome = "pending" /\ ~ x.sent
  BY <1>1
<1> HIDE DEF x
<1>5. /\ items' \in Seq(Item) /\ Len(items') = n + 1
      /\ Ordered(items') /\ Under(items', nextSeq', fence') /\ Indexed(items', byKey')
  BY <1>1, <1>2, <1>3, <1>4, AppendKeeps
<1>6. LinkTypeOK'
  <2>1. byKey' \in [Keys -> 0 .. LastSeq]
    BY <1>1, <1>2 DEF LinkTypeOK
  <2>2. Len(items') <= MaxSize /\ nextSeq' \in 1 .. LastSeq + 1
    BY <1>1, <1>2, <1>5
  <2> QED
    BY <1>2, <1>5, <2>1, <2>2 DEF LinkTypeOK
<1>7. SpoolWellFormed'
  BY <1>5 DEF SpoolWellFormed, Ordered, Under, Indexed
<1>8. \A i \in DOMAIN items' : items'[i] = x \/ (i \in DOMAIN items /\ items'[i] = items[i])
  <2>1. /\ items \in Seq(Item) /\ DOMAIN items = 1 .. n /\ DOMAIN items' = 1 .. n + 1
        /\ items'[n + 1] = x /\ \A i \in 1 .. n : items'[i] = items[i]
    BY <1>2, <1>3 DEF LinkTypeOK
  <2> HIDE DEF n
  <2>2. \A i \in 1 .. n + 1 : i = n + 1 \/ i \in 1 .. n
    BY <1>1
  <2> QED
    BY <2>1, <2>2
<1>9. LeftBeforeDisconnectIsInDoubt'
  <2>1. link' # "connected" /\ handler' # "sweeping"
            => \A i \in DOMAIN items' : items'[i].outcome # "dispatched"
    BY <1>2, <1>4, <1>8 DEF LeftBeforeDisconnectIsInDoubt
  <2> QED
    BY <1>2, <2>1 DEF LeftBeforeDisconnectIsInDoubt
<1>10. HandlerAgrees' /\ PendingUnsent'
  BY <1>2, <1>4, <1>8 DEF HandlerAgrees, PendingUnsent
<1> QED
  BY <1>6, <1>7, <1>9, <1>10

\* A step that changes only outcomes and sent flags keeps the queue well formed.
LEMMA SameQueueStep ==
    ASSUME SpoolWellFormed, SameQueue(items, items'), UNCHANGED <<nextSeq, fence, byKey>>
    PROVE  SpoolWellFormed'
<1>1. Ordered(items) /\ Under(items, nextSeq, fence) /\ Indexed(items, byKey)
  BY SpoolParts
<1>2. Ordered(items') /\ Under(items', nextSeq, fence) /\ Indexed(items', byKey)
  BY <1>1, SameQueueKeeps
<1> QED
  BY <1>2 DEF SpoolWellFormed, Ordered, Under, Indexed

\* The sweep, of a worker's NextReplayable or of the disconnect handler.
LEMMA SweepStep ==
    ASSUME LinkInv, items' = Swept, UNCHANGED <<now, session, dispatches, link, fence,
           nextSeq, byKey>>, hand' \in [Workers -> 0 .. LastSeq],
           \/ UNCHANGED handler
           \/ handler = "sweeping" /\ handler' = "idle"
    PROVE  LinkInv'
<1> USE DEF LinkInv
<1>1. /\ items' \in Seq(Item) /\ Len(items') = Len(items) /\ SameQueue(items, items')
      /\ \A i \in DOMAIN items :
            /\ items'[i].sent = items[i].sent
            /\ items'[i].outcome = "pending" <=> items[i].outcome = "pending"
            /\ items'[i].outcome = "dispatched" =>
                    items[i].outcome = "dispatched" /\ link # "disconnected"
  BY SweptFacts
<1>2. DOMAIN items' = DOMAIN items
  BY <1>1 DEF SameQueue
<1>3. LinkTypeOK'
  BY <1>1 DEF LinkTypeOK
<1>4. SpoolWellFormed'
  BY <1>1, SameQueueStep
<1>5. HandlerAgrees'
  BY DEF HandlerAgrees
<1>6. PendingUnsent'
  BY <1>1, <1>2 DEF PendingUnsent
<1>7. LeftBeforeDisconnectIsInDoubt'
  <2>1. ASSUME link' # "connected", handler' # "sweeping", NEW i \in DOMAIN items'
        PROVE  items'[i].outcome # "dispatched"
    BY <1>1, <1>2, <2>1 DEF LeftBeforeDisconnectIsInDoubt, HandlerAgrees
  <2> QED
    BY <2>1 DEF LeftBeforeDisconnectIsInDoubt
<1> QED
  BY <1>3, <1>4, <1>5, <1>6, <1>7

\* The item NextReplayable hands out is one of the queue, and pending.
LEMMA HandedOut ==
    ASSUME LinkInv, NEW w \in Workers, NextReplayable(w)
    PROVE  /\ hand' \in [Workers -> 0 .. LastSeq]
           /\ \A v \in Workers : v # w => hand'[v] = hand[v]
           /\ hand'[w] # 0 => \E i \in DOMAIN items : /\ items[i].outcome = "pending"
                                                      /\ items[i].seq = hand'[w]
<1> USE DEF LinkInv
<1> DEFINE R == Replayable(Swept)
           first == CHOOSE i \in R : \A j \in R : i <= j
           given == IF R = {} THEN 0 ELSE Swept[first].seq
<1>1. hand \in [Workers -> 0 .. LastSeq] /\ hand' = [hand EXCEPT ![w] = given]
  BY DEF LinkTypeOK, NextReplayable
<1>2. /\ Swept \in Seq(Item) /\ SameQueue(items, Swept)
      /\ \A i \in DOMAIN items :
            Swept[i].outcome = "pending" <=> items[i].outcome = "pending"
  BY SweptFacts
<1>3. ASSUME R # {}
      PROVE  /\ given \in 0 .. LastSeq
             /\ \E i \in DOMAIN items : items[i].outcome = "pending" /\ items[i].seq = given
  <2>1. R \in SUBSET Nat
    BY <1>2 DEF Replayable
  <2>2. PICK n \in R : \A m \in R : ~ (m < n)
    BY <1>3, <2>1, LeastNumber
  <2>3. \E i \in R : \A j \in R : i <= j
    BY <2>1, <2>2
  <2>4. first \in R
    BY <2>3
  <2> HIDE DEF first
  <2>5. first \in DOMAIN Swept /\ Swept[first].outcome = "pending" /\ given = Swept[first].seq
    BY <1>3, <2>4 DEF Replayable
  <2>6. first \in DOMAIN items /\ items[first].outcome = "pending" /\ items[first].seq = given
    BY <1>2, <2>5 DEF SameQueue
  <2>7. Swept[first] \in Item
    BY <1>2, <2>5
  <2>8. given \in 0 .. LastSeq
    BY <2>5, <2>7, RuntimeLinkAssumption DEF Item
  <2> HIDE DEF given, R
  <2> QED
    BY <2>6, <2>8
<1>4. given \in 0 .. LastSeq /\ (given # 0 => R # {})
  <2>1. R = {} => given = 0
    OBVIOUS
  <2> HIDE DEF given, R
  <2> QED
    BY <1>3, <2>1, RuntimeLinkAssumption
<1> HIDE DEF given, R
<1> QED
  BY <1>1, <1>3, <1>4

\* A worker that takes an item preserves the invariant.
LEMMA NextReplayableStep ==
    ASSUME LinkInv, NEW w \in Workers, NextReplayable(w)
    PROVE  LinkInv'
<1>1. hand' \in [Workers -> 0 .. LastSeq]
  BY HandedOut
<1> QED
  BY <1>1, SweepStep DEF NextReplayable

\* A worker that reports an item, late or not, preserves the invariant.
LEMMA MarkDispatchedStep ==
    ASSUME LinkInv, NEW w \in Workers, MarkDispatched(w)
    PROVE  LinkInv'
<1> USE DEF LinkInv
<1>1. items \in Seq(Item) /\ Len(items) \in Nat /\ DOMAIN items = 1 .. Len(items)
  BY DEF LinkTypeOK
<1>2. /\ items' = [i \in DOMAIN items |->
                    IF items[i].seq = hand[w]
                    THEN [items[i] EXCEPT !.sent = TRUE, !.outcome = OutcomeOnDispatch]
                    ELSE items[i]]
      /\ hand' = [hand EXCEPT ![w] = 0]
      /\ UNCHANGED <<now, session, dispatches, link, fence, nextSeq, byKey, handler>>
  BY DEF MarkDispatched
<1>3. /\ OutcomeOnDispatch \in {"dispatched", "indeterminate"}
      /\ OutcomeOnDispatch = "dispatched" => link = "connected"
  BY DEF OutcomeOnDispatch
<1>4. DOMAIN items' = DOMAIN items
  BY <1>2
<1>5. ASSUME NEW i \in DOMAIN items
      PROVE  /\ items'[i] \in Item
             /\ items'[i].seq = items[i].seq /\ items'[i].key = items[i].key
             /\ items'[i].fence = items[i].fence
             /\ items'[i].outcome = "pending" => items'[i] = items[i]
             /\ items'[i].outcome = "dispatched" => items'[i] = items[i] \/ link = "connected"
  <2>1. items[i] \in Item
    BY <1>1
  <2>2. CASE items[i].seq = hand[w]
    <3>1. items'[i] = [items[i] EXCEPT !.sent = TRUE, !.outcome = OutcomeOnDispatch]
      BY <1>2, <2>2
    <3> QED
      BY <1>3, <2>1, <3>1 DEF Item, Outcomes
  <2>3. CASE items[i].seq # hand[w]
    <3>1. items'[i] = items[i]
      BY <1>2, <2>3
    <3> QED
      BY <2>1, <3>1
  <2> QED
    BY <2>2, <2>3
<1>6. items' \in Seq(Item) /\ Len(items') = Len(items)
  <2>1. items' = [i \in 1 .. Len(items) |-> items'[i]]
    BY <1>1, <1>2
  <2>2. items' \in [1 .. Len(items) -> Item]
    BY <1>1, <1>5, <2>1
  <2> QED
    BY <1>1, <2>2, IsQueue
<1>7. LinkTypeOK'
  <2>1. hand \in [Workers -> 0 .. LastSeq]
    BY DEF LinkTypeOK
  <2>2. 0 \in 0 .. LastSeq
    BY RuntimeLinkAssumption
  <2>3. hand' \in [Workers -> 0 .. LastSeq]
    BY <1>2, <2>1, <2>2
  <2> QED
    BY <1>2, <1>6, <2>3 DEF LinkTypeOK
<1>8. SpoolWellFormed'
  <2>1. SameQueue(items, items')
    BY <1>4, <1>5 DEF SameQueue
  <2> QED
    BY <1>2, <2>1, SameQueueStep
<1>9. HandlerAgrees'
  BY <1>2 DEF HandlerAgrees
<1>10. PendingUnsent'
  BY <1>4, <1>5, Zenon DEF PendingUnsent
<1>11. LeftBeforeDisconnectIsInDoubt'
  <2>1. ASSUME link' # "connected", handler' # "sweeping", NEW i \in DOMAIN items'
        PROVE  items'[i].outcome # "dispatched"
    BY <1>2, <1>4, <1>5, <2>1 DEF LeftBeforeDisconnectIsInDoubt
  <2> QED
    BY <1>2, <2>1 DEF LeftBeforeDisconnectIsInDoubt
<1> QED
  BY <1>7, <1>8, <1>9, <1>10, <1>11

\* A drop of any items, by age or by the operator, preserves the invariant.
LEMMA DropStep ==
    ASSUME LinkInv, NEW gone \in SUBSET DOMAIN items, items' = Kept(gone),
           byKey' = Forget(gone),
           UNCHANGED <<now, session, dispatches, link, fence, nextSeq, handler, hand>>
    PROVE  LinkInv'
<1> USE DEF LinkInv
<1>1. items \in Seq(Item) /\ byKey \in [Keys -> 0 .. LastSeq] /\ LastSeq \in Nat
  BY RuntimeLinkAssumption DEF LinkTypeOK
<1>2. items' \in Seq(Item) /\ Len(items') <= Len(items)
  BY <1>1, KeptFacts
<1>3. \A i \in DOMAIN items' : \E x \in DOMAIN items : items'[i] = items[x]
  <2>1. PICK f \in [DOMAIN items' -> DOMAIN items \ gone] :
            \A i \in DOMAIN items' : items'[i] = items[f[i]]
    <3>1. \E f \in [DOMAIN Kept(gone) -> DOMAIN items \ gone] :
            \A i \in DOMAIN Kept(gone) : Kept(gone)[i] = items[f[i]]
      BY <1>1, KeptFacts, Zenon
    <3> QED
      BY <3>1
  <2>2. \A i \in DOMAIN items' : f[i] \in DOMAIN items
    BY <2>1
  <2> QED
    BY <2>1, <2>2
<1>4. LinkTypeOK'
  <2>1. byKey' \in [Keys -> 0 .. LastSeq]
    <3>1. \A k \in Keys : byKey[k] \in 0 .. LastSeq /\ 0 \in 0 .. LastSeq
      BY <1>1
    <3> QED
      BY <3>1 DEF Forget
  <2>2. Len(items) \in Nat /\ Len(items') \in Nat /\ MaxSize \in Nat /\ Len(items) <= MaxSize
    BY <1>1, <1>2, RuntimeLinkAssumption DEF LinkTypeOK
  <2>3. Len(items') <= MaxSize
    BY <1>2, <2>2
  <2> QED
    BY <1>2, <2>1, <2>3 DEF LinkTypeOK
<1>5. SpoolWellFormed'
  <2>1. Ordered(items') /\ Under(items', nextSeq', fence') /\ Indexed(items', byKey')
    BY <1>1, KeptKeeps
  <2> QED
    BY <2>1 DEF SpoolWellFormed, Ordered, Under, Indexed
<1>6. HandlerAgrees'
  BY DEF HandlerAgrees
<1>7. PendingUnsent'
  BY <1>3 DEF PendingUnsent
<1>8. LeftBeforeDisconnectIsInDoubt'
  <2>1. ASSUME link' # "connected", handler' # "sweeping", NEW i \in DOMAIN items'
        PROVE  items'[i].outcome # "dispatched"
    BY <1>3, <2>1 DEF LeftBeforeDisconnectIsInDoubt
  <2> QED
    BY <2>1 DEF LeftBeforeDisconnectIsInDoubt
<1> QED
  BY <1>4, <1>5, <1>6, <1>7, <1>8

\* Expiry preserves the invariant.
LEMMA ExpireStep ==
    ASSUME LinkInv, Expire
    PROVE  LinkInv'
<1>1. Aged \in SUBSET DOMAIN items
  BY DEF Aged
<1> QED
  BY <1>1, DropStep DEF Expire

\* The operator's decision on an item in doubt preserves the invariant.
LEMMA ConfirmReplayStep ==
    ASSUME LinkInv, NEW i \in DOMAIN items, NEW confirm \in BOOLEAN, ConfirmReplay(i, confirm)
    PROVE  LinkInv'
<1> USE DEF LinkInv
<1>1. CASE ~ confirm
  <2>1. {i} \in SUBSET DOMAIN items
    OBVIOUS
  <2> QED
    BY <1>1, <2>1, DropStep DEF ConfirmReplay
<1>2. CASE confirm
  <2>1. items \in Seq(Item) /\ items[i] \in Item
    BY DEF LinkTypeOK
  <2>2. /\ items' = [items EXCEPT ![i].outcome = "confirmed_replay"]
        /\ UNCHANGED <<now, session, dispatches, link, fence, nextSeq, byKey, handler, hand>>
    BY <1>2 DEF ConfirmReplay
  <2> DEFINE x == [items[i] EXCEPT !.outcome = "confirmed_replay"]
  <2>3. /\ x \in Item /\ x.outcome = "confirmed_replay"
        /\ x.seq = items[i].seq /\ x.key = items[i].key /\ x.fence = items[i].fence
    BY <2>1 DEF Item, Outcomes
  <2>4. items' = [items EXCEPT ![i] = x]
    BY <2>2
  <2> HIDE DEF x
  <2>5. items' \in Seq(Item) /\ Len(items') = Len(items) /\ DOMAIN items' = DOMAIN items
    BY <2>1, <2>3, <2>4
  <2>6. \A j \in DOMAIN items : items'[j] = IF j = i THEN x ELSE items[j]
    BY <2>1, <2>4
  <2>7. LinkTypeOK'
    BY <2>2, <2>5 DEF LinkTypeOK
  <2>8. SpoolWellFormed'
    <3>1. SameQueue(items, items')
      BY <2>3, <2>5, <2>6 DEF SameQueue
    <3> QED
      BY <2>2, <3>1, SameQueueStep
  <2>9. HandlerAgrees' /\ PendingUnsent'
    BY <2>2, <2>3, <2>5, <2>6 DEF HandlerAgrees, PendingUnsent
  <2>10. LeftBeforeDisconnectIsInDoubt'
    BY <2>2, <2>3, <2>5, <2>6 DEF LeftBeforeDisconnectIsInDoubt
  <2> QED
    BY <2>7, <2>8, <2>9, <2>10
<1> QED
  BY <1>1, <1>2

\* Every step preserves the invariant.
LEMMA NextLinkInv == LinkInv /\ [LinkNext]_linkVars => LinkInv'
<1> SUFFICES ASSUME LinkInv, [LinkNext]_linkVars PROVE LinkInv'
  OBVIOUS
<1>1. CASE QueueStays
  BY <1>1, QueueStaysStep
<1>2. ASSUME NEW k \in Keys, NEW risk \in Risks, NEW token \in 1 .. LastFence,
             Enqueue(k, risk, token)
      PROVE  LinkInv'
  BY <1>2, EnqueueStep
<1>3. ASSUME NEW w \in Workers, NextReplayable(w) PROVE LinkInv'
  BY <1>3, NextReplayableStep
<1>4. ASSUME NEW w \in Workers, MarkDispatched(w) PROVE LinkInv'
  BY <1>4, MarkDispatchedStep
<1>5. CASE Expire
  BY <1>5, ExpireStep
<1>6. CASE SweepSpool
  <2>1. hand' \in [Workers -> 0 .. LastSeq]
    BY <1>6 DEF LinkInv, LinkTypeOK, SweepSpool
  <2> QED
    BY <1>6, <2>1, SweepStep DEF SweepSpool
<1>7. ASSUME NEW i \in DOMAIN items, NEW confirm \in BOOLEAN, ConfirmReplay(i, confirm)
      PROVE  LinkInv'
  BY <1>7, ConfirmReplayStep
<1>8. CASE UNCHANGED linkVars
  BY <1>8 DEF LinkInv, LinkTypeOK, SpoolWellFormed, LeftBeforeDisconnectIsInDoubt,
     HandlerAgrees, PendingUnsent, linkVars, queueVars
<1> QED
  BY <1>1, <1>2, <1>3, <1>4, <1>5, <1>6, <1>7, <1>8 DEF LinkNext, QueueStays

-----------------------------------------------------------------------------
(* The theorems.                                                           *)

\* The invariant holds in every reachable state of session, spool and handlers.
THEOREM LinkInvariant == LinkSpec => []LinkInv
BY InitLinkInv, NextLinkInv, PTL DEF LinkSpec

\* The variables keep their types and the spool its capacity, whatever workers,
\* expiry and handlers do.
THEOREM LinkTypes == LinkSpec => []LinkTypeOK
<1>1. LinkInv => LinkTypeOK
  BY DEF LinkInv
<1> QED
  BY <1>1, LinkInvariant, PTL

\* The spool stays one queue: items in sequence and fence order, the key index
\* naming exactly the item that has the key, through drops from its middle.
THEOREM SpoolStaysAQueue == LinkSpec => []SpoolWellFormed
<1>1. LinkInv => SpoolWellFormed
  BY DEF LinkInv
<1> QED
  BY <1>1, LinkInvariant, PTL

\* Once DisconnectRuntime has returned nothing counts as on its way until the
\* link is up again, also what a worker reported between the handler's calls.
THEOREM InDoubtAfterDisconnect == LinkSpec => []LeftBeforeDisconnectIsInDoubt
<1>1. LinkInv => LeftBeforeDisconnectIsInDoubt
  BY DEF LinkInv
<1> QED
  BY <1>1, LinkInvariant, PTL

\* Between handlers the session and the spool agree on the link.
THEOREM HandlersLeaveAgreement == LinkSpec => []LinkAgrees
<1>1. LinkInv => LinkAgrees
  BY DEF LinkInv, HandlerAgrees, LinkAgrees
<1> QED
  BY <1>1, LinkInvariant, PTL

\* What a worker is newly given has not left the runtime.
LEMMA HandsOutUnsent ==
    ASSUME LinkInv, [LinkNext]_linkVars, NEW w \in Workers, hand'[w] # hand[w],
           hand'[w] # 0, NEW i \in DOMAIN items, items[i].seq = hand'[w]
    PROVE  ~ items[i].sent
<1>1. PICK v \in Workers : NextReplayable(v)
  <2>1. CASE QueueStays
    BY <2>1, QueueStaysFacts
  <2>2. ASSUME NEW v \in Workers, MarkDispatched(v) PROVE FALSE
    BY <2>2 DEF LinkInv, LinkTypeOK, MarkDispatched
  <2>3. \/ QueueStays
        \/ UNCHANGED hand
        \/ \E v \in Workers : NextReplayable(v) \/ MarkDispatched(v)
    BY DEF LinkNext, QueueStays, Enqueue, Expire, SweepSpool, ConfirmReplay, linkVars
  <2> QED
    BY <2>1, <2>2, <2>3
<1>2. v = w
  BY <1>1, HandedOut
<1>3. PICK j \in DOMAIN items : items[j].outcome = "pending" /\ items[j].seq = hand'[w]
  BY <1>1, <1>2, HandedOut
<1>4. items \in Seq(Item) /\ Ordered(items)
  BY SpoolParts DEF LinkInv, LinkTypeOK
<1>5. i = j
  BY <1>3, <1>4, SeqNamesItem
<1> QED
  BY <1>3, <1>5 DEF LinkInv, PendingUnsent

\* An item that may have left the runtime is never handed out again.
THEOREM SentIsNotReplayed == LinkSpec => NoBlindReplay
<1>1. LinkInv /\ [LinkNext]_linkVars =>
        [\A w \in Workers :
            hand'[w] # hand[w] /\ hand'[w] # 0
                => \A i \in DOMAIN items : items[i].seq = hand'[w] => ~ items[i].sent
        ]_linkVars
  BY HandsOutUnsent
<1> QED
  BY <1>1, LinkInvariant, PTL DEF LinkSpec, NoBlindReplay

-----------------------------------------------------------------------------
(* What becomes of an item.                                                *)

\* An item that is no longer pending may have left.
LeftIsSent == \A i \in DOMAIN items : items[i].outcome # "pending" => items[i].sent

\* The three things a step does to the spool: move outcomes on, add a pending item,
\* drop items that are too old or one that is in doubt.
OutcomesMove == /\ DOMAIN items' = DOMAIN items
                /\ \A i \in DOMAIN items :
                    /\ MovedOn(items[i], items'[i])
                    /\ items'[i].outcome # "pending" => items'[i].sent
ItemAdded == /\ DOMAIN items \subseteq DOMAIN items'
             /\ \A i \in DOMAIN items : items'[i] = items[i]
             /\ \A i \in DOMAIN items' \ DOMAIN items : items'[i].outcome = "pending"
ItemsDropped ==
    \E gone \in SUBSET DOMAIN items :
        /\ \A i \in gone : i \in Aged \/ items[i].outcome = "indeterminate"
        /\ \A i \in DOMAIN items \ gone : \E j \in DOMAIN items' : items'[j] = items[i]
        /\ \A j \in DOMAIN items' : \E i \in DOMAIN items : items'[j] = items[i]

\* A record with its own outcome and sent flag has moved on from itself.
LEMMA MovedOnSelf ==
    ASSUME NEW x \in Item
    PROVE  MovedOn(x, x)
BY DEF MovedOn, Item

\* A drop leaves every item it does not name.
LEMMA DropLeaves ==
    ASSUME items \in Seq(Item), NEW gone \in SUBSET DOMAIN items, items' = Kept(gone),
           \A i \in gone : i \in Aged \/ items[i].outcome = "indeterminate"
    PROVE  ItemsDropped
<1>1. PICK f \in [DOMAIN items' -> DOMAIN items \ gone] :
        /\ \A x \in DOMAIN items \ gone : \E i \in DOMAIN items' : f[i] = x
        /\ \A i \in DOMAIN items' : items'[i] = items[f[i]]
  <2>1. \E f \in [DOMAIN Kept(gone) -> DOMAIN items \ gone] :
            /\ \A x \in DOMAIN items \ gone : \E i \in DOMAIN Kept(gone) : f[i] = x
            /\ \A i \in DOMAIN Kept(gone) : Kept(gone)[i] = items[f[i]]
    BY KeptFacts, Zenon
  <2> QED
    BY <2>1
<1>2. \A i \in DOMAIN items \ gone : \E j \in DOMAIN items' : items'[j] = items[i]
  BY <1>1
<1>3. \A j \in DOMAIN items' : \E i \in DOMAIN items : items'[j] = items[i]
  <2>1. \A j \in DOMAIN items' : f[j] \in DOMAIN items
    BY <1>1
  <2> QED
    BY <1>1, <2>1
<1> QED
  BY <1>2, <1>3 DEF ItemsDropped

\* The sweep moves outcomes on.
LEMMA SweepMoves ==
    ASSUME LinkInv, LeftIsSent, items' = Swept
    PROVE  OutcomesMove
<1>1. items \in Seq(Item) /\ \A i \in DOMAIN items : items[i] \in Item
  BY DEF LinkInv, LinkTypeOK
<1>2. ASSUME NEW i \in DOMAIN items
      PROVE  \/ Swept[i] = items[i]
             \/ /\ items[i].outcome = "dispatched"
                /\ Swept[i] = [items[i] EXCEPT !.outcome = "indeterminate"]
  BY DEF Swept
<1>3. DOMAIN Swept = DOMAIN items
  BY DEF Swept
<1>4. ASSUME NEW i \in DOMAIN items
      PROVE  MovedOn(items[i], Swept[i]) /\ (Swept[i].outcome # "pending" => Swept[i].sent)
  <2>1. CASE Swept[i] = items[i]
    BY <1>1, <2>1, MovedOnSelf DEF LeftIsSent
  <2>2. CASE /\ items[i].outcome = "dispatched"
             /\ Swept[i] = [items[i] EXCEPT !.outcome = "indeterminate"]
    <3>1. items[i].sent /\ items[i] \in Item
      BY <1>1, <2>2 DEF LeftIsSent
    <3> QED
      BY <2>2, <3>1 DEF MovedOn, Item
  <2> QED
    BY <1>2, <2>1, <2>2
<1> QED
  BY <1>3, <1>4 DEF OutcomesMove

\* A worker's report moves outcomes on, a confirmed item's included.
LEMMA ReportMoves ==
    ASSUME LinkInv, LeftIsSent, NEW w \in Workers, MarkDispatched(w)
    PROVE  OutcomesMove
<1>1. items \in Seq(Item) /\ \A i \in DOMAIN items : items[i] \in Item
  BY DEF LinkInv, LinkTypeOK
<1>2. items' = [i \in DOMAIN items |->
                    IF items[i].seq = hand[w]
                    THEN [items[i] EXCEPT !.sent = TRUE, !.outcome = OutcomeOnDispatch]
                    ELSE items[i]]
  BY DEF MarkDispatched
<1>3. OutcomeOnDispatch # "pending"
  BY DEF OutcomeOnDispatch
<1>4. ASSUME NEW i \in DOMAIN items
      PROVE  MovedOn(items[i], items'[i]) /\ (items'[i].outcome # "pending" => items'[i].sent)
  <2>1. CASE items'[i] = items[i]
    BY <1>1, <2>1, MovedOnSelf DEF LeftIsSent
  <2>2. CASE items'[i] = [items[i] EXCEPT !.sent = TRUE, !.outcome = OutcomeOnDispatch]
    BY <1>1, <1>3, <2>2 DEF MovedOn, Item
  <2> QED
    BY <1>2, <2>1, <2>2
<1> QED
  BY <1>2, <1>4 DEF OutcomesMove

\* The operator's decision moves one outcome on, or drops one item in doubt.
LEMMA DecisionSteps ==
    ASSUME LinkInv, LeftIsSent, NEW x \in DOMAIN items, NEW confirm \in BOOLEAN,
           ConfirmReplay(x, confirm)
    PROVE  OutcomesMove \/ ItemsDropped
<1>1. items \in Seq(Item) /\ \A i \in DOMAIN items : items[i] \in Item
  BY DEF LinkInv, LinkTypeOK
<1>2. items[x].outcome = "indeterminate"
  BY DEF ConfirmReplay
<1>3. CASE confirm
  <2>1. items' = [items EXCEPT ![x].outcome = "confirmed_replay"]
    BY <1>3 DEF ConfirmReplay
  <2>2. ASSUME NEW i \in DOMAIN items
        PROVE  MovedOn(items[i], items'[i]) /\ (items'[i].outcome # "pending" => items'[i].sent)
    <3>1. CASE i # x
      <4>1. items'[i] = items[i]
        BY <1>1, <2>1, <3>1
      <4> QED
        BY <1>1, <4>1, MovedOnSelf DEF LeftIsSent
    <3>2. CASE i = x
      <4>1. items'[i] = [items[i] EXCEPT !.outcome = "confirmed_replay"]
        BY <1>1, <2>1, <3>2
      <4>2. items[i].sent
        BY <1>2, <3>2 DEF LeftIsSent
      <4> QED
        BY <1>1, <4>1, <4>2 DEF MovedOn, Item
    <3> QED
      BY <3>1, <3>2
  <2>3. DOMAIN items' = DOMAIN items
    BY <1>1, <2>1
  <2> QED
    BY <2>2, <2>3 DEF OutcomesMove
<1>4. CASE ~ confirm
  <2>1. items' = Kept({x}) /\ {x} \in SUBSET DOMAIN items
    BY <1>4 DEF ConfirmReplay
  <2> QED
    BY <1>1, <1>2, <2>1, DropLeaves
<1> QED
  BY <1>3, <1>4

\* Every step is one of the three.
LEMMA SpoolSteps ==
    ASSUME LinkInv, LeftIsSent, [LinkNext]_linkVars
    PROVE  OutcomesMove \/ ItemAdded \/ ItemsDropped
<1>1. items \in Seq(Item) /\ \A i \in DOMAIN items : items[i] \in Item
  BY DEF LinkInv, LinkTypeOK
<1>2. CASE UNCHANGED items
  BY <1>1, <1>2, MovedOnSelf DEF OutcomesMove, LeftIsSent
<1>3. ASSUME NEW k \in Keys, NEW risk \in Risks, NEW token \in 1 .. LastFence,
             Enqueue(k, risk, token)
      PROVE  ItemAdded
  <2> DEFINE x == [seq |-> nextSeq, key |-> k, risk |-> risk, fence |-> token,
                   at |-> now, sent |-> FALSE, outcome |-> "pending"]
             n == Len(items)
  <2>1. items' = Append(items, x) /\ x.outcome = "pending"
    BY <1>3 DEF Enqueue
  <2> HIDE DEF x
  <2>2. /\ n \in Nat /\ DOMAIN items = 1 .. n /\ DOMAIN items' = 1 .. n + 1
        /\ items'[n + 1] = x /\ \A i \in 1 .. n : items'[i] = items[i]
    BY <1>1, <2>1
  <2> HIDE DEF n
  <2>3. \A i \in 1 .. n + 1 : i = n + 1 \/ i \in 1 .. n
    BY <2>2
  <2>4. 1 .. n \subseteq 1 .. n + 1
    BY <2>2
  <2> QED
    BY <2>1, <2>2, <2>3, <2>4 DEF ItemAdded
<1>4. CASE Expire
  <2>1. items' = Kept(Aged) /\ Aged \in SUBSET DOMAIN items
    BY <1>4 DEF Expire, Aged
  <2> QED
    BY <1>1, <2>1, DropLeaves
<1>5. CASE QueueStays
  BY <1>2, <1>5, QueueStaysFacts
<1>6. ASSUME NEW w \in Workers, NextReplayable(w) PROVE OutcomesMove
  BY <1>6, SweepMoves DEF NextReplayable
<1>7. CASE SweepSpool
  BY <1>7, SweepMoves DEF SweepSpool
<1>8. CASE UNCHANGED linkVars
  BY <1>2, <1>8 DEF linkVars, queueVars
<1> QED
  BY <1>3, <1>4, <1>5, <1>6, <1>7, <1>8, ReportMoves, DecisionSteps DEF LinkNext, QueueStays

\* Every step keeps what is no longer pending marked as sent.
LEMMA LeftIsSentStep ==
    ASSUME LinkInv, LeftIsSent, [LinkNext]_linkVars
    PROVE  LeftIsSent'
<1>1. CASE OutcomesMove
  BY <1>1 DEF OutcomesMove, LeftIsSent
<1>2. CASE ItemAdded
  BY <1>2 DEF ItemAdded, LeftIsSent
<1>3. CASE ItemsDropped
  BY <1>3 DEF ItemsDropped, LeftIsSent
<1> QED
  BY <1>1, <1>2, <1>3, SpoolSteps

\* In every reachable state an item that is no longer pending was sent.
LEMMA LeftIsSentAlways == LinkSpec => []LeftIsSent
<1>1. LinkInit => LeftIsSent
  BY DEF LinkInit, LeftIsSent
<1>2. LinkInv /\ LeftIsSent /\ [LinkNext]_linkVars => LeftIsSent'
  BY LeftIsSentStep
<1> QED
  BY <1>1, <1>2, LinkInvariant, PTL DEF LinkSpec

\* An item that is neither too old nor in doubt outlives the step.
LEMMA ItemOutlives ==
    ASSUME LinkInv, LeftIsSent, [LinkNext]_linkVars, NEW i \in DOMAIN items,
           i \notin Aged, items[i].outcome # "indeterminate"
    PROVE  Survives(items[i], items')
<1>1. items[i] \in Item
  BY DEF LinkInv, LinkTypeOK
<1>2. CASE OutcomesMove
  BY <1>2 DEF OutcomesMove, Survives
<1>3. CASE ItemAdded
  <2>1. i \in DOMAIN items' /\ items'[i] = items[i]
    BY <1>3 DEF ItemAdded
  <2> QED
    BY <1>1, <2>1, MovedOnSelf DEF Survives
<1>4. CASE ItemsDropped
  <2>1. PICK j \in DOMAIN items' : items'[j] = items[i]
    BY <1>4 DEF ItemsDropped
  <2> QED
    BY <1>1, <2>1, MovedOnSelf DEF Survives
<1> QED
  BY <1>2, <1>3, <1>4, SpoolSteps

\* Nothing leaves the spool but by age or by the operator's refusal: Expire and
\* ConfirmReplay drop from the middle of the slice and take no neighbour along.
THEOREM NothingIsLost == LinkSpec => NoSilentLoss
<1>1. LinkInv /\ LeftIsSent /\ [LinkNext]_linkVars =>
        [\A i \in DOMAIN items :
            \/ Survives(items[i], items')
            \/ i \in Aged
            \/ items[i].outcome = "indeterminate"
        ]_linkVars
  BY ItemOutlives
<1> QED
  BY <1>1, LinkInvariant, LeftIsSentAlways, PTL DEF LinkSpec, NoSilentLoss

\* No step but a drop of the item itself takes its key out of the index.
LEMMA KeyStays ==
    ASSUME LinkInv, LinkInv', NEW i \in DOMAIN items, Survives(items[i], items')
    PROVE  byKey'[items[i].key] = items[i].seq
<1>1. PICK j \in DOMAIN items' : MovedOn(items[i], items'[j])
  BY DEF Survives
<1>2. items[i] \in Item
  BY DEF LinkInv, LinkTypeOK
<1>3. items'[j].key = items[i].key /\ items'[j].seq = items[i].seq
  BY <1>1, <1>2 DEF MovedOn, Item
<1>4. byKey'[items'[j].key] = items'[j].seq
  BY <1>1 DEF LinkInv, SpoolWellFormed
<1> QED
  BY <1>3, <1>4

\* An item whose replay was confirmed is handed to nobody and keeps its slot and its
\* key until Expire takes it: NextReplayable only ever gives out pending items.
THEOREM ConfirmedWaitsForExpiry == LinkSpec => ConfirmedIsParked
<1>1. ASSUME LinkInv, LeftIsSent, [LinkNext]_linkVars, NEW i \in DOMAIN items,
             items[i].outcome = "confirmed_replay"
      PROVE  /\ \A w \in Workers : hand'[w] = items[i].seq => hand[w] = items[i].seq
             /\ \/ i \in Aged
                \/ Survives(items[i], items') /\ byKey'[items[i].key] = items[i].seq
  <2>1. items[i].sent /\ items[i].seq # 0
    BY <1>1, ItemFields DEF LeftIsSent, LinkInv, LinkTypeOK
  <2>2. \A w \in Workers : hand'[w] = items[i].seq => hand[w] = items[i].seq
    BY <1>1, <2>1, HandsOutUnsent
  <2>3. i \notin Aged => Survives(items[i], items')
    BY <1>1, ItemOutlives
  <2>4. LinkInv'
    BY <1>1, NextLinkInv
  <2> QED
    BY <1>1, <2>2, <2>3, <2>4, KeyStays
<1>2. LinkInv /\ LeftIsSent /\ [LinkNext]_linkVars =>
        [\A i \in DOMAIN items : items[i].outcome = "confirmed_replay" =>
            /\ \A w \in Workers : hand'[w] = items[i].seq => hand[w] = items[i].seq
            /\ \/ i \in Aged
               \/ Survives(items[i], items') /\ byKey'[items[i].key] = items[i].seq
        ]_linkVars
  BY <1>1
<1> QED
  BY <1>2, LinkInvariant, LeftIsSentAlways, PTL DEF LinkSpec, ConfirmedIsParked

=============================================================================
