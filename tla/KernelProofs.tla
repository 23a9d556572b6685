---------------------------- MODULE KernelProofs ----------------------------
(***************************************************************************)
(* Proofs about the kernel, for any number of threads, priorities, mutexes *)
(* and events, and any limits of its pools.  The invariant KernelInv is    *)
(* inductive; the lemmas say what each building block of a step (unlink    *)
(* the running thread, link it elsewhere, move threads to the ready lists, *)
(* PICK_READY) does to the lists, and the actions are put together from    *)
(* them.  They rest on lemmas about the operators of ThreadLists, which    *)
(* come first; the action properties follow, and last come the lists on    *)
(* their link fields, ThreadLinks, which implement ThreadQueues.           *)
(***************************************************************************)
EXTENDS Kernel, ThreadLinks, FunctionTheorems, FiniteSetTheorems, SequenceTheorems,
        WellFoundedInduction, TLAPS

-----------------------------------------------------------------------------
(***************************************************************************)
(* What the operators on thread lists return, for every list.  First Keep. *)
(***************************************************************************)

\* The positions of a sequence that hold an element of S are finitely many.
LEMMA PositionsFinite ==
    ASSUME NEW T, NEW s \in Seq(T), NEW S
    PROVE  /\ Positions(s, S) \subseteq 1..Len(s)
           /\ IsFiniteSet(Positions(s, S))
           /\ Cardinality(Positions(s, S)) \in Nat
<1>1. Positions(s, S) \subseteq 1..Len(s)
    BY LenProperties DEF Positions
<1>2. Len(s) \in Nat
    BY LenProperties
<1>3. IsFiniteSet(1..Len(s))
    BY <1>2, FS_Interval
<1> QED
    BY <1>1, <1>3, FS_Subset, FS_CardinalityType

\* The rank of a position is between 1 and the number of positions, and a
\* later position has a greater rank.
LEMMA RankMonotonic ==
    ASSUME NEW T, NEW s \in Seq(T), NEW S
    PROVE  /\ \A i \in Positions(s, S) :
                 RankOf(s, S, i) \in 1..Cardinality(Positions(s, S))
           /\ \A i, j \in Positions(s, S) :
                 i < j => RankOf(s, S, i) < RankOf(s, S, j)
<1> DEFINE P == Positions(s, S)
           Upto(i) == {j \in P : j <= i}
<1>1. P \subseteq Nat /\ IsFiniteSet(P)
    BY PositionsFinite, LenProperties
<1>2. ASSUME NEW i \in P
      PROVE  /\ Upto(i) \subseteq P
             /\ i \in Upto(i)
             /\ IsFiniteSet(Upto(i))
             /\ Cardinality(Upto(i)) \in 1..Cardinality(P)
    <2>1. Upto(i) \subseteq P /\ i \in Upto(i)
        BY <1>1
    <2>2. IsFiniteSet(Upto(i)) /\ Cardinality(Upto(i)) <= Cardinality(P)
        BY <2>1, <1>1, FS_Subset
    <2>3. Cardinality(Upto(i)) \in Nat /\ Cardinality(P) \in Nat
        BY <2>2, <1>1, FS_CardinalityType
    <2>4. Cardinality(Upto(i)) # 0
        BY <2>1, <2>2, FS_EmptySet
    <2> QED
        BY <2>1, <2>2, <2>3, <2>4
<1>3. ASSUME NEW i \in P, NEW j \in P, i < j
      PROVE  Cardinality(Upto(i)) < Cardinality(Upto(j))
    <2>1. Upto(i) \subseteq Upto(j) /\ j \notin Upto(i) /\ j \in Upto(j)
        BY <1>1, <1>3
    <2>2. /\ Cardinality(Upto(i)) <= Cardinality(Upto(j))
          /\ Cardinality(Upto(j)) = Cardinality(Upto(i)) => Upto(j) = Upto(i)
        BY <2>1, <1>2, FS_Subset
    <2>3. Cardinality(Upto(i)) \in Nat /\ Cardinality(Upto(j)) \in Nat
        BY <1>2, FS_CardinalityType
    <2> QED
        BY <2>1, <2>2, <2>3
<1> QED
    BY <1>2, <1>3 DEF RankOf

\* Every rank is taken: the ranks map the positions one to one into a set of
\* the same size.
LEMMA RankOnto ==
    ASSUME NEW T, NEW s \in Seq(T), NEW S,
           NEW k \in 1..Cardinality(Positions(s, S))
    PROVE  \E i \in Positions(s, S) : RankOf(s, S, i) = k
<1> DEFINE P == Positions(s, S)
           n == Cardinality(P)
           rank == [i \in P |-> RankOf(s, S, i)]
<1>1. P \subseteq Nat /\ IsFiniteSet(P) /\ n \in Nat
    BY PositionsFinite, LenProperties
<1>2. rank \in [P -> 1..n]
    BY RankMonotonic
<1>3. ASSUME NEW i \in P, NEW j \in P, rank[i] = rank[j]
      PROVE  i = j
    <2>1. rank[i] = RankOf(s, S, i) /\ rank[j] = RankOf(s, S, j)
        OBVIOUS
    <2>2. rank[i] \in Nat
        BY <1>1, <1>2
    <2>3. ~(i < j) /\ ~(j < i)
        BY <2>1, <2>2, <1>3, RankMonotonic
    <2> QED
        BY <2>3, <1>1
<1>4. rank \in Injection(P, 1..n)
    BY <1>2, <1>3, Fun_IsInj
<1>5. IsFiniteSet(1..n) /\ Cardinality(1..n) = n
    BY <1>1, FS_Interval
<1>6. rank \in Surjection(P, 1..n)
    BY <1>4, <1>5, FS_Injection
<1>7. \A j \in 1..n : \E i \in P : rank[i] = j
    BY <1>6 DEF Surjection
<1> QED
    BY <1>7

\* Keep(s, S) has the elements of s that are in S, each as often as s has it;
\* in particular it has none twice if s has none twice.
LEMMA KeepProperties ==
    ASSUME NEW T, NEW s \in Seq(T), NEW S
    PROVE  /\ Keep(s, S) \in Seq(T)
           /\ Range(Keep(s, S)) = Range(s) \cap S
           /\ IsInjective(s) => IsInjective(Keep(s, S))
<1> DEFINE P == Positions(s, S)
           n == Cardinality(P)
           pos(k) == CHOOSE i \in P : RankOf(s, S, i) = k
           kept == Keep(s, S)
<1>1. P \subseteq 1..Len(s) /\ n \in Nat
    BY PositionsFinite
<1>2. ASSUME NEW k \in 1..n
      PROVE  pos(k) \in P /\ RankOf(s, S, pos(k)) = k
    BY RankOnto
<1>3. kept = [k \in 1..n |-> s[pos(k)]]
    BY DEF Keep
<1> HIDE DEF pos, kept, n
<1>4. ASSUME NEW k \in 1..n
      PROVE  s[pos(k)] \in T \cap S /\ s[pos(k)] \in Range(s)
    <2>1. pos(k) \in DOMAIN s /\ s[pos(k)] \in S
        BY <1>2 DEF Positions
    <2> QED
        BY <2>1, LenProperties, ElementOfSeq DEF Range
<1>5. kept \in Seq(T)
    <2>1. kept \in [1..n -> T]
        BY <1>3, <1>4
    <2> QED
        BY <2>1, <1>1
<1>6. DOMAIN kept = 1..n /\ \A k \in 1..n : kept[k] = s[pos(k)]
    BY <1>3
<1>7. Range(kept) \subseteq Range(s) \cap S
    BY <1>4, <1>6 DEF Range
<1>8. ASSUME NEW x \in Range(s) \cap S
      PROVE  x \in Range(kept)
    <2>1. PICK i \in DOMAIN s : s[i] = x
        BY DEF Range
    <2>2. i \in P
        BY <2>1 DEF Positions
    <2>3. RankOf(s, S, i) \in 1..n
        BY <2>2, RankMonotonic DEF n
    <2>4. pos(RankOf(s, S, i)) = i
        <3>1. \A j \in P : RankOf(s, S, j) = RankOf(s, S, i) => j = i
            <4> SUFFICES ASSUME NEW j \in P, RankOf(s, S, j) = RankOf(s, S, i)
                         PROVE  j = i
                OBVIOUS
            <4>1. ~(i < j) /\ ~(j < i)
                BY <2>2, <2>3, RankMonotonic
            <4> QED
                BY <4>1, <2>2, <1>1, LenProperties
        <3> QED
            BY <3>1, <2>3, <1>2
    <2> QED
        BY <1>6, <2>1, <2>3, <2>4 DEF Range
<1>9. ASSUME IsInjective(s), NEW j \in 1..n, NEW k \in 1..n, kept[j] = kept[k]
      PROVE  j = k
    <2>1. pos(j) \in DOMAIN s /\ pos(k) \in DOMAIN s
        BY <1>2 DEF Positions
    <2>2. s[pos(j)] = s[pos(k)]
        BY <1>6, <1>9
    <2>3. pos(j) = pos(k)
        BY <2>1, <2>2, <1>9 DEF IsInjective
    <2> QED
        BY <2>3, <1>2
<1>10. IsInjective(s) => IsInjective(kept)
    BY <1>6, <1>9 DEF IsInjective
<1> QED
    BY <1>5, <1>7, <1>8, <1>10 DEF kept

-----------------------------------------------------------------------------
(***************************************************************************)
(* Sequences without repetition.                                           *)
(***************************************************************************)

\* A sequence without repetition is as long as its range is large.
LEMMA InjectiveLength ==
    ASSUME NEW T, NEW s \in Seq(T), IsInjective(s)
    PROVE  /\ IsFiniteSet(Range(s))
           /\ Cardinality(Range(s)) = Len(s)
<1>1. Len(s) \in Nat /\ s \in [1..Len(s) -> T] /\ DOMAIN s = 1..Len(s)
    BY LenProperties
<1>2. s \in Injection(1..Len(s), T)
    BY <1>1, Fun_IsInj DEF IsInjective
<1>3. s \in Bijection(1..Len(s), Range(s))
    BY <1>2, Fun_InjMeansBijImage
<1>4. IsFiniteSet(1..Len(s)) /\ Cardinality(1..Len(s)) = Len(s)
    BY <1>1, FS_Interval
<1>5. ExistsBijection(1..Len(s), Range(s))
    BY <1>3, Fun_ExistsBij
<1> QED
    BY <1>4, <1>5, FS_Bijection

\* Two sequences without repetition and without a common element follow one
\* another without repetition.
LEMMA InjectiveConcat ==
    ASSUME NEW T, NEW s \in Seq(T), NEW u \in Seq(T),
           IsInjective(s), IsInjective(u), Range(s) \cap Range(u) = {}
    PROVE  /\ s \o u \in Seq(T)
           /\ Range(s \o u) = Range(s) \cup Range(u)
           /\ IsInjective(s \o u)
<1> DEFINE w == s \o u
           m == Len(s)
           n == Len(u)
<1>1. /\ w \in Seq(T) /\ Len(w) = m + n
      /\ \A i \in 1..m + n : w[i] = IF i <= m THEN s[i] ELSE u[i - m]
    BY ConcatProperties, LenProperties
<1>2. m \in Nat /\ n \in Nat /\ DOMAIN s = 1..m /\ DOMAIN u = 1..n /\ DOMAIN w = 1..m + n
    BY <1>1, LenProperties
<1>3. Range(w) = Range(s) \cup Range(u)
    BY RangeConcatenation
<1> HIDE DEF w, m, n
<1>4. ASSUME NEW i \in 1..m + n, NEW j \in 1..m + n, w[i] = w[j]
      PROVE  i = j
    <2>1. CASE i <= m /\ j <= m
        <3>1. i \in DOMAIN s /\ j \in DOMAIN s /\ s[i] = s[j]
            BY <2>1, <1>1, <1>2, <1>4
        <3> QED
            BY <3>1 DEF IsInjective
    <2>2. CASE ~(i <= m) /\ ~(j <= m)
        <3>1. i - m \in DOMAIN u /\ j - m \in DOMAIN u /\ u[i - m] = u[j - m]
            BY <2>2, <1>1, <1>2, <1>4
        <3>2. i - m = j - m
            BY <3>1 DEF IsInjective
        <3> QED
            BY <3>2, <1>2
    <2>3. CASE i <= m /\ ~(j <= m)
        <3>1. i \in DOMAIN s /\ j - m \in DOMAIN u /\ s[i] = u[j - m]
            BY <2>3, <1>1, <1>2, <1>4
        <3>2. s[i] \in Range(s) /\ u[j - m] \in Range(u)
            BY <3>1 DEF Range
        <3> QED
            BY <3>1, <3>2
    <2>4. CASE ~(i <= m) /\ j <= m
        <3>1. i - m \in DOMAIN u /\ j \in DOMAIN s /\ u[i - m] = s[j]
            BY <2>4, <1>1, <1>2, <1>4
        <3>2. u[i - m] \in Range(u) /\ s[j] \in Range(s)
            BY <3>1 DEF Range
        <3> QED
            BY <3>1, <3>2
    <2> QED
        BY <2>1, <2>2, <2>3, <2>4
<1>5. IsInjective(w)
    BY <1>2, <1>4 DEF IsInjective
<1> QED
    BY <1>1, <1>3, <1>5 DEF w

\* Appending a new element.
LEMMA InjectiveAppend ==
    ASSUME NEW T, NEW s \in Seq(T), NEW t \in T
    PROVE  /\ Append(s, t) \in Seq(T)
           /\ Range(Append(s, t)) = Range(s) \cup {t}
           /\ IsInjective(s) /\ t \notin Range(s) => IsInjective(Append(s, t))
<1> DEFINE u == <<t>>
<1>1. Append(s, t) = s \o u /\ u \in Seq(T) /\ Append(s, t) \in Seq(T)
    BY AppendIsConcat, AppendProperties
<1>2. Range(u) = {t} /\ IsInjective(u)
    BY DEF Range, IsInjective
<1> HIDE DEF u
<1>3. Range(s \o u) = Range(s) \cup Range(u)
    BY <1>1, RangeConcatenation
<1>4. ASSUME IsInjective(s), t \notin Range(s)
      PROVE  IsInjective(s \o u)
    <2>1. Range(s) \cap Range(u) = {}
        BY <1>2, <1>4
    <2> QED
        BY <1>1, <1>2, <1>4, <2>1, InjectiveConcat
<1> QED
    BY <1>1, <1>2, <1>3, <1>4

\* A non-empty queue without repetition: its head leaves it.
LEMMA InjectiveTail ==
    ASSUME NEW T, NEW s \in Seq(T), s # <<>>
    PROVE  /\ Head(s) \in Range(s) /\ Head(s) \in T
           /\ Tail(s) \in Seq(T)
           /\ Range(Tail(s)) \subseteq Range(s)
           /\ IsInjective(s) => /\ IsInjective(Tail(s))
                                /\ Head(s) \notin Range(Tail(s))
<1>1. /\ Len(s) \in Nat \ {0} /\ DOMAIN s = 1..Len(s)
      /\ Head(s) \in T /\ Head(s) = s[1]
    BY EmptySeq, LenProperties, HeadTailProperties
<1>2. /\ Tail(s) \in Seq(T) /\ Len(Tail(s)) = Len(s) - 1
      /\ \A i \in 1..Len(s) - 1 : Tail(s)[i] = s[i + 1]
    BY HeadTailProperties
<1>3. DOMAIN Tail(s) = 1..Len(s) - 1
    BY <1>2, LenProperties
<1>4. Head(s) \in Range(s)
    BY <1>1 DEF Range
<1>5. \A i \in DOMAIN Tail(s) : i + 1 \in DOMAIN s /\ Tail(s)[i] = s[i + 1]
    BY <1>1, <1>2, <1>3
<1>6. Range(Tail(s)) \subseteq Range(s)
    BY <1>5 DEF Range
<1>7. ASSUME IsInjective(s)
      PROVE  IsInjective(Tail(s)) /\ Head(s) \notin Range(Tail(s))
    <2>1. ASSUME NEW i \in DOMAIN Tail(s), NEW j \in DOMAIN Tail(s), Tail(s)[i] = Tail(s)[j]
          PROVE  i = j
        <3>1. i + 1 = j + 1
            BY <1>5, <1>7, <2>1 DEF IsInjective
        <3> QED
            BY <3>1, <1>1, <1>3
    <2>2. ASSUME NEW i \in DOMAIN Tail(s), Tail(s)[i] = Head(s)
          PROVE  FALSE
        <3>1. 1 \in DOMAIN s /\ s[i + 1] = s[1]
            BY <1>1, <1>5, <2>2
        <3>2. i + 1 = 1
            BY <1>5, <1>7, <3>1 DEF IsInjective
        <3> QED
            BY <3>2, <1>1, <1>3
    <2> QED
        BY <2>1, <2>2 DEF IsInjective, Range
<1> QED
    BY <1>1, <1>2, <1>4, <1>6, <1>7

-----------------------------------------------------------------------------
(***************************************************************************)
(* Families of lists.                                                      *)
(***************************************************************************)

\* thread_link of a thread that is in no list.
LEMMA LinkedProperties ==
    ASSUME NEW K, NEW T, NEW ls \in [K -> Seq(T)], NEW k \in K, NEW t \in T,
           Exclusive(ls), t \notin Members(ls, K)
    PROVE  /\ Linked(ls, k, t) \in [K -> Seq(T)]
           /\ Range(Linked(ls, k, t)[k]) = Range(ls[k]) \cup {t}
           /\ \A j \in K \ {k} : Linked(ls, k, t)[j] = ls[j]
           /\ Exclusive(Linked(ls, k, t))
<1> DEFINE m == Linked(ls, k, t)
<1>1. DOMAIN ls = K /\ DOMAIN m = K /\ m[k] = Append(ls[k], t)
    BY DEF Linked
<1>2. \A j \in K \ {k} : m[j] = ls[j]
    BY DEF Linked
<1>3. \A j \in K : t \notin Range(ls[j]) /\ IsInjective(ls[j])
    BY <1>1 DEF Members, Exclusive
<1>4. ls[k] \in Seq(T)
    OBVIOUS
<1>5. /\ m[k] \in Seq(T)
      /\ Range(m[k]) = Range(ls[k]) \cup {t}
      /\ IsInjective(m[k])
    BY <1>1, <1>3, <1>4, InjectiveAppend
<1>6. m \in [K -> Seq(T)]
    BY <1>1, <1>5 DEF Linked
<1> HIDE DEF m
<1>7. Exclusive(m)
    <2>1. \A j \in K : IsInjective(m[j])
        BY <1>2, <1>3, <1>5
    <2>2. ASSUME NEW i \in K, NEW j \in K, i # j
          PROVE  Range(m[i]) \cap Range(m[j]) = {}
        <3>1. Range(ls[i]) \cap Range(ls[j]) = {}
            BY <1>1, <2>2 DEF Exclusive
        <3> QED
            BY <3>1, <2>2, <1>2, <1>3, <1>5
    <2> QED
        BY <1>1, <2>1, <2>2 DEF Exclusive
<1> QED
    BY <1>2, <1>5, <1>6, <1>7 DEF m

\* Lists of which some are replaced by parts of themselves: what thread_unlink
\* leaves, and what clearing a list leaves.
LEMMA ReducedExclusive ==
    ASSUME NEW K, NEW ls, NEW m, DOMAIN ls = K, DOMAIN m = K, Exclusive(ls),
           \A k \in K : IsInjective(m[k]) /\ Range(m[k]) \subseteq Range(ls[k])
    PROVE  Exclusive(m)
<1> SUFFICES ASSUME NEW i \in K, NEW j \in K, i # j
             PROVE  Range(m[i]) \cap Range(m[j]) = {}
    BY DEF Exclusive
<1>1. Range(ls[i]) \cap Range(ls[j]) = {}
    BY DEF Exclusive
<1> QED
    BY <1>1

\* thread_unlink from the list that has the thread: it is in no list then.
LEMMA UnlinkedProperties ==
    ASSUME NEW K, NEW T, NEW ls \in [K -> Seq(T)], NEW k \in K, NEW t \in Range(ls[k]),
           Exclusive(ls)
    PROVE  /\ Unlinked(ls, k, t) \in [K -> Seq(T)]
           /\ \A j \in K : Range(Unlinked(ls, k, t)[j]) = Range(ls[j]) \ {t}
           /\ Exclusive(Unlinked(ls, k, t))
<1> DEFINE m == Unlinked(ls, k, t)
           S == Range(ls[k]) \ {t}
<1>1. DOMAIN ls = K /\ DOMAIN m = K /\ m[k] = Keep(ls[k], S)
    BY DEF Unlinked
<1>2. \A j \in K \ {k} : m[j] = ls[j]
    BY DEF Unlinked
<1>3. ls[k] \in Seq(T) /\ \A j \in K : IsInjective(ls[j])
    BY <1>1 DEF Exclusive
<1>4. /\ m[k] \in Seq(T)
      /\ Range(m[k]) = Range(ls[k]) \ {t}
      /\ IsInjective(m[k])
    <2>1. /\ Keep(ls[k], S) \in Seq(T)
          /\ Range(Keep(ls[k], S)) = Range(ls[k]) \cap S
          /\ IsInjective(Keep(ls[k], S))
        BY <1>3, KeepProperties
    <2> QED
        BY <2>1, <1>1
<1>5. m \in [K -> Seq(T)]
    BY <1>1, <1>4 DEF Unlinked
<1> HIDE DEF m
<1>6. ASSUME NEW j \in K \ {k}
      PROVE  Range(m[j]) = Range(ls[j]) \ {t}
    <2>1. Range(ls[j]) \cap Range(ls[k]) = {}
        BY <1>1 DEF Exclusive
    <2> QED
        BY <2>1, <1>2
<1>7. \A j \in K : Range(m[j]) = Range(ls[j]) \ {t}
    BY <1>4, <1>6
<1>8. \A j \in K : IsInjective(m[j])
    BY <1>2, <1>3, <1>4
<1>9. Exclusive(m)
    BY <1>1, <1>7, <1>8, ReducedExclusive
<1> QED
    BY <1>5, <1>7, <1>9 DEF m
-----------------------------------------------------------------------------
(***************************************************************************)
(* The identifiers of the lists.                                           *)
(***************************************************************************)

\* The lists are different lists.
LEMMA ListIds ==
    /\ \A p \in Prio : Ready(p) \in ReadyList
    /\ \A k \in ReadyList : \E p \in Prio : k = Ready(p)
    /\ ReadyList \subseteq ListId
    /\ \A p, q \in Prio : Ready(p) = Ready(q) => p = q
    /\ Drop \in ListId /\ Fault \in ListId /\ Notify \in ListId
    /\ Cond \in ListId /\ WaitList \in ListId
    /\ \A t \in Thread : Chain(t) \in ListId
    /\ Drop \notin ReadyList /\ Fault \notin ReadyList /\ Notify \notin ReadyList
    /\ Cond \notin ReadyList /\ WaitList \notin ReadyList
    /\ \A t \in Thread : Chain(t) \notin ReadyList \cup {Drop, Fault, Notify, Cond, WaitList}
    /\ Drop \notin {Fault, Notify, Cond, WaitList}
    /\ Fault \notin {Notify, Cond, WaitList}
    /\ Notify \notin {Cond, WaitList}
BY DEF Ready, Drop, Fault, Notify, Cond, WaitList, Chain, ReadyList, ListId

\* Prio is not empty and its members are natural numbers.
LEMMA PrioProperties ==
    /\ NPrio - 1 \in Prio
    /\ 0 \in Prio
    /\ Prio \subseteq Nat
    /\ \A n \in Nat : n < NPrio <=> n \in Prio
BY KernelAssumption DEF Prio

-----------------------------------------------------------------------------
(***************************************************************************)
(* What the building blocks do to the lists.                               *)
(***************************************************************************)

\* The threads of M with virtual priority p.
AtPriority(M, vp, p) == {t \in M : vp[t] = p}

\* The lists m are the lists ls after the threads of M have gone from list k
\* to the ready lists of their virtual priority.
Moved(m, ls, k, M, vp) ==
    /\ m \in [ListId -> Seq(Thread)]
    /\ Exclusive(m)
    /\ Range(m[k]) = Range(ls[k]) \ M
    /\ \A p \in Prio : Range(m[Ready(p)]) = Range(ls[Ready(p)]) \cup AtPriority(M, vp, p)
    /\ \A j \in ListId \ (ReadyList \cup {k}) : m[j] = ls[j]

\* MoveToReady moves the threads of M, and them alone.
LEMMA MoveProperties ==
    ASSUME NEW ls \in [ListId -> Seq(Thread)], Exclusive(ls),
           NEW k \in ListId \ ReadyList,
           NEW M \in SUBSET Range(ls[k]),
           NEW vp, \A t \in M : vp[t] \in Prio
    PROVE  Moved(MoveToReady(ls, k, M, vp), ls, k, M, vp)
<1> DEFINE m == MoveToReady(ls, k, M, vp)
           moved(j) == {t \in M : Ready(vp[t]) = j}
           part(j) == Keep(ls[k], moved(j))
<1>1. DOMAIN ls = ListId /\ ls[k] \in Seq(Thread) /\ IsInjective(ls[k])
    BY DEF Exclusive
<1>2. /\ DOMAIN m = ListId
      /\ m[k] = Keep(ls[k], Range(ls[k]) \ M)
      /\ \A j \in ReadyList : m[j] = ls[j] \o part(j)
      /\ \A j \in ListId \ (ReadyList \cup {k}) : m[j] = ls[j]
    BY ListIds DEF MoveToReady
<1>3. /\ m[k] \in Seq(Thread)
      /\ Range(m[k]) = Range(ls[k]) \ M
      /\ IsInjective(m[k])
    <2> DEFINE S == Range(ls[k]) \ M
    <2>1. /\ Keep(ls[k], S) \in Seq(Thread)
          /\ Range(Keep(ls[k], S)) = Range(ls[k]) \cap S
          /\ IsInjective(Keep(ls[k], S))
        BY <1>1, KeepProperties
    <2> QED
        BY <2>1, <1>2
<1> HIDE DEF m
<1>4. ASSUME NEW j \in ReadyList
      PROVE  /\ m[j] \in Seq(Thread)
             /\ Range(m[j]) = Range(ls[j]) \cup moved(j)
             /\ IsInjective(m[j])
    <2> DEFINE S == moved(j)
    <2>1. /\ Keep(ls[k], S) \in Seq(Thread)
          /\ Range(Keep(ls[k], S)) = Range(ls[k]) \cap S
          /\ IsInjective(Keep(ls[k], S))
        BY <1>1, KeepProperties
    <2>2. Range(ls[k]) \cap S = S
        OBVIOUS
    <2>3. ls[j] \in Seq(Thread) /\ IsInjective(ls[j]) /\ Range(ls[j]) \cap Range(ls[k]) = {}
        BY <1>1, ListIds DEF Exclusive
    <2>4. m[j] = ls[j] \o Keep(ls[k], S)
        BY <1>2
    <2> HIDE DEF S
    <2>5. Range(ls[j]) \cap Range(Keep(ls[k], S)) = {}
        BY <2>1, <2>3
    <2> DEFINE u == Keep(ls[k], S)
    <2>6. u \in Seq(Thread) /\ IsInjective(u) /\ Range(ls[j]) \cap Range(u) = {}
        BY <2>1, <2>5
    <2> HIDE DEF u
    <2>7. /\ ls[j] \o u \in Seq(Thread)
          /\ Range(ls[j] \o u) = Range(ls[j]) \cup Range(u)
          /\ IsInjective(ls[j] \o u)
        BY <2>3, <2>6, InjectiveConcat
    <2> QED
        BY <2>1, <2>2, <2>4, <2>7 DEF u, S
<1>5. m \in [ListId -> Seq(Thread)]
    <2>1. \A j \in ListId : m[j] \in Seq(Thread)
        BY <1>2, <1>3, <1>4
    <2>2. m = [j \in ListId |-> m[j]]
        BY DEF m, MoveToReady
    <2> QED
        BY <2>1, <2>2
<1>6. \A p \in Prio : Range(m[Ready(p)]) = Range(ls[Ready(p)]) \cup AtPriority(M, vp, p)
    <2> SUFFICES ASSUME NEW p \in Prio
                 PROVE  Range(m[Ready(p)]) = Range(ls[Ready(p)]) \cup AtPriority(M, vp, p)
        OBVIOUS
    <2>1. moved(Ready(p)) = AtPriority(M, vp, p)
        BY ListIds DEF AtPriority
    <2>2. Ready(p) \in ReadyList
        BY ListIds
    <2> QED
        BY <1>4, <2>1, <2>2
<1>7. Exclusive(m)
    <2>1. \A j \in ListId : IsInjective(m[j])
        BY <1>1, <1>2, <1>3, <1>4 DEF Exclusive
    <2>2. ASSUME NEW i \in ListId, NEW j \in ListId, i # j
          PROVE  Range(m[i]) \cap Range(m[j]) = {}
        <3>1. /\ Range(ls[i]) \cap Range(ls[j]) = {}
              /\ i # k => Range(ls[i]) \cap Range(ls[k]) = {}
              /\ j # k => Range(ls[j]) \cap Range(ls[k]) = {}
            BY <1>1, <2>2 DEF Exclusive
        <3>2. moved(i) \cap moved(j) = {}
            BY <2>2
        <3>3. \A h \in ListId : \/ h \in ReadyList /\ Range(m[h]) = Range(ls[h]) \cup moved(h)
                                \/ h \notin ReadyList /\ h # k /\ Range(m[h]) = Range(ls[h])
                                \/ h = k /\ Range(m[h]) = Range(ls[k]) \ M
            BY <1>2, <1>3, <1>4
        <3>4. k \notin ReadyList /\ M \subseteq Range(ls[k])
            OBVIOUS
        <3> HIDE DEF moved
        <3>5. moved(i) \subseteq M /\ moved(j) \subseteq M
            BY DEF moved
        <3> QED
            BY <3>1, <3>2, <3>3, <3>4, <3>5, <2>2
    <2> QED
        BY <1>2, <2>1, <2>2 DEF Exclusive
<1> QED
    BY <1>2, <1>3, <1>5, <1>6, <1>7 DEF m, Moved

\* The members of the lists of consistent lists, and what follows for a thread
\* that is in one of them.
LEMMA MembersProperties ==
    ASSUME NEW ls, NEW n, NEW vp, NEW fl, NEW live, Consistent(ls, n, vp, fl, live)
    PROVE  /\ \A t : t \in Members(ls, ReadyList) <=> \E p \in Prio : t \in Range(ls[Ready(p)])
           /\ \A t : t \in Members(ls, ListId) <=> \E k \in ListId : t \in Range(ls[k])
           /\ Members(ls, ReadyList) \subseteq Members(ls, ListId)
           /\ Members(ls, ListId) \subseteq Thread
           /\ IsFiniteSet(Members(ls, ReadyList))
           /\ n \in Nat
           /\ \A k \in ListId \ ReadyList : Members(ls, ReadyList) \cap Range(ls[k]) = {}
<1>1. /\ \A t : t \in Members(ls, ReadyList) <=> \E p \in Prio : t \in Range(ls[Ready(p)])
      /\ \A t : t \in Members(ls, ListId) <=> \E k \in ListId : t \in Range(ls[k])
    BY ListIds DEF Members
<1>2. Members(ls, ReadyList) \subseteq Members(ls, ListId)
    BY <1>1, ListIds
<1>3. \A k \in ListId : Range(ls[k]) \subseteq Thread
    BY RangeOfSeq DEF Consistent
<1>4. Members(ls, ListId) \subseteq Thread
    BY <1>1, <1>3
<1>5. IsFiniteSet(Members(ls, ReadyList))
    BY <1>2, <1>4, ThreadAssumption, FS_Subset
<1>6. n \in Nat
    BY <1>5, FS_CardinalityType DEF Consistent
<1>7. \A j, k \in ListId : j # k => Range(ls[j]) \cap Range(ls[k]) = {}
    BY DEF Consistent, Exclusive
<1>8. \A k \in ListId \ ReadyList : Members(ls, ReadyList) \cap Range(ls[k]) = {}
    BY <1>1, <1>7, ListIds
<1> QED
    BY <1>1, <1>2, <1>4, <1>5, <1>6, <1>8

\* Consistency is about the threads that are in the lists: the other threads'
\* fields may change, and so may the virtual priority of dropped threads.
LEMMA SameConsistent ==
    ASSUME NEW ls, NEW n, NEW vp, NEW fl, NEW live, Consistent(ls, n, vp, fl, live),
           NEW vp1, NEW fl1, NEW live1, Members(ls, ListId) \subseteq live1,
           \A t \in Members(ls, ListId) : fl1[t] = fl[t],
           \A t \in Members(ls, ListId) \ Range(ls[Drop]) : vp1[t] = vp[t]
    PROVE  Consistent(ls, n, vp1, fl1, live1)
<1>1. \A k \in ListId : Range(ls[k]) \subseteq Members(ls, ListId)
    BY MembersProperties
<1>2. \A k \in ListId \ {Drop} : Range(ls[k]) \cap Range(ls[Drop]) = {}
    BY ListIds DEF Consistent, Exclusive
<1>3. \A k \in ListId \ {Drop} : \A t \in Range(ls[k]) : vp1[t] = vp[t]
    BY <1>1, <1>2
<1>4. \A k \in ListId : \A t \in Range(ls[k]) : fl1[t] = fl[t]
    BY <1>1
<1>5. \A p \in Prio : Ready(p) \in ListId \ {Drop}
    BY ListIds
<1> QED
    BY <1>3, <1>4, <1>5, ListIds DEF Consistent

\* Moving threads to the ready lists.
LEMMA MoveConsistent ==
    ASSUME NEW ls, NEW n, NEW vp, NEW fl, NEW live, Consistent(ls, n, vp, fl, live),
           NEW k \in ListId \ (ReadyList \cup {Fault, Notify}),
           NEW M \in SUBSET Range(ls[k]),
           \A t \in M : vp[t] \in Prio
    PROVE  /\ Consistent(MoveToReady(ls, k, M, vp), n + Cardinality(M), vp, fl, live)
           /\ Members(MoveToReady(ls, k, M, vp), ListId) = Members(ls, ListId)
           /\ Members(MoveToReady(ls, k, M, vp), ReadyList) = Members(ls, ReadyList) \cup M
           /\ IdleCompetes(ls) => IdleCompetes(MoveToReady(ls, k, M, vp))
<1> DEFINE m == MoveToReady(ls, k, M, vp)
<1>1. ls \in [ListId -> Seq(Thread)] /\ Exclusive(ls) /\ k \in ListId \ ReadyList
    BY DEF Consistent
<1>2. /\ m \in [ListId -> Seq(Thread)]
      /\ Exclusive(m)
      /\ Range(m[k]) = Range(ls[k]) \ M
      /\ \A p \in Prio : Range(m[Ready(p)]) = Range(ls[Ready(p)]) \cup AtPriority(M, vp, p)
      /\ \A j \in ListId \ (ReadyList \cup {k}) : m[j] = ls[j]
    <2>1. Moved(m, ls, k, M, vp)
        BY <1>1, MoveProperties
    <2> QED
        BY <2>1 DEF Moved
<1> HIDE DEF m
<1>11. \A j \in ListId :
         \/ j = k /\ Range(m[j]) = Range(ls[k]) \ M
         \/ \E p \in Prio : /\ j = Ready(p)
                            /\ Range(m[j]) = Range(ls[j]) \cup AtPriority(M, vp, p)
         \/ j \notin ReadyList /\ Range(m[j]) = Range(ls[j])
    <2> SUFFICES ASSUME NEW j \in ListId
                 PROVE  \/ j = k /\ Range(m[j]) = Range(ls[k]) \ M
                        \/ \E p \in Prio :
                              /\ j = Ready(p)
                              /\ Range(m[j]) = Range(ls[j]) \cup AtPriority(M, vp, p)
                        \/ j \notin ReadyList /\ Range(m[j]) = Range(ls[j])
        OBVIOUS
    <2>1. CASE j = k
        BY <2>1, <1>2
    <2>2. CASE j \in ReadyList
        <3>1. PICK p \in Prio : j = Ready(p)
            BY <2>2, ListIds
        <3> QED
            BY <3>1, <1>2
    <2>3. CASE j # k /\ j \notin ReadyList
        BY <2>3, <1>2
    <2> QED
        BY <2>1, <2>2, <2>3
<1>3. Members(m, ReadyList) = Members(ls, ReadyList) \cup M
    <2>1. \A t : t \in Members(m, ReadyList) <=> \E p \in Prio : t \in Range(m[Ready(p)])
        BY ListIds DEF Members
    <2>2. \A t : t \in Members(ls, ReadyList) <=> \E p \in Prio : t \in Range(ls[Ready(p)])
        BY MembersProperties
    <2>3. \A t : (\E p \in Prio : t \in Range(m[Ready(p)]))
                   <=> t \in M \/ \E p \in Prio : t \in Range(ls[Ready(p)])
        BY <1>2 DEF AtPriority
    <2> QED
        BY <2>1, <2>2, <2>3
<1>4. Members(m, ListId) = Members(ls, ListId)
    <2>1. \A t : t \in Members(m, ListId) <=> \E j \in ListId : t \in Range(m[j])
        BY DEF Members
    <2>2. \A t : t \in Members(ls, ListId) <=> \E j \in ListId : t \in Range(ls[j])
        BY MembersProperties
    <2>3. \A j \in ListId : Range(m[j]) \subseteq Range(ls[j]) \cup M
        BY <1>11 DEF AtPriority
    <2>4. \A t \in M : \E j \in ListId : t \in Range(m[j])
        BY <1>2, ListIds DEF AtPriority
    <2>5. \A j \in ListId : \A t \in Range(ls[j]) : t \in M \/ t \in Range(m[j])
        BY <1>11
    <2> QED
        BY <2>1, <2>2, <2>3, <2>4, <2>5
<1>5. n + Cardinality(M) = Cardinality(Members(m, ReadyList))
    <2>1. IsFiniteSet(Members(ls, ReadyList)) /\ Members(ls, ReadyList) \cap M = {}
        BY MembersProperties
    <2>2. M \in SUBSET Thread
        BY MembersProperties
    <2>3. IsFiniteSet(M)
        BY <2>2, ThreadAssumption, FS_Subset
    <2>4. Cardinality({}) = 0
        BY FS_EmptySet
    <2>5. /\ Cardinality(Members(ls, ReadyList)) \in Nat
          /\ Cardinality(M) \in Nat
        BY <2>1, <2>3, FS_CardinalityType
    <2> DEFINE R == Members(ls, ReadyList)
    <2>7. n = Cardinality(R)
        BY DEF Consistent
    <2>6. Cardinality(R \cup M) = Cardinality(R) + Cardinality(M) - Cardinality(R \cap M)
        BY <2>1, <2>3, FS_Union
    <2>8. R \cap M = {}
        BY <2>1
    <2> HIDE DEF R
    <2>9. Cardinality(R \cap M) = 0
        BY <2>4, <2>8
    <2>10. Members(m, ReadyList) = R \cup M /\ Cardinality(R) \in Nat
        BY <1>3, <2>5 DEF R
    <2> QED
        BY <2>5, <2>6, <2>7, <2>9, <2>10
<1>6. \A t \in M : fl[t] = {}
    BY DEF Consistent
<1>12. \A p \in Prio : \A t \in Range(ls[Ready(p)]) : vp[t] = p /\ fl[t] = {}
    <2>1. \A p \in Prio : Ready(p) \in ListId \ {Fault, Notify}
        BY ListIds
    <2> QED
        BY <2>1 DEF Consistent
<1>7. \A p \in Prio : \A t \in Range(m[Ready(p)]) : vp[t] = p /\ fl[t] = {}
    BY <1>2, <1>6, <1>12 DEF AtPriority
<1>8. \A j \in ListId \ ReadyList : Range(m[j]) \subseteq Range(ls[j])
    BY <1>2
<1>9. Consistent(m, n + Cardinality(M), vp, fl, live)
    <2>5. \A j \in ReadyList : \A t \in Range(m[j]) : vp[t] \in Prio /\ fl[t] = {}
        BY <1>7, ListIds
    <2>1. \A j \in ListId \ {Drop} : \A t \in Range(m[j]) : vp[t] \in Prio
        BY <2>5, <1>8 DEF Consistent
    <2>2. \A j \in ListId \ {Fault, Notify} : \A t \in Range(m[j]) : fl[t] = {}
        BY <2>5, <1>8 DEF Consistent
    <2>3. \A t \in Range(m[Notify]) : fl[t] = {"notify"}
        BY <1>8, ListIds DEF Consistent
    <2>4. Members(m, ListId) \subseteq live
        BY <1>4 DEF Consistent
    <2> QED
        BY <2>1, <2>2, <2>3, <2>4, <1>2, <1>5, <1>7 DEF Consistent
<1>10. IdleCompetes(ls) => IdleCompetes(m)
    <2>1. \A f : Members(f, ReadyList \cup {Drop}) = Members(f, ReadyList) \cup Range(f[Drop])
        BY DEF Members
    <2>2. Range(ls[Drop]) \subseteq M \cup Range(m[Drop])
        BY <1>2, ListIds
    <2> QED
        BY <2>1, <2>2, <1>3 DEF IdleCompetes
<1> QED
    BY <1>3, <1>4, <1>9, <1>10 DEF m

\* What a thread of list k counts for in threads_total.
Count(k) == IF k \in ReadyList THEN 1 ELSE 0

\* Unlinking a thread from the list it is in.
LEMMA UnlinkConsistent ==
    ASSUME NEW ls, NEW n, NEW vp, NEW fl, NEW live, Consistent(ls, n, vp, fl, live),
           NEW k \in ListId, NEW t \in Range(ls[k])
    PROVE  /\ Consistent(Unlinked(ls, k, t), n - Count(k), vp, fl, live)
           /\ Members(Unlinked(ls, k, t), ListId) = Members(ls, ListId) \ {t}
           /\ Members(Unlinked(ls, k, t), ReadyList) = Members(ls, ReadyList) \ {t}
           /\ \A j \in ListId : Range(Unlinked(ls, k, t)[j]) = Range(ls[j]) \ {t}
           /\ IdleCompetes(ls) /\ t # Idle => IdleCompetes(Unlinked(ls, k, t))
<1> DEFINE m == Unlinked(ls, k, t)
<1>1. ls \in [ListId -> Seq(Thread)] /\ Exclusive(ls)
    BY DEF Consistent
<1>2. /\ m \in [ListId -> Seq(Thread)]
      /\ \A j \in ListId : Range(m[j]) = Range(ls[j]) \ {t}
      /\ Exclusive(m)
    BY <1>1, UnlinkedProperties
<1> HIDE DEF m
<1>3. \A K \in SUBSET ListId : Members(m, K) = Members(ls, K) \ {t}
    BY <1>2 DEF Members
<1>4. /\ Members(m, ListId) = Members(ls, ListId) \ {t}
      /\ Members(m, ReadyList) = Members(ls, ReadyList) \ {t}
      /\ Members(m, ReadyList \cup {Drop}) = Members(ls, ReadyList \cup {Drop}) \ {t}
    BY <1>3, ListIds
<1>5. n - Count(k) = Cardinality(Members(m, ReadyList))
    <2> DEFINE R == Members(ls, ReadyList)
    <2>1. IsFiniteSet(R) /\ n = Cardinality(R) /\ n \in Nat
        <3>1. IsFiniteSet(R) /\ n \in Nat
            BY MembersProperties
        <3> QED
            BY <3>1 DEF Consistent
    <2>2. t \in R <=> k \in ReadyList
        <3>1. k \in ReadyList => t \in R
            BY DEF Members
        <3>2. k \notin ReadyList => R \cap Range(ls[k]) = {}
            BY MembersProperties
        <3> QED
            BY <3>1, <3>2
    <2> HIDE DEF R
    <2>3. Cardinality(R \ {t}) = IF t \in R THEN Cardinality(R) - 1 ELSE Cardinality(R)
        BY <2>1, FS_RemoveElement
    <2>4. Members(m, ReadyList) = R \ {t}
        BY <1>4 DEF R
    <2> QED
        BY <2>1, <2>2, <2>3, <2>4 DEF Count
<1>6. Consistent(m, n - Count(k), vp, fl, live)
    <2>1. \A j \in ListId : Range(m[j]) \subseteq Range(ls[j])
        BY <1>2
    <2>2. \A p \in Prio : \A u \in Range(m[Ready(p)]) : vp[u] = p
        BY <2>1, ListIds DEF Consistent
    <2>3. \A u \in Range(m[Notify]) : fl[u] = {"notify"}
        BY <2>1, ListIds DEF Consistent
    <2>4. Members(m, ListId) \subseteq live
        BY <1>4 DEF Consistent
    <2>5. /\ \A j \in ListId \ {Drop} : \A u \in Range(m[j]) : vp[u] \in Prio
          /\ \A j \in ListId \ {Fault, Notify} : \A u \in Range(m[j]) : fl[u] = {}
        BY <2>1 DEF Consistent
    <2> QED
        BY <1>2, <1>5, <2>2, <2>3, <2>4, <2>5 DEF Consistent
<1>7. IdleCompetes(ls) /\ t # Idle => IdleCompetes(m)
    BY <1>4 DEF IdleCompetes
<1> QED
    BY <1>2, <1>4, <1>6, <1>7 DEF m

\* The fields of thread t are as list k requires.
Linkable(k, t, vp, fl) ==
    /\ k # Drop => vp[t] \in Prio
    /\ \A p \in Prio : k = Ready(p) => vp[t] = p
    /\ k \notin {Fault, Notify} => fl[t] = {}
    /\ k = Notify => fl[t] = {"notify"}

\* Linking a live thread that is in no list.
LEMMA LinkConsistent ==
    ASSUME NEW ls, NEW n, NEW vp, NEW fl, NEW live, Consistent(ls, n, vp, fl, live),
           NEW k \in ListId, NEW t \in Thread, t \in live,
           t \notin Members(ls, ListId), Linkable(k, t, vp, fl)
    PROVE  /\ Consistent(Linked(ls, k, t), n + Count(k), vp, fl, live)
           /\ Members(Linked(ls, k, t), ListId) = Members(ls, ListId) \cup {t}
           /\ Members(Linked(ls, k, t), ReadyList) =
                 Members(ls, ReadyList) \cup (IF k \in ReadyList THEN {t} ELSE {})
           /\ Range(Linked(ls, k, t)[k]) = Range(ls[k]) \cup {t}
           /\ \A j \in ListId \ {k} : Linked(ls, k, t)[j] = ls[j]
           /\ IdleCompetes(ls) => IdleCompetes(Linked(ls, k, t))
           /\ t = Idle /\ k \in ReadyList \cup {Drop} => IdleCompetes(Linked(ls, k, t))
<1> DEFINE m == Linked(ls, k, t)
<1>1. ls \in [ListId -> Seq(Thread)] /\ Exclusive(ls)
    BY DEF Consistent
<1>2. /\ m \in [ListId -> Seq(Thread)]
      /\ Range(m[k]) = Range(ls[k]) \cup {t}
      /\ \A j \in ListId \ {k} : m[j] = ls[j]
      /\ Exclusive(m)
    BY <1>1, LinkedProperties
<1> HIDE DEF m
<1>3. \A K \in SUBSET ListId :
         Members(m, K) = Members(ls, K) \cup (IF k \in K THEN {t} ELSE {})
    BY <1>2 DEF Members
<1>4. /\ Members(m, ListId) = Members(ls, ListId) \cup {t}
      /\ Members(m, ReadyList) = Members(ls, ReadyList) \cup (IF k \in ReadyList THEN {t} ELSE {})
      /\ Members(m, ReadyList \cup {Drop}) =
            Members(ls, ReadyList \cup {Drop}) \cup (IF k \in ReadyList \cup {Drop} THEN {t} ELSE {})
    BY <1>3, ListIds
<1>5. n + Count(k) = Cardinality(Members(m, ReadyList))
    <2> DEFINE R == Members(ls, ReadyList)
    <2>1. IsFiniteSet(R) /\ n = Cardinality(R) /\ n \in Nat /\ t \notin R
        <3>1. IsFiniteSet(R) /\ n \in Nat /\ R \subseteq Members(ls, ListId)
            BY MembersProperties
        <3> QED
            BY <3>1 DEF Consistent
    <2> HIDE DEF R
    <2>2. Cardinality(R \cup {t}) = Cardinality(R) + 1
        BY <2>1, FS_AddElement
    <2>3. Members(m, ReadyList) = IF k \in ReadyList THEN R \cup {t} ELSE R
        BY <1>4 DEF R
    <2> QED
        BY <2>1, <2>2, <2>3 DEF Count
<1>6. Consistent(m, n + Count(k), vp, fl, live)
    <2>1. \A j \in ListId : \A u \in Range(m[j]) : u \in Range(ls[j]) \/ (j = k /\ u = t)
        BY <1>2
    <2>2. \A p \in Prio : \A u \in Range(m[Ready(p)]) : vp[u] = p
        BY <2>1, ListIds DEF Consistent, Linkable
    <2>3. \A u \in Range(m[Notify]) : fl[u] = {"notify"}
        BY <2>1, ListIds DEF Consistent, Linkable
    <2>4. Members(m, ListId) \subseteq live
        BY <1>4 DEF Consistent
    <2>5. /\ \A j \in ListId \ {Drop} : \A u \in Range(m[j]) : vp[u] \in Prio
          /\ \A j \in ListId \ {Fault, Notify} : \A u \in Range(m[j]) : fl[u] = {}
        BY <2>1 DEF Consistent, Linkable
    <2> QED
        BY <1>2, <1>5, <2>2, <2>3, <2>4, <2>5 DEF Consistent
<1>7. /\ IdleCompetes(ls) => IdleCompetes(m)
      /\ t = Idle /\ k \in ReadyList \cup {Drop} => IdleCompetes(m)
    BY <1>4 DEF IdleCompetes
<1> QED
    BY <1>2, <1>4, <1>6, <1>7 DEF m

\* Clearing a list that is not a ready list, which nothing but the chain of a
\* new or freed thread is.
LEMMA ClearConsistent ==
    ASSUME NEW ls, NEW n, NEW vp, NEW fl, NEW live, Consistent(ls, n, vp, fl, live),
           NEW k \in ListId \ (ReadyList \cup {Drop})
    PROVE  /\ Consistent([ls EXCEPT ![k] = <<>>], n, vp, fl, live)
           /\ Members([ls EXCEPT ![k] = <<>>], ListId) \subseteq Members(ls, ListId)
           /\ Members(ls, ListId) \ Range(ls[k]) \subseteq Members([ls EXCEPT ![k] = <<>>], ListId)
           /\ Members([ls EXCEPT ![k] = <<>>], ReadyList) = Members(ls, ReadyList)
           /\ IdleCompetes(ls) => IdleCompetes([ls EXCEPT ![k] = <<>>])
<1> DEFINE m == [ls EXCEPT ![k] = <<>>]
<1>1. ls \in [ListId -> Seq(Thread)] /\ Exclusive(ls)
    BY DEF Consistent
<1>2. /\ m \in [ListId -> Seq(Thread)]
      /\ DOMAIN m = ListId
      /\ m[k] = <<>>
      /\ \A j \in ListId \ {k} : m[j] = ls[j]
    BY <1>1
<1> HIDE DEF m
<1>3. \A j \in ListId : IsInjective(m[j]) /\ Range(m[j]) \subseteq Range(ls[j])
    <2>1. IsInjective(<<>>) /\ Range(<<>>) = {}
        BY DEF IsInjective, Range
    <2>2. \A j \in ListId : IsInjective(ls[j])
        BY <1>1 DEF Exclusive
    <2> QED
        BY <2>1, <2>2, <1>2
<1>4. Exclusive(m)
    BY <1>1, <1>2, <1>3, ReducedExclusive
<1>5. /\ Members(m, ListId) \subseteq Members(ls, ListId)
      /\ Members(ls, ListId) \ Range(ls[k]) \subseteq Members(m, ListId)
      /\ Members(m, ReadyList) = Members(ls, ReadyList)
      /\ Members(m, ReadyList \cup {Drop}) = Members(ls, ReadyList \cup {Drop})
    <2>1. /\ Members(m, ListId) \subseteq Members(ls, ListId)
          /\ Members(ls, ListId) \ Range(ls[k]) \subseteq Members(m, ListId)
        BY <1>2, <1>3 DEF Members
    <2>2. \A K \in SUBSET (ListId \ {k}) : Members(m, K) = Members(ls, K)
        BY <1>2 DEF Members
    <2>3. ReadyList \subseteq ListId \ {k} /\ ReadyList \cup {Drop} \subseteq ListId \ {k}
        BY ListIds
    <2> QED
        BY <2>1, <2>2, <2>3
<1>6. Consistent(m, n, vp, fl, live)
    <2>1. /\ \A p \in Prio : \A u \in Range(m[Ready(p)]) : vp[u] = p
          /\ \A u \in Range(m[Notify]) : fl[u] = {"notify"}
        BY <1>3, ListIds DEF Consistent
    <2>2. /\ \A j \in ListId \ {Drop} : \A u \in Range(m[j]) : vp[u] \in Prio
          /\ \A j \in ListId \ {Fault, Notify} : \A u \in Range(m[j]) : fl[u] = {}
        BY <1>3 DEF Consistent
    <2>3. Members(m, ListId) \subseteq live /\ n = Cardinality(Members(m, ReadyList))
        BY <1>5 DEF Consistent
    <2> QED
        BY <1>2, <1>4, <2>1, <2>2, <2>3 DEF Consistent
<1>7. IdleCompetes(ls) => IdleCompetes(m)
    BY <1>5 DEF IdleCompetes
<1> QED
    BY <1>5, <1>6, <1>7 DEF m

-----------------------------------------------------------------------------
(***************************************************************************)
(* PICK_READY.                                                             *)
(***************************************************************************)

\* A ready thread is in the list of its virtual priority and can run.
LEMMA ReadyWhere ==
    ASSUME NEW ls, NEW n, NEW vp, NEW fl, NEW live, Consistent(ls, n, vp, fl, live),
           NEW t \in Members(ls, ReadyList)
    PROVE  /\ t \in Range(ls[Ready(vp[t])])
           /\ vp[t] \in Prio
           /\ fl[t] = {}
           /\ t \in Thread
<1>1. PICK p \in Prio : t \in Range(ls[Ready(p)])
    BY MembersProperties
<1>2. vp[t] = p
    BY <1>1 DEF Consistent
<1>3. Ready(p) \in ListId \ {Fault, Notify}
    BY ListIds
<1>4. fl[t] = {}
    BY <1>1, <1>3 DEF Consistent
<1>5. t \in Thread
    BY MembersProperties
<1> QED
    BY <1>1, <1>2, <1>4, <1>5

\* What GET_READY finds when a thread is ready: a ready thread.
LEMMA PickedReady ==
    ASSUME NEW ls, NEW n, NEW vp, NEW fl, NEW live, Consistent(ls, n, vp, fl, live),
           Members(ls, ReadyList) # {},
           NEW t, Picked(ls, fl, t)
    PROVE  t \in Members(ls, ReadyList)
<1>1. \A u : u \in Members(ls, ReadyList) <=> \E p \in Prio : u \in Range(ls[Ready(p)])
    BY MembersProperties
<1>2. CASE \E p \in Prio : \E i \in DOMAIN ls[Ready(p)] : t = ls[Ready(p)][i]
    BY <1>2, <1>1 DEF Range
<1>3. CASE \A p \in Prio : \A u \in Range(ls[Ready(p)]) : Blocked(fl, u)
    <2>1. PICK u : u \in Members(ls, ReadyList)
        OBVIOUS
    <2>2. fl[u] = {}
        BY <2>1, ReadyWhere
    <2>3. Blocked(fl, u)
        BY <1>1, <1>3, <2>1
    <2> QED
        BY <2>2, <2>3 DEF Blocked
<1> QED
    BY <1>2, <1>3 DEF Picked

\* t_refresh at the end of a round: whatever the lists were, a thread is ready.
LEMMA RefreshConsistent ==
    ASSUME NEW ls, NEW n, NEW vp \in [Thread -> Nat], NEW fl, NEW live,
           Consistent(ls, n, vp, fl, live), IdleCompetes(ls),
           prio \in [Thread -> Prio]
    PROVE  LET vp1 == IF RoundOver(n) THEN Refreshed(ls, vp) ELSE vp
               ls1 == IF RoundOver(n) THEN MoveToReady(ls, Drop, Range(ls[Drop]), vp1) ELSE ls
               n1  == IF RoundOver(n) THEN Counted(n, ls[Drop]) ELSE n
           IN  /\ Consistent(ls1, n1, vp1, fl, live)
               /\ IdleCompetes(ls1)
               /\ Members(ls1, ListId) = Members(ls, ListId)
               /\ Members(ls1, ReadyList) # {}
               /\ vp1 \in [Thread -> Nat]
               /\ \A t \in Thread \ Members(ls, ListId) : vp1[t] = vp[t]
<1>1. CASE RoundOver(n)
    <2> DEFINE vp1 == Refreshed(ls, vp)
               M == Range(ls[Drop])
               m == MoveToReady(ls, Drop, M, vp1)
    <2>1. ls[Drop] \in Seq(Thread) /\ IsInjective(ls[Drop]) /\ Drop \in ListId
        BY ListIds DEF Consistent, Exclusive
    <2>2. M \subseteq Thread /\ M \subseteq Members(ls, ListId)
        BY <2>1, RangeOfSeq DEF Members
    <2>3. /\ vp1 \in [Thread -> Nat]
          /\ \A t \in M : vp1[t] \in Prio
          /\ \A t \in Thread \ M : vp1[t] = vp[t]
        BY <2>2, PrioProperties DEF Refreshed
    <2> HIDE DEF vp1
    <2>4. Members(ls, ListId) \subseteq live /\ Members(ls, ListId) \subseteq Thread
        <3>1. Members(ls, ListId) \subseteq Thread
            BY MembersProperties
        <3> QED
            BY <3>1 DEF Consistent
    <2>5. Consistent(ls, n, vp1, fl, live)
        BY <2>3, <2>4, SameConsistent
    <2>6. Drop \in ListId \ (ReadyList \cup {Fault, Notify})
        BY ListIds
    <2>7. /\ Consistent(m, n + Cardinality(M), vp1, fl, live)
          /\ Members(m, ListId) = Members(ls, ListId)
          /\ Members(m, ReadyList) = Members(ls, ReadyList) \cup M
          /\ IdleCompetes(m)
        BY <2>3, <2>5, <2>6, MoveConsistent
    <2>8. Counted(n, ls[Drop]) = n + Cardinality(M)
        BY <2>1, InjectiveLength DEF Counted
    <2>9. Members(m, ReadyList) # {}
        <3>1. Idle \in Members(ls, ReadyList) \cup M
            BY DEF IdleCompetes, Members
        <3> QED
            BY <3>1, <2>7
    <2> QED
        BY <1>1, <2>2, <2>3, <2>7, <2>8, <2>9 DEF vp1
<1>2. CASE ~RoundOver(n)
    <2>1. n # 0
        BY <1>2 DEF RoundOver
    <2>2. Members(ls, ReadyList) # {}
        BY <2>1, FS_EmptySet DEF Consistent
    <2> QED
        BY <1>2, <2>2
<1> QED
    BY <1>1, <1>2

\* The state PICK_READY leaves, for the lists, the flags and the live threads
\* a handler gives it.
Dispatched(ls, vp, fl, live) ==
    /\ Consistent(list', total', vprio', fl, live)
    /\ IdleCompetes(list')
    /\ Members(list', ListId) = Members(ls, ListId)
    /\ cur' \in Members(list', ReadyList)
    /\ vprio' \in [Thread -> Nat]
    /\ status' \in [Thread -> Status]
    /\ \A t \in Thread \ Members(ls, ListId) : vprio'[t] = vp[t]

\* PICK_READY keeps the lists consistent and picks a ready thread.
LEMMA PickReadyProperties ==
    ASSUME NEW ls, NEW n, NEW vp \in [Thread -> Nat], NEW fl, NEW live,
           NEW st \in [Thread -> Status],
           Consistent(ls, n, vp, fl, live), IdleCompetes(ls),
           prio \in [Thread -> Prio],
           PickReady(ls, n, vp, st, fl)
    PROVE  Dispatched(ls, vp, fl, live)
<1> DEFINE vp1 == IF RoundOver(n) THEN Refreshed(ls, vp) ELSE vp
           ls1 == IF RoundOver(n) THEN MoveToReady(ls, Drop, Range(ls[Drop]), vp1) ELSE ls
           n1  == IF RoundOver(n) THEN Counted(n, ls[Drop]) ELSE n
<1>1. /\ Consistent(ls1, n1, vp1, fl, live)
      /\ IdleCompetes(ls1)
      /\ Members(ls1, ListId) = Members(ls, ListId)
      /\ Members(ls1, ReadyList) # {}
      /\ vp1 \in [Thread -> Nat]
      /\ \A t \in Thread \ Members(ls, ListId) : vp1[t] = vp[t]
    BY RefreshConsistent
<1>2. /\ vprio' = vp1
      /\ \E t \in Thread :
            /\ Picked(ls1, fl, t)
            /\ cur' = t
            /\ status' = [st EXCEPT ![t] = "run"]
            /\ IF st[t] = "stop"
               THEN list' = ls1 /\ total' = n1
               ELSE /\ list' = MoveToReady(ls1, Chain(t), Range(ls1[Chain(t)]), vp1)
                    /\ total' = Counted(n1, ls1[Chain(t)])
    BY DEF PickReady
<1> HIDE DEF vp1, ls1, n1
<1>3. PICK t \in Thread :
            /\ Picked(ls1, fl, t)
            /\ cur' = t
            /\ status' = [st EXCEPT ![t] = "run"]
            /\ IF st[t] = "stop"
               THEN list' = ls1 /\ total' = n1
               ELSE /\ list' = MoveToReady(ls1, Chain(t), Range(ls1[Chain(t)]), vp1)
                    /\ total' = Counted(n1, ls1[Chain(t)])
    BY <1>2
<1>4. t \in Members(ls1, ReadyList)
    BY <1>1, <1>3, PickedReady
<1>5. status' \in [Thread -> Status]
    BY <1>3 DEF Status
<1>6. CASE st[t] = "stop"
    BY <1>1, <1>2, <1>3, <1>4, <1>5, <1>6 DEF Dispatched
<1>7. CASE st[t] # "stop"
    <2> DEFINE k == Chain(t)
               M == Range(ls1[k])
    <2>1. list' = MoveToReady(ls1, k, M, vp1) /\ total' = Counted(n1, ls1[k])
        BY <1>3, <1>7
    <2>2. k \in ListId \ (ReadyList \cup {Fault, Notify}) /\ k # Drop
        BY ListIds
    <2> HIDE DEF k
    <2>3. ls1[k] \in Seq(Thread) /\ IsInjective(ls1[k]) /\ \A u \in M : vp1[u] \in Prio
        BY <1>1, <2>2 DEF Consistent, Exclusive
    <2>4. Counted(n1, ls1[k]) = n1 + Cardinality(M)
        BY <2>3, InjectiveLength DEF Counted
    <2>5. Consistent(ls1, n1, vp1, fl, live) /\ IdleCompetes(ls1)
        BY <1>1
    <2>6. /\ Consistent(MoveToReady(ls1, k, M, vp1), n1 + Cardinality(M), vp1, fl, live)
          /\ Members(MoveToReady(ls1, k, M, vp1), ListId) = Members(ls1, ListId)
          /\ Members(MoveToReady(ls1, k, M, vp1), ReadyList) = Members(ls1, ReadyList) \cup M
          /\ IdleCompetes(MoveToReady(ls1, k, M, vp1))
        BY <2>2, <2>3, <2>5, MoveConsistent
    <2>7. cur' \in Members(list', ReadyList)
        BY <1>3, <1>4, <2>1, <2>6
    <2> QED
        BY <1>1, <1>2, <1>5, <2>1, <2>4, <2>6, <2>7 DEF Dispatched
<1> QED
    BY <1>6, <1>7

-----------------------------------------------------------------------------
(***************************************************************************)
(* Steps.                                                                  *)
(***************************************************************************)

\* The types of the kernel's own variables.
KernelTypeOK ==
    /\ cur \in Thread
    /\ list \in [ListId -> Seq(Thread)]
    /\ total \in Nat
    /\ preempt \in BOOLEAN
    /\ heap \in SUBSET Thread
    /\ table \in SUBSET Thread
    /\ status \in [Thread -> Status]
    /\ prio \in [Thread -> Prio]
    /\ vprio \in [Thread -> Nat]
    /\ flags \in [Thread -> SUBSET Flag]
    /\ caller \in [Thread -> Thread \cup {NULL}]
    /\ event \in [Thread -> Event \cup {NULL}]
    /\ exited \in SUBSET Thread

\* The part of the invariant that is not about the mutexes.
SchedulerInv ==
    /\ KernelTypeOK
    /\ Consistent(list, total, vprio, flags, Live)
    /\ IdleCompetes(list)
    /\ RunningIsReady
    /\ CallersSuspended
    /\ \A t \in Live \ Linkings : vprio[t] \in Prio
    /\ exited \subseteq heap

\* The invariant as a step finds it: the running thread, and the lists once it
\* is unlinked.
LEMMA Running ==
    ASSUME KernelInv
    PROVE  /\ cur \in Thread
           /\ cur \in Live
           /\ cur \in Linkings
           /\ cur \in ReadyThreads
           /\ vprio[cur] \in Prio
           /\ cur \in Range(list[Ready(vprio[cur])])
           /\ flags[cur] = {}
           /\ Consistent(CurUnlinked, total - 1, vprio, flags, Live)
           /\ Members(CurUnlinked, ListId) = Linkings \ {cur}
           /\ Members(CurUnlinked, ReadyList) = ReadyThreads \ {cur}
           /\ cur # Idle => IdleCompetes(CurUnlinked)
           /\ \A j \in ListId \ ReadyList : Range(CurUnlinked[j]) = Range(list[j])
           /\ Linkings \subseteq Thread
<1> DEFINE k == Ready(vprio[cur])
<1>1. /\ Consistent(list, total, vprio, flags, Live)
      /\ IdleCompetes(list)
      /\ cur \in Thread
    BY DEF KernelInv, TypeOK
<1>2. /\ vprio[cur] \in Prio
      /\ cur \in Range(list[k])
      /\ flags[cur] = {}
      /\ cur \in Live
    BY DEF KernelInv, RunningIsReady
<1>3. k \in ListId /\ k \in ReadyList
    BY <1>2, ListIds
<1>4. cur \in Linkings /\ cur \in ReadyThreads
    BY <1>2, <1>3 DEF Linkings, ReadyThreads, Members
<1> HIDE DEF k
<1>5. /\ Consistent(Unlinked(list, k, cur), total - Count(k), vprio, flags, Live)
      /\ Members(Unlinked(list, k, cur), ListId) = Members(list, ListId) \ {cur}
      /\ Members(Unlinked(list, k, cur), ReadyList) = Members(list, ReadyList) \ {cur}
      /\ \A j \in ListId : Range(Unlinked(list, k, cur)[j]) = Range(list[j]) \ {cur}
      /\ IdleCompetes(list) /\ cur # Idle => IdleCompetes(Unlinked(list, k, cur))
    BY <1>1, <1>2, <1>3, UnlinkConsistent
<1>6. Count(k) = 1 /\ CurUnlinked = Unlinked(list, k, cur)
    BY <1>3 DEF Count, CurUnlinked, k
<1>7. Linkings \subseteq Thread
    BY <1>1, MembersProperties DEF Linkings
<1>8. \A j \in ListId \ ReadyList : cur \notin Range(list[j])
    BY <1>1, <1>4, MembersProperties DEF ReadyThreads
<1>9. \A j \in ListId \ ReadyList : Range(CurUnlinked[j]) = Range(list[j])
    BY <1>5, <1>6, <1>8
<1> QED
    BY <1>1, <1>2, <1>4, <1>5, <1>6, <1>7, <1>9 DEF k, Linkings, ReadyThreads

\* A step that leaves the set of live threads and their callers as they are,
\* and neither links a thread that was in no list nor changes its flags,
\* leaves the callers and the threads that wait for mutexes alone.
LEMMA QuietStep ==
    ASSUME KernelInv,
           KernelTypeOK',
           Consistent(list, total, vprio, flags, Live)',
           IdleCompetes(list'),
           cur' \in Members(list', ReadyList),
           UNCHANGED <<heap, exited, caller>>,
           Linkings' \subseteq Linkings,
           \A t \in Thread \ Linkings : flags'[t] = flags[t],
           \A t \in Thread \ Linkings' : vprio'[t] = vprio[t],
           \A t \in Linkings \ Linkings' : vprio[t] \in Prio
    PROVE  /\ SchedulerInv'
           /\ UNCHANGED waiters => WaitersBlocked'
<1>1. Live' = Live /\ Live \subseteq Thread
    BY DEF Live, KernelInv, TypeOK
<1>2. RunningIsReady'
    <2>1. /\ cur' \in Range(list'[Ready(vprio'[cur'])])
          /\ vprio'[cur'] \in Prio
          /\ flags'[cur'] = {}
        BY ReadyWhere
    <2>2. cur' \in Members(list', ListId)
        BY ListIds DEF Members
    <2>3. cur' \in Live'
        BY <2>2 DEF Consistent
    <2> QED
        BY <2>1, <2>3 DEF RunningIsReady
<1>3. CallersSuspended'
    <2> SUFFICES ASSUME NEW t \in Live, caller[t] # NULL
                 PROVE  /\ caller[t] \in Live \ Linkings'
                        /\ flags'[caller[t]] = {}
                        /\ \A u \in Live : caller[u] = caller[t] => u = t
        BY <1>1 DEF CallersSuspended
    <2>1. /\ caller[t] \in Live \ Linkings
          /\ flags[caller[t]] = {}
          /\ \A u \in Live : caller[u] = caller[t] => u = t
        BY DEF KernelInv, CallersSuspended
    <2> QED
        BY <1>1, <2>1
<1>4. \A t \in Live' \ Linkings' : vprio'[t] \in Prio
    BY <1>1 DEF KernelInv
<1>5. exited' \subseteq heap'
    BY DEF KernelInv
<1>6. ASSUME waiters' = waiters
      PROVE  WaitersBlocked'
    <2>1. ASSUME NEW id \in MutexId, NEW t \in Range(waiters[id])
          PROVE  t \in Live \ Linkings' /\ flags'[t] = {"mutex"}
        <3>1. t \in Live \ Linkings /\ flags[t] = {"mutex"}
            BY DEF KernelInv, WaitersBlocked
        <3> QED
            BY <3>1, <1>1
    <2> QED
        BY <1>1, <1>6, <2>1 DEF KernelInv, WaitersBlocked
<1> QED
    BY <1>2, <1>3, <1>4, <1>5, <1>6 DEF SchedulerInv

\* The running thread has gone from the ready lists, to another list or to
\* none, and PICK_READY follows.
LEMMA SuspendStep ==
    ASSUME KernelInv,
           NEW ls, NEW fl \in [Thread -> SUBSET Flag],
           Consistent(ls, total - 1, vprio, fl, Live),
           IdleCompetes(ls),
           Members(ls, ListId) \subseteq Linkings,
           Linkings \ {cur} \subseteq Members(ls, ListId),
           \A t \in Thread \ {cur} : fl[t] = flags[t],
           Suspend(ls, fl),
           UNCHANGED <<preempt, memVars, prio, caller>>,
           event' \in [Thread -> Event \cup {NULL}]
    PROVE  /\ SchedulerInv'
           /\ UNCHANGED waiters => WaitersBlocked'
           /\ Linkings' = Members(ls, ListId)
           /\ flags' = fl
           /\ Live' = Live
<1>1. /\ vprio \in [Thread -> Nat] /\ status \in [Thread -> Status]
      /\ prio \in [Thread -> Prio] /\ KernelTypeOK
    BY DEF KernelInv, TypeOK, KernelTypeOK
<1>2. flags' = fl /\ PickReady(ls, total - 1, vprio, status, fl)
    BY DEF Suspend
<1>3. Dispatched(ls, vprio, fl, Live)
    BY <1>1, <1>2, PickReadyProperties
<1>4. Live' = Live /\ UNCHANGED <<heap, exited, caller>>
    BY DEF memVars, Live
<1>5. /\ Consistent(list', total', vprio', flags', Live')
      /\ IdleCompetes(list')
      /\ Linkings' = Members(ls, ListId)
      /\ cur' \in Members(list', ReadyList)
    BY <1>2, <1>3, <1>4 DEF Dispatched, Linkings
<1>6. KernelTypeOK'
    <2>1. cur' \in Thread
        BY <1>5, ReadyWhere
    <2>2. list' \in [ListId -> Seq(Thread)]
        BY <1>5 DEF Consistent
    <2>3. total' \in Nat
        BY <1>5, MembersProperties
    <2>4. vprio' \in [Thread -> Nat] /\ status' \in [Thread -> Status]
        BY <1>3 DEF Dispatched
    <2> QED
        BY <1>1, <1>2, <2>1, <2>2, <2>3, <2>4 DEF KernelTypeOK, memVars
<1>7. /\ cur \in Linkings /\ vprio[cur] \in Prio /\ Linkings \subseteq Thread
    BY Running
<1>8. /\ \A t \in Thread \ Linkings : flags'[t] = flags[t]
      /\ \A t \in Thread \ Linkings' : vprio'[t] = vprio[t]
      /\ \A t \in Linkings \ Linkings' : vprio[t] \in Prio
    BY <1>2, <1>3, <1>5, <1>7 DEF Dispatched
<1>9. SchedulerInv' /\ (UNCHANGED waiters => WaitersBlocked')
    BY <1>4, <1>5, <1>6, <1>8, QuietStep
<1> QED
    BY <1>2, <1>4, <1>5, <1>9

\* The running thread goes to list k, with the flags fl.
LEMMA SuspendToList ==
    ASSUME KernelInv,
           NEW k \in ListId \ ReadyList, cur # Idle \/ k = Drop,
           NEW fl \in [Thread -> SUBSET Flag],
           \A t \in Thread \ {cur} : fl[t] = flags[t],
           Linkable(k, cur, vprio, fl),
           Suspend(Linked(CurUnlinked, k, cur), fl),
           UNCHANGED <<preempt, memVars, prio, caller>>,
           event' \in [Thread -> Event \cup {NULL}]
    PROVE  SchedulerInv' /\ (UNCHANGED waiters => WaitersBlocked')
<1> DEFINE ls == Linked(CurUnlinked, k, cur)
<1>1. /\ Consistent(CurUnlinked, total - 1, vprio, flags, Live)
      /\ Members(CurUnlinked, ListId) = Linkings \ {cur}
      /\ cur # Idle => IdleCompetes(CurUnlinked)
      /\ cur \in Thread /\ cur \in Live /\ cur \in Linkings /\ Linkings \subseteq Thread
    BY Running
<1>2. Consistent(CurUnlinked, total - 1, vprio, fl, Live)
    <2>1. /\ Members(CurUnlinked, ListId) \subseteq Live
          /\ \A t \in Members(CurUnlinked, ListId) : fl[t] = flags[t]
        BY <1>1 DEF Consistent
    <2> QED
        BY <1>1, <2>1, SameConsistent
<1>3. cur \notin Members(CurUnlinked, ListId)
    BY <1>1
<1>4. /\ Consistent(ls, total - 1 + Count(k), vprio, fl, Live)
      /\ Members(ls, ListId) = Members(CurUnlinked, ListId) \cup {cur}
      /\ IdleCompetes(CurUnlinked) => IdleCompetes(ls)
      /\ cur = Idle /\ k \in ReadyList \cup {Drop} => IdleCompetes(ls)
    BY <1>1, <1>2, <1>3, LinkConsistent
<1>5. total - 1 + Count(k) = total - 1
    BY DEF Count, KernelInv, TypeOK
<1>6. IdleCompetes(ls)
    BY <1>1, <1>4
<1> HIDE DEF ls
<1>7. /\ Consistent(ls, total - 1, vprio, fl, Live)
      /\ Members(ls, ListId) \subseteq Linkings
      /\ Linkings \ {cur} \subseteq Members(ls, ListId)
      /\ Suspend(ls, fl)
    BY <1>1, <1>4, <1>5 DEF ls
<1> QED
    BY <1>6, <1>7, SuspendStep

-----------------------------------------------------------------------------
(***************************************************************************)
(* The calls that suspend the running thread.                              *)
(***************************************************************************)

\* A step that does not touch the mutexes keeps the invariant if it keeps the
\* rest of it.
LEMMA FactoryUnchanged ==
    ASSUME KernelInv, UNCHANGED factoryVars,
           SchedulerInv', UNCHANGED waiters => WaitersBlocked'
    PROVE  KernelInv'
<1>1. FactoryTypeOK'
    BY DEF KernelInv, TypeOK, FactoryTypeOK, factoryVars
<1>2. WaitersBlocked'
    BY DEF factoryVars
<1>3. TypeOK'
    BY <1>1 DEF SchedulerInv, KernelTypeOK, TypeOK
<1> QED
    BY <1>2, <1>3 DEF SchedulerInv, KernelInv

\* The flags the suspending calls set.
LEMMA FlagProperties ==
    ASSUME KernelInv, NEW f \in Flag
    PROVE  /\ flags \in [Thread -> SUBSET Flag]
           /\ WithFlag(f) \in [Thread -> SUBSET Flag]
           /\ \A t \in Thread \ {cur} : WithFlag(f)[t] = flags[t]
           /\ WithFlag(f)[cur] = {f}
           /\ flags[cur] = {}
<1>1. flags \in [Thread -> SUBSET Flag] /\ cur \in Thread /\ flags[cur] = {}
    BY DEF KernelInv, TypeOK, RunningIsReady
<1> QED
    BY <1>1 DEF WithFlag

\* VMAPI_YIELD and VMAPI_SLEEP keep the invariant.
LEMMA DropInv ==
    ASSUME KernelInv, Yield \/ Sleep
    PROVE  KernelInv'
<1>1. /\ Suspend(Linked(CurUnlinked, Drop, cur), flags)
      /\ UNCHANGED <<preempt, memVars, prio, caller, event, factoryVars>>
    BY DEF Yield, Sleep
<1>2. Drop \in ListId \ ReadyList /\ flags \in [Thread -> SUBSET Flag]
    BY ListIds DEF KernelInv, TypeOK
<1>3. Linkable(Drop, cur, vprio, flags)
    BY ListIds, Running DEF Linkable
<1>4. event' \in [Thread -> Event \cup {NULL}]
    BY <1>1 DEF KernelInv, TypeOK
<1>5. SchedulerInv' /\ (UNCHANGED waiters => WaitersBlocked')
    BY <1>1, <1>2, <1>3, <1>4, SuspendToList
<1> QED
    BY <1>1, <1>5, FactoryUnchanged

\* VMAPI_WAIT_NOTIFY keeps the invariant.
LEMMA WaitNotifyInv ==
    ASSUME KernelInv, WaitNotify
    PROVE  KernelInv'
<1> DEFINE fl == WithFlag("notify")
<1>1. /\ Suspend(Linked(CurUnlinked, Notify, cur), fl)
      /\ UNCHANGED <<preempt, memVars, prio, caller, event, factoryVars>>
      /\ cur # Idle
    BY DEF WaitNotify
<1>2. /\ fl \in [Thread -> SUBSET Flag]
      /\ \A t \in Thread \ {cur} : fl[t] = flags[t]
      /\ fl[cur] = {"notify"}
    BY FlagProperties DEF Flag
<1> HIDE DEF fl
<1>3. Linkable(Notify, cur, vprio, fl)
    BY <1>2, ListIds, Running DEF Linkable
<1>4. event' \in [Thread -> Event \cup {NULL}] /\ Notify \in ListId \ ReadyList
    BY <1>1, ListIds DEF KernelInv, TypeOK
<1>5. SchedulerInv' /\ (UNCHANGED waiters => WaitersBlocked')
    BY <1>1, <1>2, <1>3, <1>4, SuspendToList
<1> QED
    BY <1>1, <1>5, FactoryUnchanged

\* The calls that wait without a flag.
LEMMA PlainWaitInv ==
    ASSUME KernelInv,
           Wait \/ (\E t \in Thread : Sync(t)) \/ (\E e \in Event : WaitEvent(e))
    PROVE  KernelInv'
<1>1. PICK k \in ListId \ (ReadyList \cup {Drop, Fault, Notify}) :
            /\ Suspend(Linked(CurUnlinked, k, cur), flags)
            /\ UNCHANGED <<preempt, memVars, prio, caller, factoryVars>>
            /\ cur # Idle
            /\ event' \in [Thread -> Event \cup {NULL}]
    <2>1. event \in [Thread -> Event \cup {NULL}]
        BY DEF KernelInv, TypeOK
    <2>2. CASE Wait
        BY <2>1, <2>2, ListIds DEF Wait
    <2>3. CASE \E t \in Thread : Sync(t)
        <3>1. PICK t \in Thread : Sync(t)
            BY <2>3
        <3>2. Chain(t) \in ListId \ (ReadyList \cup {Drop, Fault, Notify})
            BY ListIds
        <3> QED
            BY <3>1, <3>2, <2>1 DEF Sync
    <2>4. CASE \E e \in Event : WaitEvent(e)
        <3>1. PICK e \in Event : WaitEvent(e)
            BY <2>4
        <3>2. WaitList \in ListId \ (ReadyList \cup {Drop, Fault, Notify})
            BY ListIds
        <3> QED
            BY <3>1, <3>2, <2>1 DEF WaitEvent
    <2> QED
        BY <2>2, <2>3, <2>4
<1>2. flags \in [Thread -> SUBSET Flag]
    BY DEF KernelInv, TypeOK
<1>3. Linkable(k, cur, vprio, flags)
    <2>1. \A p \in Prio : k # Ready(p)
        BY ListIds
    <2> QED
        BY <2>1, Running DEF Linkable
<1>4. SchedulerInv' /\ (UNCHANGED waiters => WaitersBlocked')
    BY <1>1, <1>2, <1>3, SuspendToList
<1> QED
    BY <1>1, <1>4, FactoryUnchanged

\* Lists without the running thread, for flags only its own differ from.
LEMMA UnlinkedFlags ==
    ASSUME KernelInv, NEW fl, \A t \in Thread \ {cur} : fl[t] = flags[t]
    PROVE  Consistent(CurUnlinked, total - 1, vprio, fl, Live)
<1>1. /\ Consistent(CurUnlinked, total - 1, vprio, flags, Live)
      /\ Members(CurUnlinked, ListId) = Linkings \ {cur}
      /\ Linkings \subseteq Thread
    BY Running
<1>2. /\ Members(CurUnlinked, ListId) \subseteq Live
      /\ \A t \in Members(CurUnlinked, ListId) : fl[t] = flags[t]
    BY <1>1 DEF Consistent
<1> QED
    BY <1>1, <1>2, SameConsistent

\* VMAPI_FAULT keeps the invariant: the faulted thread is in no list.
LEMMA FaultCallInv ==
    ASSUME KernelInv, FaultCall
    PROVE  KernelInv'
<1> DEFINE fl == WithFlag("fault")
<1>1. /\ Suspend(CurUnlinked, fl)
      /\ UNCHANGED <<preempt, memVars, prio, caller, event, factoryVars>>
      /\ cur # Idle
    BY DEF FaultCall
<1>2. /\ fl \in [Thread -> SUBSET Flag]
      /\ \A t \in Thread \ {cur} : fl[t] = flags[t]
    BY FlagProperties DEF Flag
<1> HIDE DEF fl
<1>3. Consistent(CurUnlinked, total - 1, vprio, fl, Live)
    BY <1>2, UnlinkedFlags
<1>4. /\ IdleCompetes(CurUnlinked)
      /\ Members(CurUnlinked, ListId) = Linkings \ {cur}
    BY <1>1, Running
<1>5. /\ Members(CurUnlinked, ListId) \subseteq Linkings
      /\ Linkings \ {cur} \subseteq Members(CurUnlinked, ListId)
      /\ event' \in [Thread -> Event \cup {NULL}]
    BY <1>1, <1>4 DEF KernelInv, TypeOK
<1>6. SchedulerInv' /\ (UNCHANGED waiters => WaitersBlocked')
    BY <1>1, <1>2, <1>3, <1>4, <1>5, SuspendStep
<1> QED
    BY <1>1, <1>6, FactoryUnchanged

\* A lock refused for want of a slot keeps the invariant.
LEMMA LockFaultInv ==
    ASSUME KernelInv, NEW id \in MutexId, LockFault(id)
    PROVE  KernelInv'
<1> DEFINE fl == WithFlag("fault")
<1>1. /\ Suspend(Linked(CurUnlinked, Fault, cur), fl)
      /\ UNCHANGED <<preempt, memVars, prio, caller, event>>
      /\ UNCHANGED factoryVars
      /\ cur # Idle
    BY DEF LockFault, SmallCore
<1>2. /\ fl \in [Thread -> SUBSET Flag]
      /\ \A t \in Thread \ {cur} : fl[t] = flags[t]
    BY FlagProperties DEF Flag
<1> HIDE DEF fl
<1>3. Linkable(Fault, cur, vprio, fl)
    BY <1>2, ListIds, Running DEF Linkable
<1>4. event' \in [Thread -> Event \cup {NULL}] /\ Fault \in ListId \ ReadyList
    BY <1>1, ListIds DEF KernelInv, TypeOK
<1>5. SchedulerInv' /\ (UNCHANGED waiters => WaitersBlocked')
    BY <1>1, <1>2, <1>3, <1>4, SuspendToList
<1> QED
    BY <1>1, <1>5, FactoryUnchanged

\* A lock that must wait keeps the invariant: the thread is on one queue more.
LEMMA LockWaitInv ==
    ASSUME KernelInv, NEW id \in MutexId, LockWait(id)
    PROVE  KernelInv'
<1> DEFINE fl == WithFlag("mutex")
<1>1. /\ Suspend(CurUnlinked, fl)
      /\ UNCHANGED <<preempt, memVars, prio, caller, event>>
      /\ cur # Idle
      /\ freeOwners > 0
      /\ waiters' = [waiters EXCEPT ![id] = Append(@, cur)]
      /\ freeOwners' = freeOwners - 1
      /\ UNCHANGED <<owner, freeMutex>>
    BY DEF LockWait, GrantWait
<1>2. /\ fl \in [Thread -> SUBSET Flag]
      /\ \A t \in Thread \ {cur} : fl[t] = flags[t]
      /\ fl[cur] = {"mutex"}
    BY FlagProperties DEF Flag
<1> HIDE DEF fl
<1>3. Consistent(CurUnlinked, total - 1, vprio, fl, Live)
    BY <1>2, UnlinkedFlags
<1>4. /\ IdleCompetes(CurUnlinked)
      /\ Members(CurUnlinked, ListId) = Linkings \ {cur}
      /\ cur \in Live /\ cur \in Thread /\ flags[cur] = {}
    BY <1>1, Running
<1>5. /\ Members(CurUnlinked, ListId) \subseteq Linkings
      /\ Linkings \ {cur} \subseteq Members(CurUnlinked, ListId)
      /\ event' \in [Thread -> Event \cup {NULL}]
    BY <1>1, <1>4 DEF KernelInv, TypeOK
<1>6. SchedulerInv' /\ Linkings' = Linkings \ {cur} /\ flags' = fl /\ Live' = Live
    BY <1>1, <1>2, <1>3, <1>4, <1>5, SuspendStep
<1>7. /\ waiters \in [MutexId -> Seq(Thread)]
      /\ freeOwners \in Nat /\ freeMutex \in Nat
      /\ owner \in [MutexId -> Thread \cup {NULL}]
    BY DEF KernelInv, TypeOK, FactoryTypeOK
<1>8. /\ \A i \in MutexId : cur \notin Range(waiters[i])
      /\ \A i \in MutexId : IsInjective(waiters[i])
      /\ \A i \in MutexId : \A t \in Range(waiters[i]) : t \in Live \ Linkings /\ flags[t] = {"mutex"}
      /\ \A i, j \in MutexId : i # j => Range(waiters[i]) \cap Range(waiters[j]) = {}
    BY <1>4 DEF KernelInv, WaitersBlocked
<1>9. /\ waiters'[id] \in Seq(Thread)
      /\ Range(waiters'[id]) = Range(waiters[id]) \cup {cur}
      /\ IsInjective(waiters'[id])
    <2>1. waiters'[id] = Append(waiters[id], cur) /\ waiters[id] \in Seq(Thread)
        BY <1>1, <1>7
    <2> QED
        BY <2>1, <1>4, <1>8, InjectiveAppend
<1>10. \A i \in MutexId \ {id} : waiters'[i] = waiters[i]
    BY <1>1, <1>7
<1>11. FactoryTypeOK'
    <2>1. waiters' \in [MutexId -> Seq(Thread)]
        BY <1>1, <1>7, <1>9
    <2> QED
        BY <2>1, <1>1, <1>7 DEF FactoryTypeOK
<1>12. WaitersBlocked'
    <2>1. ASSUME NEW i \in MutexId, NEW t \in Range(waiters'[i])
          PROVE  t \in Live \ (Linkings \ {cur}) /\ fl[t] = {"mutex"}
        <3>1. t = cur \/ t \in Range(waiters[i])
            BY <2>1, <1>9, <1>10
        <3>2. CASE t = cur
            BY <3>2, <1>2, <1>4
        <3>3. CASE t \in Range(waiters[i])
            <4>1. t \in Live \ Linkings /\ flags[t] = {"mutex"} /\ t # cur /\ t \in Thread
                BY <3>3, <1>4, <1>8 DEF Live, KernelInv, TypeOK
            <4> QED
                BY <4>1, <1>2
        <3> QED
            BY <3>1, <3>2, <3>3
    <2>2. \A i \in MutexId : IsInjective(waiters'[i])
        BY <1>8, <1>9, <1>10
    <2>3. ASSUME NEW i \in MutexId, NEW j \in MutexId, i # j
          PROVE  Range(waiters'[i]) \cap Range(waiters'[j]) = {}
        <3>1. Range(waiters[i]) \cap Range(waiters[j]) = {}
            BY <2>3, <1>8
        <3> QED
            BY <3>1, <2>3, <1>8, <1>9, <1>10
    <2> QED
        BY <2>1, <2>2, <2>3, <1>6 DEF WaitersBlocked
<1> QED
    BY <1>6, <1>11, <1>12 DEF SchedulerInv, KernelTypeOK, KernelInv, TypeOK

-----------------------------------------------------------------------------
(***************************************************************************)
(* The calls after which the running thread goes on.                       *)
(***************************************************************************)

\* A step of the lock factory alone.
LEMMA LockInv ==
    ASSUME KernelInv, NEW id \in MutexId, Lock(id) \/ UnlockRemove(id)
    PROVE  KernelInv'
<1>1. UNCHANGED kernelVars
    BY DEF Lock, UnlockRemove
<1>2. SchedulerInv'
    BY <1>1 DEF KernelInv, TypeOK, SchedulerInv, KernelTypeOK, kernelVars, memVars, tcbVars,
                RunningIsReady, CallersSuspended, Live, Linkings
<1>3. FactoryTypeOK' /\ \A i \in MutexId : waiters'[i] = waiters[i] \/ waiters'[i] = <<>>
    <2>1. /\ cur \in Thread
          /\ owner \in [MutexId -> Thread \cup {NULL}]
          /\ waiters \in [MutexId -> Seq(Thread)]
          /\ freeMutex \in Nat /\ freeOwners \in Nat
        BY DEF KernelInv, TypeOK, FactoryTypeOK
    <2>2. CASE Lock(id)
        BY <2>1, <2>2 DEF Lock, GrantLock, FactoryTypeOK
    <2>3. CASE UnlockRemove(id)
        <3>1. <<>> \in Seq(Thread)
            OBVIOUS
        <3> QED
            BY <2>1, <2>3, <3>1 DEF UnlockRemove, RemoveMutex, FactoryTypeOK
    <2> QED
        BY <2>2, <2>3
<1>4. WaitersBlocked'
    <2>1. Range(<<>>) = {} /\ IsInjective(<<>>)
        BY DEF Range, IsInjective
    <2>2. \A i \in MutexId : /\ Range(waiters'[i]) \subseteq Range(waiters[i])
                             /\ IsInjective(waiters[i]) => IsInjective(waiters'[i])
        BY <1>3, <2>1
    <2>3. Live' = Live /\ Linkings' = Linkings /\ flags' = flags
        BY <1>1 DEF kernelVars, memVars, tcbVars, Live, Linkings
    <2>4. ASSUME NEW i \in MutexId, NEW j \in MutexId, i # j
          PROVE  Range(waiters'[i]) \cap Range(waiters'[j]) = {}
        <3>1. Range(waiters[i]) \cap Range(waiters[j]) = {}
            BY <2>4 DEF KernelInv, WaitersBlocked
        <3> QED
            BY <3>1, <2>2
    <2> QED
        BY <2>2, <2>3, <2>4 DEF KernelInv, WaitersBlocked
<1> QED
    BY <1>2, <1>3, <1>4 DEF SchedulerInv, KernelTypeOK, KernelInv, TypeOK

\* Preemption switched on or off keeps the invariant.
LEMMA CriticalInv ==
    ASSUME KernelInv, Critical
    PROVE  KernelInv'
<1>1. /\ preempt' \in BOOLEAN
      /\ UNCHANGED <<cur, list, total, memVars, tcbVars, factoryVars>>
    BY DEF Critical
<1>2. SchedulerInv'
    BY <1>1 DEF KernelInv, TypeOK, SchedulerInv, KernelTypeOK, memVars, tcbVars,
                RunningIsReady, CallersSuspended, Live, Linkings
<1>3. UNCHANGED waiters => WaitersBlocked'
    BY <1>1 DEF KernelInv, WaitersBlocked, memVars, tcbVars, Live, Linkings
<1> QED
    BY <1>1, <1>2, <1>3, FactoryUnchanged

\* VMAPI_FIRE_EVENT keeps the invariant: each thread it wakes is counted.
LEMMA FireEventInv ==
    ASSUME KernelInv, NEW e \in Event, FireEvent(e)
    PROVE  KernelInv'
<1> DEFINE M == WaitingFor(e)
<1>1. /\ list' = MoveToReady(list, WaitList, M, vprio)
      /\ total' = total + Cardinality(M)
      /\ UNCHANGED <<cur, preempt, memVars, tcbVars, factoryVars>>
    BY DEF FireEvent
<1>2. /\ WaitList \in ListId \ (ReadyList \cup {Fault, Notify})
      /\ WaitList # Drop
      /\ M \in SUBSET Range(list[WaitList])
    BY ListIds DEF WaitingFor
<1> HIDE DEF M
<1>3. Consistent(list, total, vprio, flags, Live) /\ IdleCompetes(list)
    BY DEF KernelInv
<1>4. \A t \in M : vprio[t] \in Prio
    BY <1>2, <1>3 DEF Consistent
<1>5. /\ Consistent(list', total', vprio, flags, Live)
      /\ Members(list', ListId) = Members(list, ListId)
      /\ Members(list', ReadyList) = Members(list, ReadyList) \cup M
      /\ IdleCompetes(list')
    <2> DEFINE m == MoveToReady(list, WaitList, M, vprio)
    <2>1. /\ Consistent(m, total + Cardinality(M), vprio, flags, Live)
          /\ Members(m, ListId) = Members(list, ListId)
          /\ Members(m, ReadyList) = Members(list, ReadyList) \cup M
          /\ IdleCompetes(list) => IdleCompetes(m)
        BY <1>2, <1>3, <1>4, MoveConsistent
    <2> QED
        BY <2>1, <1>1, <1>3
<1>6. /\ Live' = Live /\ vprio' = vprio /\ flags' = flags
      /\ UNCHANGED <<heap, exited, caller>>
    BY <1>1 DEF memVars, tcbVars, Live
<1>7. KernelTypeOK'
    <2>1. total' \in Nat /\ list' \in [ListId -> Seq(Thread)]
        <3>1. total' \in Nat
            BY <1>5, MembersProperties
        <3> QED
            BY <3>1, <1>5 DEF Consistent
    <2> QED
        BY <1>1, <2>1 DEF KernelInv, TypeOK, KernelTypeOK, memVars, tcbVars
<1>8. cur' \in Members(list', ReadyList)
    BY <1>1, <1>5, Running DEF ReadyThreads
<1>9. Linkings' = Linkings
    BY <1>5 DEF Linkings
<1>10. SchedulerInv' /\ (UNCHANGED waiters => WaitersBlocked')
    BY <1>5, <1>6, <1>7, <1>8, <1>9, QuietStep
<1> QED
    BY <1>1, <1>10, FactoryUnchanged

\* VMAPI_NOTIFY keeps the invariant.
LEMMA NotifyInv ==
    ASSUME KernelInv, NEW t \in Thread, NotifyThread(t)
    PROVE  KernelInv'
<1> DEFINE ls == Unlinked(list, Notify, t)
           fl == Unblocked(t, "notify")
           k == Ready(vprio[t])
<1>1. /\ t \in Range(list[Notify])
      /\ flags' = fl
      /\ list' = Linked(ls, k, t)
      /\ total' = total + 1
      /\ UNCHANGED <<cur, preempt, memVars, status, prio, vprio, caller, event, factoryVars>>
    BY DEF NotifyThread
<1>2. Consistent(list, total, vprio, flags, Live) /\ IdleCompetes(list) /\ total \in Nat
    BY DEF KernelInv, TypeOK
<1>3. Notify \in ListId /\ Notify \notin ReadyList /\ Notify # Drop /\ Count(Notify) = 0
    BY ListIds DEF Count
<1>4. /\ flags[t] = {"notify"} /\ vprio[t] \in Prio
      /\ t \in Live /\ t \in Linkings
    BY <1>1, <1>2, <1>3 DEF Consistent, Linkings, Members
<1>5. t # Idle
    <2>1. Range(list[Drop]) \cap Range(list[Notify]) = {}
        BY <1>2, <1>3, ListIds DEF Consistent, Exclusive
    <2>2. Members(list, ReadyList) \cap Range(list[Notify]) = {}
        BY <1>2, <1>3, MembersProperties
    <2> QED
        BY <2>1, <2>2, <1>1, <1>2 DEF IdleCompetes, Members
<1>6. /\ fl[t] = {}
      /\ fl \in [Thread -> SUBSET Flag]
      /\ \A u \in Thread \ {t} : fl[u] = flags[u]
    <2>1. flags \in [Thread -> SUBSET Flag]
        BY DEF KernelInv, TypeOK
    <2> QED
        BY <2>1, <1>4 DEF Unblocked
<1>7. /\ Consistent(ls, total - Count(Notify), vprio, flags, Live)
      /\ Members(ls, ListId) = Members(list, ListId) \ {t}
      /\ Members(ls, ReadyList) = Members(list, ReadyList) \ {t}
      /\ IdleCompetes(ls)
    BY <1>1, <1>2, <1>3, <1>5, UnlinkConsistent
<1> HIDE DEF ls, fl
<1>8. Consistent(ls, total, vprio, fl, Live)
    <2>1. total - Count(Notify) = total
        BY <1>2, <1>3
    <2>2. /\ Members(ls, ListId) \subseteq Live
          /\ \A u \in Members(ls, ListId) : fl[u] = flags[u]
        BY <1>2, <1>6, <1>7, MembersProperties DEF Linkings, Live, KernelInv, TypeOK, Consistent
    <2> QED
        BY <2>1, <2>2, <1>7, SameConsistent
<1>9. k \in ReadyList /\ k \in ListId /\ Count(k) = 1
    BY <1>4, ListIds DEF Count
<1>10. Linkable(k, t, vprio, fl)
    BY <1>4, <1>6, <1>9, ListIds DEF Linkable
<1> HIDE DEF k
<1>11. t \notin Members(ls, ListId)
    BY <1>7
<1>12. /\ Consistent(Linked(ls, k, t), total + Count(k), vprio, fl, Live)
       /\ Members(Linked(ls, k, t), ListId) = Members(ls, ListId) \cup {t}
       /\ Members(Linked(ls, k, t), ReadyList) =
             Members(ls, ReadyList) \cup (IF k \in ReadyList THEN {t} ELSE {})
       /\ IdleCompetes(ls) => IdleCompetes(Linked(ls, k, t))
    BY <1>4, <1>8, <1>9, <1>10, <1>11, LinkConsistent
<1>13. Live' = Live /\ UNCHANGED <<heap, exited, caller>> /\ vprio' = vprio /\ cur' = cur
    BY <1>1 DEF memVars, Live
<1>14. /\ Consistent(list', total', vprio', flags', Live')
       /\ Linkings' = Linkings
       /\ IdleCompetes(list')
    BY <1>1, <1>4, <1>7, <1>9, <1>12, <1>13 DEF Linkings
<1>15. cur' \in Members(list', ReadyList)
    BY <1>1, <1>7, <1>9, <1>12, <1>13, Running DEF ReadyThreads
<1>16. KernelTypeOK'
    <2>1. list' \in [ListId -> Seq(Thread)] /\ total' \in Nat
        BY <1>1, <1>2, <1>14 DEF Consistent
    <2> QED
        BY <1>1, <1>6, <2>1 DEF KernelInv, TypeOK, KernelTypeOK, memVars
<1>17. SchedulerInv' /\ (UNCHANGED waiters => WaitersBlocked')
    <2>1. \A u \in Thread \ Linkings : flags'[u] = flags[u]
        BY <1>1, <1>4, <1>6
    <2> QED
        BY <2>1, <1>13, <1>14, <1>15, <1>16, QuietStep
<1> QED
    BY <1>1, <1>17, FactoryUnchanged

-----------------------------------------------------------------------------
(***************************************************************************)
(* The tick.                                                               *)
(***************************************************************************)

\* A tick keeps the invariant, from every virtual priority of the running thread.
LEMMA TickInv ==
    ASSUME KernelInv, Tick
    PROVE  KernelInv'
<1> DEFINE vp == Aged(cur)
           low == vp[cur] < NPrio
           k == IF low THEN Ready(vp[cur]) ELSE Drop
           ls == Linked(CurUnlinked, k, cur)
           n == IF low THEN total ELSE total - 1
           st == [status EXCEPT ![cur] = "pend"]
<1>1. PICK M \in SUBSET Range(list[Cond]) :
            PickReady(MoveToReady(ls, Cond, M, vp), n + Cardinality(M), vp, st, flags)
    BY DEF Tick
<1>2. UNCHANGED <<preempt, memVars, prio, flags, caller, event, factoryVars>>
    BY DEF Tick
<1>3. /\ Consistent(CurUnlinked, total - 1, vprio, flags, Live)
      /\ Members(CurUnlinked, ListId) = Linkings \ {cur}
      /\ Members(CurUnlinked, ReadyList) = ReadyThreads \ {cur}
      /\ cur # Idle => IdleCompetes(CurUnlinked)
      /\ cur \in Thread /\ cur \in Live /\ cur \in Linkings /\ cur \in ReadyThreads
      /\ vprio[cur] \in Prio /\ flags[cur] = {}
      /\ Linkings \subseteq Thread
      /\ Range(CurUnlinked[Cond]) = Range(list[Cond])
    BY Running, ListIds
<1>4. /\ vprio \in [Thread -> Nat] /\ status \in [Thread -> Status]
      /\ prio \in [Thread -> Prio] /\ flags \in [Thread -> SUBSET Flag]
      /\ total \in Nat
    BY DEF KernelInv, TypeOK
<1>5. /\ vp \in [Thread -> Nat]
      /\ \A t \in Thread \ {cur} : vp[t] = vprio[t]
      /\ low => vp[cur] \in Prio
      /\ st \in [Thread -> Status]
    BY <1>3, <1>4, PrioProperties DEF Aged, Status
<1>6. Consistent(CurUnlinked, total - 1, vp, flags, Live)
    <2>1. /\ Members(CurUnlinked, ListId) \subseteq Live
          /\ \A t \in Members(CurUnlinked, ListId) : vp[t] = vprio[t]
        BY <1>3, <1>5 DEF Consistent
    <2> QED
        BY <1>3, <2>1, SameConsistent
<1> HIDE DEF vp, st
<1>7. /\ k \in ListId /\ k \in ReadyList \cup {Drop}
      /\ k \notin {Cond, Fault, Notify}
      /\ total - 1 + Count(k) = n
    BY <1>4, <1>5, ListIds DEF Count
<1>8. Linkable(k, cur, vp, flags)
    BY <1>3, <1>5, <1>7, ListIds DEF Linkable
<1>9. cur \notin Members(CurUnlinked, ListId)
    BY <1>3
<1> HIDE DEF k, n
<1>10. /\ Consistent(ls, n, vp, flags, Live)
       /\ Members(ls, ListId) = Linkings
       /\ Range(ls[Cond]) = Range(list[Cond])
       /\ IdleCompetes(ls)
    <2>1. /\ Consistent(ls, total - 1 + Count(k), vp, flags, Live)
          /\ Members(ls, ListId) = Members(CurUnlinked, ListId) \cup {cur}
          /\ \A j \in ListId \ {k} : ls[j] = CurUnlinked[j]
          /\ IdleCompetes(CurUnlinked) => IdleCompetes(ls)
          /\ cur = Idle /\ k \in ReadyList \cup {Drop} => IdleCompetes(ls)
        BY <1>3, <1>6, <1>7, <1>8, <1>9, LinkConsistent
    <2>2. ls[Cond] = CurUnlinked[Cond]
        BY <2>1, <1>7, ListIds
    <2> QED
        BY <1>3, <1>7, <2>1, <2>2
<1> HIDE DEF ls
<1>11. /\ Cond \in ListId \ (ReadyList \cup {Fault, Notify})
       /\ M \in SUBSET Range(ls[Cond])
       /\ \A t \in M : vp[t] \in Prio
    <2>1. Cond \in ListId \ (ReadyList \cup {Fault, Notify, Drop})
        BY ListIds
    <2> QED
        BY <2>1, <1>10 DEF Consistent
<1> DEFINE m == MoveToReady(ls, Cond, M, vp)
<1>12. /\ Consistent(m, n + Cardinality(M), vp, flags, Live)
       /\ Members(m, ListId) = Members(ls, ListId)
       /\ IdleCompetes(ls) => IdleCompetes(m)
    BY <1>10, <1>11, MoveConsistent
<1>13. PickReady(m, n + Cardinality(M), vp, st, flags)
    BY <1>1
<1> HIDE DEF m
<1>14. Dispatched(m, vp, flags, Live)
    BY <1>4, <1>5, <1>10, <1>12, <1>13, PickReadyProperties
<1>15. Live' = Live /\ UNCHANGED <<heap, exited, caller>> /\ flags' = flags
    BY <1>2 DEF memVars, Live
<1>16. /\ Consistent(list', total', vprio', flags', Live')
       /\ IdleCompetes(list')
       /\ Linkings' = Linkings
       /\ cur' \in Members(list', ReadyList)
       /\ vprio' \in [Thread -> Nat] /\ status' \in [Thread -> Status]
       /\ \A t \in Thread \ Linkings : vprio'[t] = vp[t]
    BY <1>10, <1>12, <1>14, <1>15 DEF Dispatched, Linkings
<1>17. KernelTypeOK'
    <2>1. cur' \in Thread
        BY <1>16, ReadyWhere
    <2>2. total' \in Nat
        BY <1>16, MembersProperties
    <2>3. list' \in [ListId -> Seq(Thread)]
        BY <1>16 DEF Consistent
    <2> QED
        BY <1>2, <1>16, <2>1, <2>2, <2>3 DEF KernelInv, TypeOK, KernelTypeOK, memVars
<1>18. SchedulerInv' /\ (UNCHANGED waiters => WaitersBlocked')
    <2>1. \A t \in Thread \ Linkings' : vprio'[t] = vprio[t]
        BY <1>3, <1>5, <1>16
    <2> QED
        BY <2>1, <1>15, <1>16, <1>17, QuietStep
<1> QED
    BY <1>2, <1>18, FactoryUnchanged

-----------------------------------------------------------------------------
(***************************************************************************)
(* Threads that come and go.                                               *)
(***************************************************************************)

\* A new thread t, made from the lists ls with n ready threads: its creator
\* has stayed in them, or has left them and is its caller.
LEMMA NewThreadStep ==
    ASSUME KernelInv,
           NEW t \in Thread, NEW p \in Prio, NEW c \in Thread \cup {NULL}, NEW ls, NEW n,
           t \notin heap,
           InitThread(t, p, c),
           Consistent(ls, n, vprio, flags, Live),
           IdleCompetes(ls),
           Members(ls, ListId) \subseteq Linkings,
           Linkings \ {cur} \subseteq Members(ls, ListId),
           c = NULL \/ (c = cur /\ cur \notin Members(ls, ListId)),
           list' = Linked([ls EXCEPT ![Chain(t)] = <<>>], Ready(p), t),
           total' = n + 1,
           cur' \in Members(ls, ReadyList) \cup {t}
    PROVE  KernelInv'
<1> DEFINE vp == [vprio EXCEPT ![t] = p]
           fl == [flags EXCEPT ![t] = {}]
           live == Live \cup {t}
           k == Ready(p)
           m == [ls EXCEPT ![Chain(t)] = <<>>]
<1>1. /\ heap' = heap \cup {t}
      /\ table' = table \/ table' = table \cup {t}
      /\ status' = [status EXCEPT ![t] = "stop"]
      /\ prio' = [prio EXCEPT ![t] = p]
      /\ vprio' = vp
      /\ flags' = fl
      /\ caller' = [caller EXCEPT ![t] = c]
      /\ event' = [event EXCEPT ![t] = NULL]
      /\ UNCHANGED <<preempt, exited, factoryVars>>
    BY DEF InitThread
<1>2. TypeOK /\ exited \subseteq heap /\ Live = heap \ exited
    BY DEF KernelInv, Live
<1>3. t \notin Live /\ Live' = live /\ Live \subseteq Thread
    BY <1>1, <1>2 DEF Live, TypeOK
<1>4. t \notin Linkings /\ t # cur /\ cur \in Linkings /\ cur \in Live /\ cur \in Thread
      /\ flags[cur] = {} /\ vprio[cur] \in Prio /\ Linkings \subseteq Live
    <2>1. Linkings \subseteq Live
        BY DEF KernelInv, Consistent, Linkings
    <2> QED
        BY <2>1, <1>3, Running
<1>5. /\ vp \in [Thread -> Nat] /\ vp[t] = p
      /\ \A u \in Thread \ {t} : vp[u] = vprio[u]
      /\ fl \in [Thread -> SUBSET Flag] /\ fl[t] = {}
      /\ \A u \in Thread \ {t} : fl[u] = flags[u]
    BY <1>2, PrioProperties DEF TypeOK
<1> HIDE DEF vp, fl
<1>6. Consistent(ls, n, vp, fl, live)
    <2>1. /\ Members(ls, ListId) \subseteq live
          /\ \A u \in Members(ls, ListId) : fl[u] = flags[u]
          /\ \A u \in Members(ls, ListId) : vp[u] = vprio[u]
        BY <1>3, <1>4, <1>5
    <2> QED
        BY <2>1, SameConsistent
<1>7. /\ Chain(t) \in ListId \ (ReadyList \cup {Drop})
      /\ k \in ListId /\ k \in ReadyList /\ Count(k) = 1
    BY ListIds DEF Count
<1>8. /\ Consistent(m, n, vp, fl, live)
      /\ Members(m, ListId) \subseteq Members(ls, ListId)
      /\ Members(ls, ListId) \ Range(ls[Chain(t)]) \subseteq Members(m, ListId)
      /\ Members(m, ReadyList) = Members(ls, ReadyList)
      /\ IdleCompetes(ls) => IdleCompetes(m)
    BY <1>6, <1>7, ClearConsistent
<1> HIDE DEF m
<1>9. Linkable(k, t, vp, fl)
    BY <1>5, <1>7, ListIds DEF Linkable
<1> HIDE DEF k
<1>10. t \in live /\ t \notin Members(m, ListId)
    BY <1>4, <1>8
<1>11. /\ Consistent(Linked(m, k, t), n + Count(k), vp, fl, live)
       /\ Members(Linked(m, k, t), ListId) = Members(m, ListId) \cup {t}
       /\ Members(Linked(m, k, t), ReadyList) =
             Members(m, ReadyList) \cup (IF k \in ReadyList THEN {t} ELSE {})
       /\ IdleCompetes(m) => IdleCompetes(Linked(m, k, t))
    BY <1>7, <1>8, <1>9, <1>10, LinkConsistent
<1>12. /\ list' = Linked(m, k, t) /\ total' = n + Count(k)
    BY <1>7 DEF m, k
<1>13. /\ Consistent(list', total', vprio', flags', Live')
       /\ IdleCompetes(list')
       /\ Linkings' = Members(m, ListId) \cup {t}
       /\ cur' \in Members(list', ReadyList)
    BY <1>1, <1>3, <1>7, <1>8, <1>11, <1>12 DEF Linkings
<1>14. TypeOK'
    <2>1. cur' \in Thread
        BY <1>13, ReadyWhere
    <2>2. total' \in Nat
        BY <1>13, MembersProperties
    <2>3. list' \in [ListId -> Seq(Thread)]
        BY <1>13 DEF Consistent
    <2>4. caller' \in [Thread -> Thread \cup {NULL}] /\ event' \in [Thread -> Event \cup {NULL}]
        BY <1>1, <1>2 DEF TypeOK
    <2>5. status' \in [Thread -> Status] /\ prio' \in [Thread -> Prio]
        BY <1>1, <1>2 DEF TypeOK, Status
    <2>6. FactoryTypeOK'
        BY <1>1, <1>2 DEF TypeOK, FactoryTypeOK, factoryVars
    <2> QED
        BY <1>1, <1>2, <1>5, <2>1, <2>2, <2>3, <2>4, <2>5, <2>6 DEF TypeOK
<1>15. RunningIsReady'
    <2>1. /\ cur' \in Range(list'[Ready(vprio'[cur'])])
          /\ vprio'[cur'] \in Prio
          /\ flags'[cur'] = {}
        BY <1>13, ReadyWhere
    <2>2. cur' \in Members(list', ListId)
        <3>1. ReadyList \subseteq ListId
            BY ListIds
        <3> QED
            BY <1>13, <3>1 DEF Members
    <2>3. cur' \in Live'
        BY <1>13, <2>2 DEF Consistent
    <2> QED
        BY <2>1, <2>3 DEF RunningIsReady
<1>16. CallersSuspended'
    <2> DEFINE Good(u) == /\ caller'[u] \in live \ Linkings'
                          /\ flags'[caller'[u]] = {}
                          /\ \A v \in live : caller'[v] = caller'[u] => v = u
    <2>1. /\ caller'[t] = c
          /\ \A u \in Live : caller'[u] = caller[u] /\ u # t
        BY <1>1, <1>2, <1>3 DEF TypeOK
    <2>2. \A u \in Live : caller[u] # NULL =>
             /\ caller[u] \in Live \ Linkings
             /\ flags[caller[u]] = {}
             /\ \A v \in Live : caller[v] = caller[u] => v = u
        BY DEF KernelInv, CallersSuspended
    <2>3. ASSUME NEW u \in Live, caller[u] # NULL
          PROVE  Good(u)
        <3>1. /\ caller[u] \in Live \ Linkings
              /\ flags[caller[u]] = {}
              /\ \A v \in Live : caller[v] = caller[u] => v = u
            BY <2>2, <2>3
        <3>2. caller[u] # t /\ caller[u] # cur /\ caller[u] \in Thread
            BY <3>1, <1>3, <1>4
        <3>3. flags'[caller[u]] = {} /\ caller[u] \notin Linkings'
            BY <3>1, <3>2, <1>1, <1>5, <1>8, <1>13
        <3>4. c # caller[u]
            BY <3>2, <2>3
        <3> QED
            BY <2>1, <3>1, <3>3, <3>4
    <2>4. ASSUME c # NULL
          PROVE  Good(t)
        <3>1. c = cur /\ cur \notin Linkings' /\ flags'[cur] = {}
            BY <2>4, <1>1, <1>4, <1>5, <1>8, <1>13
        <3>2. \A v \in Live : caller'[v] # cur
            BY <2>1, <2>2, <1>4, <1>2, ThreadAssumption
        <3> QED
            BY <2>1, <3>1, <3>2, <1>4
    <2> HIDE DEF Good
    <2>5. ASSUME NEW u \in live, caller'[u] # NULL
          PROVE  Good(u)
        BY <2>1, <2>3, <2>4, <2>5
    <2> QED
        BY <2>5, <1>3 DEF Good, CallersSuspended
<1>17. WaitersBlocked'
    <2>1. ASSUME NEW id \in MutexId, NEW u \in Range(waiters[id])
          PROVE  u \in live \ Linkings' /\ flags'[u] = {"mutex"}
        <3>1. u \in Live \ Linkings /\ flags[u] = {"mutex"}
            BY DEF KernelInv, WaitersBlocked
        <3>2. u # t /\ u \in Thread
            BY <3>1, <1>3
        <3> QED
            BY <3>1, <3>2, <1>1, <1>5, <1>8, <1>13
    <2>2. waiters' = waiters
        BY <1>1 DEF factoryVars
    <2> QED
        BY <2>1, <2>2, <1>3 DEF KernelInv, WaitersBlocked
<1>18. ASSUME NEW u \in Live' \ Linkings'
       PROVE  vprio'[u] \in Prio
    <2>1. u \in Live /\ u # t /\ u \in Thread /\ vprio'[u] = vprio[u]
        BY <1>1, <1>3, <1>5, <1>13
    <2>2. CASE u = cur
        BY <2>1, <2>2, <1>4
    <2>3. CASE u \in Range(ls[Chain(t)])
        BY <2>1, <2>3, <1>7 DEF Consistent
    <2>4. CASE u # cur /\ u \notin Range(ls[Chain(t)])
        <3>1. u \notin Linkings
            BY <2>4, <1>8, <1>13
        <3> QED
            BY <3>1, <2>1 DEF KernelInv
    <2> QED
        BY <2>2, <2>3, <2>4
<1>19. exited' \subseteq heap'
    BY <1>1, <1>2
<1> QED
    BY <1>13, <1>14, <1>15, <1>16, <1>17, <1>18, <1>19 DEF KernelInv

\* VMAPI_CREATE keeps the invariant.
LEMMA CreateInv ==
    ASSUME KernelInv, NEW t \in Thread, NEW p \in Prio, Create(t, p)
    PROVE  KernelInv'
<1>1. /\ t \notin heap
      /\ InitThread(t, p, NULL)
      /\ list' = Linked([list EXCEPT ![Chain(t)] = <<>>], Ready(p), t)
      /\ total' = total + 1
      /\ cur' = cur
    BY DEF Create
<1>2. /\ Consistent(list, total, vprio, flags, Live)
      /\ IdleCompetes(list)
      /\ Members(list, ListId) = Linkings
    BY DEF KernelInv, Linkings
<1>3. cur' \in Members(list, ReadyList) \cup {t}
    BY <1>1, Running DEF ReadyThreads
<1>4. Linkings \ {cur} \subseteq Members(list, ListId)
    BY <1>2
<1> QED
    BY <1>1, <1>2, <1>3, <1>4, NewThreadStep

\* VMAPI_CALL keeps the invariant: the caller is in no list and waits for one thread.
LEMMA CallInv ==
    ASSUME KernelInv, NEW t \in Thread, NEW p \in Prio, Call(t, p)
    PROVE  KernelInv'
<1>1. /\ t \notin heap
      /\ cur # Idle
      /\ InitThread(t, p, cur)
      /\ list' = Linked([CurUnlinked EXCEPT ![Chain(t)] = <<>>], Ready(p), t)
      /\ total' = total
      /\ cur' = t
    BY DEF Call
<1>2. /\ Consistent(CurUnlinked, total - 1, vprio, flags, Live)
      /\ IdleCompetes(CurUnlinked)
      /\ Members(CurUnlinked, ListId) = Linkings \ {cur}
      /\ cur \in Thread
    BY <1>1, Running
<1>3. total' = (total - 1) + 1
    BY <1>1 DEF KernelInv, TypeOK
<1>4. /\ Members(CurUnlinked, ListId) \subseteq Linkings
      /\ Linkings \ {cur} \subseteq Members(CurUnlinked, ListId)
      /\ cur \notin Members(CurUnlinked, ListId)
      /\ cur' \in Members(CurUnlinked, ReadyList) \cup {t}
    BY <1>1, <1>2
<1> QED
    BY <1>1, <1>2, <1>3, <1>4, NewThreadStep

\* The exit of a called thread keeps the invariant: its caller can be linked.
LEMMA ExitToCallerInv ==
    ASSUME KernelInv, ExitToCaller
    PROVE  KernelInv'
<1> DEFINE c == caller[cur]
           k == Ready(vprio[c])
           live == Live \ {cur}
<1>1. /\ cur # Idle /\ c # NULL
      /\ list' = Linked(CurUnlinked, k, c)
      /\ cur' = c
      /\ exited' = exited \cup {cur}
      /\ UNCHANGED <<total, preempt, heap, table, tcbVars, factoryVars>>
    BY DEF ExitToCaller
<1>2. /\ Consistent(CurUnlinked, total - 1, vprio, flags, Live)
      /\ IdleCompetes(CurUnlinked)
      /\ Members(CurUnlinked, ListId) = Linkings \ {cur}
      /\ cur \in Thread /\ cur \in Live /\ cur \in Linkings
      /\ flags[cur] = {}
      /\ Linkings \subseteq Thread
    BY <1>1, Running
<1>3. /\ TypeOK
      /\ exited \subseteq heap
      /\ total \in Nat
      /\ Live' = live
      /\ Live \subseteq Thread
    BY <1>1 DEF KernelInv, TypeOK, Live
<1>4. \A u \in Live : caller[u] # NULL =>
         /\ caller[u] \in Live \ Linkings
         /\ flags[caller[u]] = {}
         /\ \A v \in Live : caller[v] = caller[u] => v = u
    BY DEF KernelInv, CallersSuspended
<1>5. /\ c \in Live \ Linkings /\ c \in Thread /\ c # cur
      /\ flags[c] = {}
      /\ \A v \in Live : caller[v] = c => v = cur
      /\ vprio[c] \in Prio
    BY <1>1, <1>2, <1>3, <1>4 DEF KernelInv
<1> HIDE DEF c
<1>6. k \in ListId /\ k \in ReadyList /\ Count(k) = 1
    BY <1>5, ListIds DEF Count
<1>7. Linkable(k, c, vprio, flags)
    BY <1>5, <1>6, ListIds DEF Linkable
<1> HIDE DEF k
<1>8. Consistent(CurUnlinked, total - 1, vprio, flags, live)
    <2>1. Members(CurUnlinked, ListId) \subseteq live
        BY <1>2 DEF Consistent
    <2> QED
        BY <1>2, <2>1, SameConsistent
<1>9. c \in live /\ c \notin Members(CurUnlinked, ListId)
    BY <1>2, <1>5
<1>10. /\ Consistent(Linked(CurUnlinked, k, c), total - 1 + Count(k), vprio, flags, live)
       /\ Members(Linked(CurUnlinked, k, c), ListId) = Members(CurUnlinked, ListId) \cup {c}
       /\ Members(Linked(CurUnlinked, k, c), ReadyList) =
             Members(CurUnlinked, ReadyList) \cup (IF k \in ReadyList THEN {c} ELSE {})
       /\ IdleCompetes(CurUnlinked) => IdleCompetes(Linked(CurUnlinked, k, c))
    BY <1>5, <1>6, <1>7, <1>8, <1>9, LinkConsistent
<1>11. total - 1 + Count(k) = total' /\ vprio' = vprio /\ flags' = flags /\ caller' = caller
    BY <1>1, <1>3, <1>6 DEF tcbVars
<1>12. /\ Consistent(list', total', vprio', flags', Live')
       /\ IdleCompetes(list')
       /\ Linkings' = (Linkings \ {cur}) \cup {c}
       /\ cur' \in Members(list', ReadyList)
    BY <1>1, <1>2, <1>3, <1>6, <1>10, <1>11 DEF Linkings
<1>13. TypeOK'
    <2>1. list' \in [ListId -> Seq(Thread)]
        BY <1>12 DEF Consistent
    <2> QED
        BY <1>1, <1>2, <1>3, <1>5, <2>1 DEF TypeOK, FactoryTypeOK, tcbVars, factoryVars
<1>14. RunningIsReady'
    <2>1. /\ cur' \in Range(list'[Ready(vprio'[cur'])])
          /\ vprio'[cur'] \in Prio
          /\ flags'[cur'] = {}
        BY <1>12, ReadyWhere
    <2> QED
        BY <2>1, <1>1, <1>3, <1>9 DEF RunningIsReady
<1>15. CallersSuspended'
    <2> SUFFICES ASSUME NEW u \in live, caller[u] # NULL
                 PROVE  /\ caller[u] \in live \ Linkings'
                        /\ flags[caller[u]] = {}
                        /\ \A v \in live : caller[v] = caller[u] => v = u
        BY <1>3, <1>11 DEF CallersSuspended
    <2>1. caller[u] # c
        BY <1>5
    <2> QED
        BY <2>1, <1>2, <1>4, <1>12
<1>16. WaitersBlocked'
    <2>1. ASSUME NEW id \in MutexId, NEW u \in Range(waiters[id])
          PROVE  u \in live \ Linkings' /\ flags[u] = {"mutex"}
        <3>1. u \in Live \ Linkings /\ flags[u] = {"mutex"}
            BY DEF KernelInv, WaitersBlocked
        <3>2. u # cur /\ u # c
            BY <3>1, <1>2, <1>5
        <3> QED
            BY <3>1, <3>2, <1>12
    <2>2. waiters' = waiters
        BY <1>1 DEF factoryVars
    <2> QED
        BY <2>1, <2>2, <1>3, <1>11 DEF KernelInv, WaitersBlocked
<1>17. \A u \in Live' \ Linkings' : vprio'[u] \in Prio
    BY <1>3, <1>11, <1>12 DEF KernelInv
<1>18. exited' \subseteq heap'
    BY <1>1, <1>2, <1>3 DEF Live
<1> QED
    BY <1>12, <1>13, <1>14, <1>15, <1>16, <1>17, <1>18 DEF KernelInv

\* The exit of a created thread keeps the invariant: no list leads to the freed block.
LEMMA ExitDestroyedInv ==
    ASSUME KernelInv, ExitDestroyed
    PROVE  KernelInv'
<1> DEFINE vp == [vprio EXCEPT ![cur] = 0]
           st == [status EXCEPT ![cur] = "stop"]
           live == Live \ {cur}
           m == [CurUnlinked EXCEPT ![Chain(cur)] = <<>>]
<1>1. /\ cur # Idle
      /\ caller[cur] = NULL
      /\ heap' = heap \ {cur}
      /\ table' = table \ {cur}
      /\ event' = [event EXCEPT ![cur] = NULL]
      /\ prio' = [prio EXCEPT ![cur] = 0]
      /\ flags' = flags
      /\ PickReady(m, total - 1, vp, st, flags)
      /\ UNCHANGED <<preempt, exited, caller, factoryVars>>
    BY DEF ExitDestroyed
<1>2. /\ Consistent(CurUnlinked, total - 1, vprio, flags, Live)
      /\ IdleCompetes(CurUnlinked)
      /\ Members(CurUnlinked, ListId) = Linkings \ {cur}
      /\ cur \in Thread /\ cur \in Live /\ cur \in Linkings
      /\ flags[cur] = {}
      /\ Linkings \subseteq Thread
    BY <1>1, Running
<1>3. /\ TypeOK
      /\ exited \subseteq heap
      /\ Live' = live
      /\ Live \subseteq Thread
    BY <1>1 DEF KernelInv, TypeOK, Live
<1>4. /\ vp \in [Thread -> Nat]
      /\ \A u \in Thread \ {cur} : vp[u] = vprio[u]
      /\ st \in [Thread -> Status]
      /\ prio \in [Thread -> Prio]
    BY <1>2, <1>3 DEF TypeOK, Status
<1> HIDE DEF vp, st
<1>5. Consistent(CurUnlinked, total - 1, vp, flags, live)
    <2>1. /\ Members(CurUnlinked, ListId) \subseteq live
          /\ \A u \in Members(CurUnlinked, ListId) : vp[u] = vprio[u]
        BY <1>2, <1>4 DEF Consistent
    <2> QED
        BY <1>2, <2>1, SameConsistent
<1>6. Chain(cur) \in ListId \ (ReadyList \cup {Drop})
    BY <1>2, ListIds
<1>7. /\ Consistent(m, total - 1, vp, flags, live)
      /\ Members(m, ListId) \subseteq Members(CurUnlinked, ListId)
      /\ Members(CurUnlinked, ListId) \ Range(CurUnlinked[Chain(cur)]) \subseteq Members(m, ListId)
      /\ IdleCompetes(CurUnlinked) => IdleCompetes(m)
    BY <1>5, <1>6, ClearConsistent
<1>8. PickReady(m, total - 1, vp, st, flags)
    BY <1>1
<1> HIDE DEF m
<1>9. Dispatched(m, vp, flags, live)
    BY <1>2, <1>4, <1>7, <1>8, PickReadyProperties
<1>10. /\ Consistent(list', total', vprio', flags', Live')
       /\ IdleCompetes(list')
       /\ Linkings' = Members(m, ListId)
       /\ cur' \in Members(list', ReadyList)
       /\ vprio' \in [Thread -> Nat] /\ status' \in [Thread -> Status]
       /\ \A u \in Thread \ Linkings' : vprio'[u] = vp[u]
    BY <1>1, <1>3, <1>9 DEF Dispatched, Linkings
<1>11. Linkings' \subseteq Linkings \ {cur}
    BY <1>2, <1>7, <1>10
<1>12. TypeOK'
    <2>1. cur' \in Thread
        BY <1>10, ReadyWhere
    <2>2. total' \in Nat
        BY <1>10, MembersProperties
    <2>3. list' \in [ListId -> Seq(Thread)]
        BY <1>10 DEF Consistent
    <2>4. prio' \in [Thread -> Prio] /\ event' \in [Thread -> Event \cup {NULL}]
        BY <1>1, <1>3, PrioProperties DEF TypeOK
    <2> QED
        BY <1>1, <1>3, <1>10, <2>1, <2>2, <2>3, <2>4 DEF TypeOK, FactoryTypeOK, factoryVars
<1>13. RunningIsReady'
    <2>1. /\ cur' \in Range(list'[Ready(vprio'[cur'])])
          /\ vprio'[cur'] \in Prio
          /\ flags'[cur'] = {}
        BY <1>10, ReadyWhere
    <2>2. cur' \in Members(list', ListId)
        BY <1>10, ListIds DEF Members
    <2>3. cur' \in Live'
        BY <1>10, <2>2 DEF Consistent
    <2> QED
        BY <2>1, <2>3 DEF RunningIsReady
<1>14. CallersSuspended'
    <2> SUFFICES ASSUME NEW u \in live, caller[u] # NULL
                 PROVE  /\ caller[u] \in live \ Linkings'
                        /\ flags[caller[u]] = {}
                        /\ \A v \in live : caller[v] = caller[u] => v = u
        BY <1>1, <1>3 DEF CallersSuspended
    <2>1. /\ caller[u] \in Live \ Linkings
          /\ flags[caller[u]] = {}
          /\ \A v \in Live : caller[v] = caller[u] => v = u
        BY DEF KernelInv, CallersSuspended
    <2> QED
        BY <2>1, <1>2, <1>11
<1>15. WaitersBlocked'
    <2>1. ASSUME NEW id \in MutexId, NEW u \in Range(waiters[id])
          PROVE  u \in live \ Linkings' /\ flags[u] = {"mutex"}
        <3>1. u \in Live \ Linkings /\ flags[u] = {"mutex"}
            BY DEF KernelInv, WaitersBlocked
        <3> QED
            BY <3>1, <1>2, <1>11
    <2>2. waiters' = waiters
        BY <1>1 DEF factoryVars
    <2> QED
        BY <2>1, <2>2, <1>1, <1>3 DEF KernelInv, WaitersBlocked
<1>16. ASSUME NEW u \in Live' \ Linkings'
       PROVE  vprio'[u] \in Prio
    <2>1. u \in Live /\ u # cur /\ u \in Thread /\ vprio'[u] = vprio[u]
        BY <1>3, <1>4, <1>10
    <2>2. CASE u \in Range(CurUnlinked[Chain(cur)])
        BY <2>1, <2>2, <1>2, <1>6 DEF Consistent
    <2>3. CASE u \notin Range(CurUnlinked[Chain(cur)])
        <3>1. u \notin Linkings
            BY <2>1, <2>3, <1>2, <1>7, <1>10
        <3> QED
            BY <3>1, <2>1 DEF KernelInv
    <2> QED
        BY <2>2, <2>3
<1>17. exited' \subseteq heap'
    BY <1>1, <1>2, <1>3 DEF Live
<1> QED
    BY <1>10, <1>12, <1>13, <1>14, <1>15, <1>16, <1>17 DEF KernelInv

-----------------------------------------------------------------------------
(***************************************************************************)
(* A lock passed on.                                                       *)
(***************************************************************************)

\* An unlock that passes the lock on keeps the invariant: its waiter can be linked.
LEMMA UnlockPassInv ==
    ASSUME KernelInv, NEW id \in MutexId, UnlockPass(id)
    PROVE  KernelInv'
<1> DEFINE w == Head(waiters[id])
           k == Ready(vprio[w])
           fl == Unblocked(w, "mutex")
<1>1. /\ waiters[id] # <<>>
      /\ owner' = [owner EXCEPT ![id] = w]
      /\ waiters' = [waiters EXCEPT ![id] = Tail(@)]
      /\ freeOwners' = freeOwners + 1
      /\ UNCHANGED freeMutex
      /\ list' = Linked(list, k, w)
      /\ total' = total + 1
      /\ flags' = fl
      /\ cur' = w
      /\ UNCHANGED <<preempt, memVars, status, prio, vprio, caller, event>>
    BY DEF UnlockPass, PassOn
<1>2. /\ TypeOK
      /\ Consistent(list, total, vprio, flags, Live)
      /\ IdleCompetes(list)
      /\ total \in Nat
    BY DEF KernelInv, TypeOK
<1>3. /\ \A j \in MutexId : \A u \in Range(waiters[j]) : u \in Live \ Linkings /\ flags[u] = {"mutex"}
      /\ \A j \in MutexId : IsInjective(waiters[j])
      /\ \A i, j \in MutexId : i # j => Range(waiters[i]) \cap Range(waiters[j]) = {}
    BY DEF KernelInv, WaitersBlocked
<1>4. /\ w \in Range(waiters[id]) /\ w \in Thread
      /\ Tail(waiters[id]) \in Seq(Thread)
      /\ Range(Tail(waiters[id])) \subseteq Range(waiters[id])
      /\ IsInjective(Tail(waiters[id]))
      /\ w \notin Range(Tail(waiters[id]))
    <2>1. waiters[id] \in Seq(Thread)
        BY <1>2 DEF TypeOK, FactoryTypeOK
    <2> QED
        BY <2>1, <1>1, <1>3, InjectiveTail
<1> HIDE DEF w
<1>5. w \in Live \ Linkings /\ flags[w] = {"mutex"} /\ vprio[w] \in Prio
    BY <1>3, <1>4 DEF KernelInv
<1>6. /\ fl \in [Thread -> SUBSET Flag]
      /\ fl[w] = {}
      /\ \A u \in Thread \ {w} : fl[u] = flags[u]
    BY <1>2, <1>4, <1>5 DEF Unblocked, TypeOK
<1> HIDE DEF fl
<1>7. Live' = Live /\ vprio' = vprio /\ caller' = caller /\ heap' = heap /\ exited' = exited
    BY <1>1 DEF memVars, Live
<1>8. Consistent(list, total, vprio, fl, Live)
    <2>1. /\ Members(list, ListId) \subseteq Live
          /\ \A u \in Members(list, ListId) : fl[u] = flags[u]
        BY <1>2, <1>5, <1>6, MembersProperties DEF Linkings, Live, TypeOK, Consistent
    <2> QED
        BY <1>2, <2>1, SameConsistent
<1>9. k \in ListId /\ k \in ReadyList /\ Count(k) = 1
    BY <1>5, ListIds DEF Count
<1>10. Linkable(k, w, vprio, fl)
    BY <1>5, <1>6, <1>9, ListIds DEF Linkable
<1> HIDE DEF k
<1>11. w \in Live /\ w \notin Members(list, ListId)
    BY <1>5 DEF Linkings
<1>12. /\ Consistent(Linked(list, k, w), total + Count(k), vprio, fl, Live)
       /\ Members(Linked(list, k, w), ListId) = Members(list, ListId) \cup {w}
       /\ Members(Linked(list, k, w), ReadyList) =
             Members(list, ReadyList) \cup (IF k \in ReadyList THEN {w} ELSE {})
       /\ IdleCompetes(list) => IdleCompetes(Linked(list, k, w))
    BY <1>4, <1>8, <1>9, <1>10, <1>11, LinkConsistent
<1>13. /\ Consistent(list', total', vprio', flags', Live')
       /\ IdleCompetes(list')
       /\ Linkings' = Linkings \cup {w}
       /\ cur' \in Members(list', ReadyList)
    BY <1>1, <1>2, <1>7, <1>9, <1>12 DEF Linkings
<1>14. waiters'[id] = Tail(waiters[id]) /\ \A j \in MutexId \ {id} : waiters'[j] = waiters[j]
    BY <1>1, <1>2 DEF TypeOK, FactoryTypeOK
<1>15. TypeOK'
    <2>1. list' \in [ListId -> Seq(Thread)] /\ total' \in Nat
        BY <1>1, <1>2, <1>13 DEF Consistent
    <2>2. FactoryTypeOK'
        BY <1>1, <1>2, <1>4 DEF TypeOK, FactoryTypeOK
    <2> QED
        BY <1>1, <1>2, <1>4, <1>6, <2>1, <2>2 DEF TypeOK, memVars
<1>16. RunningIsReady'
    <2>1. /\ cur' \in Range(list'[Ready(vprio'[cur'])])
          /\ vprio'[cur'] \in Prio
          /\ flags'[cur'] = {}
        BY <1>13, ReadyWhere
    <2> QED
        BY <2>1, <1>1, <1>7, <1>11 DEF RunningIsReady
<1>17. CallersSuspended'
    <2> SUFFICES ASSUME NEW u \in Live, caller[u] # NULL
                 PROVE  /\ caller[u] \in Live \ Linkings'
                        /\ fl[caller[u]] = {}
                        /\ \A v \in Live : caller[v] = caller[u] => v = u
        BY <1>1, <1>7 DEF CallersSuspended
    <2>1. /\ caller[u] \in Live \ Linkings
          /\ flags[caller[u]] = {}
          /\ \A v \in Live : caller[v] = caller[u] => v = u
        BY DEF KernelInv, CallersSuspended
    <2>2. caller[u] # w /\ caller[u] \in Thread
        BY <2>1, <1>2, <1>5 DEF Live, TypeOK
    <2> QED
        BY <2>1, <2>2, <1>6, <1>13
<1>18. WaitersBlocked'
    <2>1. /\ \A j \in MutexId : /\ Range(waiters'[j]) \subseteq Range(waiters[j])
                                /\ IsInjective(waiters'[j])
                                /\ w \notin Range(waiters'[j])
        <3> SUFFICES ASSUME NEW j \in MutexId
                     PROVE  /\ Range(waiters'[j]) \subseteq Range(waiters[j])
                            /\ IsInjective(waiters'[j])
                            /\ w \notin Range(waiters'[j])
            OBVIOUS
        <3>1. CASE j = id
            BY <3>1, <1>4, <1>14
        <3>2. CASE j # id
            <4>1. Range(waiters[j]) \cap Range(waiters[id]) = {}
                BY <3>2, <1>3
            <4> QED
                BY <4>1, <3>2, <1>3, <1>4, <1>14
        <3> QED
            BY <3>1, <3>2
    <2>2. ASSUME NEW j \in MutexId, NEW u \in Range(waiters'[j])
          PROVE  u \in Live \ Linkings' /\ fl[u] = {"mutex"}
        <3>1. u \in Live \ Linkings /\ flags[u] = {"mutex"} /\ u # w
            BY <2>1, <1>3
        <3>2. u \in Thread
            BY <3>1, <1>2 DEF Live, TypeOK
        <3> QED
            BY <3>1, <3>2, <1>6, <1>13
    <2>3. ASSUME NEW i \in MutexId, NEW j \in MutexId, i # j
          PROVE  Range(waiters'[i]) \cap Range(waiters'[j]) = {}
        <3>1. Range(waiters[i]) \cap Range(waiters[j]) = {}
            BY <2>3, <1>3
        <3> QED
            BY <3>1, <2>1
    <2> QED
        BY <2>1, <2>2, <2>3, <1>1, <1>7 DEF WaitersBlocked
<1>19. ASSUME NEW u \in Live' \ Linkings'
       PROVE  vprio'[u] \in Prio
    BY <1>7, <1>13 DEF KernelInv
<1>20. exited' \subseteq heap'
    BY <1>7 DEF KernelInv
<1> QED
    BY <1>13, <1>15, <1>16, <1>17, <1>18, <1>19, <1>20 DEF KernelInv

-----------------------------------------------------------------------------
(***************************************************************************)
(* The invariant.                                                          *)
(***************************************************************************)

\* VMINIT and VMRUN establish the invariant.
LEMMA InitInv == Init => KernelInv
<1> SUFFICES ASSUME Init
             PROVE  KernelInv
    OBVIOUS
<1> DEFINE first == Ready(NPrio - 1)
           alone == <<Idle>>
<1>1. NPrio - 1 \in Prio /\ 0 \in Prio /\ Idle \in Thread /\ first \in ReadyList /\ first \in ListId
    BY PrioProperties, KernelAssumption, ListIds
<1>2. /\ alone \in Seq(Thread) /\ Range(alone) = {Idle} /\ IsInjective(alone)
      /\ Range(<<>>) = {} /\ IsInjective(<<>>) /\ <<>> \in Seq(Thread)
    BY <1>1 DEF Range, IsInjective
<1> HIDE DEF alone
<1>3. /\ list \in [ListId -> Seq(Thread)]
      /\ list[first] = alone
      /\ \A k \in ListId \ {first} : list[k] = <<>>
    BY <1>1, <1>2 DEF Init, InitList, alone
<1>4. \A p \in Prio : Ready(p) = first => p = NPrio - 1
    BY <1>1, ListIds
<1> HIDE DEF first
<1>5. /\ \A k \in ListId : Range(list[k]) = IF k = first THEN {Idle} ELSE {}
      /\ \A k \in ListId : IsInjective(list[k])
    BY <1>2, <1>3
<1>6. Exclusive(list)
    BY <1>3, <1>5 DEF Exclusive
<1>7. Members(list, ReadyList) = {Idle} /\ Linkings = {Idle}
    BY <1>1, <1>5, ListIds DEF Members, Linkings
<1>8. /\ cur = Idle /\ total = 1 /\ heap = {Idle} /\ exited = {}
      /\ vprio = InitPrio /\ InitPrio \in [Thread -> Prio] /\ InitPrio[Idle] = NPrio - 1
      /\ flags = [t \in Thread |-> {}]
      /\ Live = {Idle}
    BY <1>1 DEF Init, InitPrio, Live
<1>9. Consistent(list, total, vprio, flags, Live)
    <2>1. total = Cardinality(Members(list, ReadyList))
        BY <1>7, <1>8, FS_Singleton
    <2>2. Members(list, ListId) \subseteq Live
        BY <1>7, <1>8 DEF Linkings
    <2>3. \A p \in Prio : \A t \in Range(list[Ready(p)]) : vprio[t] = p
        BY <1>4, <1>5, <1>8, ListIds
    <2>4. \A k \in ListId : \A t \in Range(list[k]) : vprio[t] \in Prio /\ flags[t] = {}
        BY <1>1, <1>5, <1>8
    <2>5. Range(list[Notify]) = {}
        BY <1>1, <1>5, ListIds
    <2> QED
        BY <1>3, <1>6, <2>1, <2>2, <2>3, <2>4, <2>5 DEF Consistent
<1>10. TypeOK
    <2>1. FactoryTypeOK
        BY FactoryAssumption, <1>2 DEF Init, FactoryInit, FactoryTypeOK
    <2>2. vprio \in [Thread -> Nat] /\ prio \in [Thread -> Prio]
        BY <1>8, PrioProperties DEF Init
    <2> QED
        BY <1>1, <1>3, <1>8, <2>1, <2>2 DEF Init, TypeOK, Status
<1>11. IdleCompetes(list)
    BY <1>7 DEF IdleCompetes, Members
<1>12. RunningIsReady
    BY <1>1, <1>5, <1>8 DEF RunningIsReady, first
<1>13. CallersSuspended
    BY <1>1, <1>8 DEF Init, CallersSuspended
<1>14. WaitersBlocked
    BY <1>2 DEF Init, FactoryInit, WaitersBlocked
<1> QED
    BY <1>7, <1>8, <1>9, <1>10, <1>11, <1>12, <1>13, <1>14 DEF KernelInv

\* A restart of the processor establishes the invariant again.
LEMMA ResetInv ==
    ASSUME Reset
    PROVE  KernelInv'
<1>1. Init'
    BY DEF Reset, Init, FactoryInit, InitList, InitPrio
<1>2. (Init => KernelInv)'
    BY InitInv, PTL
<1> QED
    BY <1>1, <1>2

\* Every step keeps the invariant.
LEMMA NextInv == KernelInv /\ [Next]_vars => KernelInv'
<1> SUFFICES ASSUME KernelInv, [Next]_vars
             PROVE  KernelInv'
    OBVIOUS
<1>1. CASE Tick
    BY <1>1, TickInv
<1>2. CASE \E t \in Thread, p \in Prio : Create(t, p) \/ Call(t, p)
    BY <1>2, CreateInv, CallInv
<1>3. CASE \E id \in MutexId : \/ Lock(id) \/ LockWait(id) \/ LockFault(id)
                               \/ UnlockPass(id) \/ UnlockRemove(id)
    BY <1>3, LockInv, LockWaitInv, LockFaultInv, UnlockPassInv
<1>4. CASE \E t \in Thread : NotifyThread(t) \/ Sync(t)
    BY <1>4, NotifyInv, PlainWaitInv
<1>5. CASE \E e \in Event : WaitEvent(e) \/ FireEvent(e)
    BY <1>5, FireEventInv, PlainWaitInv
<1>6. CASE Yield \/ Sleep
    BY <1>6, DropInv
<1>7. CASE ExitToCaller \/ ExitDestroyed
    BY <1>7, ExitToCallerInv, ExitDestroyedInv
<1>8. CASE WaitNotify \/ Wait
    BY <1>8, WaitNotifyInv, PlainWaitInv
<1>9. CASE Critical \/ FaultCall \/ Reset
    BY <1>9, CriticalInv, FaultCallInv, ResetInv
<1>10. CASE UNCHANGED vars
    BY <1>10 DEF vars, kernelVars, memVars, tcbVars, factoryVars, KernelInv, TypeOK, FactoryTypeOK,
                 RunningIsReady, CallersSuspended, WaitersBlocked, Live, Linkings
<1> QED
    BY <1>1, <1>2, <1>3, <1>4, <1>5, <1>6, <1>7, <1>8, <1>9, <1>10 DEF Next, ThreadStep

\* Every reachable state of the kernel satisfies its inductive invariant.
THEOREM Invariance == Spec => []KernelInv
<1>1. Init => KernelInv
    BY InitInv
<1>2. KernelInv /\ [Next]_vars => KernelInv'
    BY NextInv
<1> QED
    BY <1>1, <1>2, PTL DEF Spec

-----------------------------------------------------------------------------
(***************************************************************************)
(* What follows.                                                           *)
(***************************************************************************)

\* Every field the handlers write has its type, in particular priorities stay
\* below VM_THREAD_MAX_PRIORITY and threads_total never goes below zero.
THEOREM TypeCorrectness == Spec => []TypeOK
<1>1. KernelInv => TypeOK
    BY DEF KernelInv
<1> QED
    BY <1>1, Invariance, PTL

\* No control block is ever linked into two lists, or twice into one, by any
\* order of calls and ticks (thread_link, thread_unlink and the callers of
\* both).
THEOREM LinkingExclusive == Spec => []OneList
<1>1. KernelInv => OneList
    BY DEF KernelInv, Consistent, OneList
<1> QED
    BY <1>1, Invariance, PTL

\* The processor is always given to a thread that is ready, unblocked, and
\* neither freed nor returned: PICK_READY never takes its "Fatal error" way.
THEOREM RunningReady == Spec => []RunningIsReady
<1>1. KernelInv => RunningIsReady
    BY DEF KernelInv
<1> QED
    BY <1>1, Invariance, PTL

\* threads_total and the ready lists never disagree, so a round ends exactly
\* when nobody is ready any more (t_check_list, t_refresh).
THEOREM CountExact == Spec => []ReadyCount
<1>1. KernelInv => ReadyCount
    BY DEF KernelInv, Consistent, ReadyCount, ReadyThreads
<1> QED
    BY <1>1, Invariance, PTL

\* The ready lists hold unblocked threads only, each in the list of its virtual
\* priority: test_thread never has to skip one.
THEOREM ReadyRunnable == Spec => []ReadyIsRunnable
<1>1. KernelInv => ReadyIsRunnable
    <2> SUFFICES ASSUME KernelInv, NEW p \in Prio, NEW t \in Range(list[Ready(p)])
                 PROVE  vprio[t] = p /\ flags[t] = {}
        BY DEF ReadyIsRunnable
    <2>1. Ready(p) \in ListId \ {Fault, Notify}
        BY ListIds
    <2> QED
        BY <2>1 DEF KernelInv, Consistent
<1> QED
    BY <1>1, Invariance, PTL

\* No list leads to a freed control block, or to one whose thread has returned
\* to its caller (t_destroy, VMAPI_EXIT).
THEOREM LinkedLive == Spec => []LinkedIsLive
<1>1. KernelInv => LinkedIsLive
    BY DEF KernelInv, Consistent, LinkedIsLive, Linkings
<1> QED
    BY <1>1, Invariance, PTL

\* VMAPI_EXIT can link the caller ready without looking: it is suspended, is not
\* blocked, and waits for no other thread.
THEOREM CallersWait == Spec => []CallersSuspended
<1>1. KernelInv => CallersSuspended
    BY DEF KernelInv
<1> QED
    BY <1>1, Invariance, PTL

\* VMAPI_UNLOCK can link the new owner ready without looking: a thread queued
\* on a mutex is in no list and blocked by nothing else.
THEOREM WaitersWait == Spec => []WaitersBlocked
<1>1. KernelInv => WaitersBlocked
    BY DEF KernelInv
<1> QED
    BY <1>1, Invariance, PTL

-----------------------------------------------------------------------------
(***************************************************************************)
(* What a step may not do: link a thread that nobody may link, or end a    *)
(* round early.                                                            *)
(***************************************************************************)

\* The lists ls lead to the threads in the lists and those of S at most, and
\* the drop list has lost nobody.
Grown(ls, S) ==
    /\ ls \in [ListId -> Seq(Thread)]
    /\ Members(ls, ListId) \subseteq Linkings \cup S
    /\ Range(list[Drop]) \subseteq Range(ls[Drop])

\* Each building block of a step keeps the lists so.
LEMMA GrownList == ASSUME KernelInv PROVE Grown(list, {})
    BY DEF KernelInv, TypeOK, Grown, Linkings

\* Lists whose members come from grown lists and R are grown by R too.
LEMMA GrownByLists ==
    ASSUME NEW ls, NEW S, Grown(ls, S),
           NEW m \in [ListId -> Seq(Thread)], NEW R,
           \A j \in ListId : Range(m[j]) \subseteq Members(ls, ListId) \cup R,
           Range(ls[Drop]) \subseteq Range(m[Drop])
    PROVE  Grown(m, S \cup R)
<1>1. Members(m, ListId) \subseteq Members(ls, ListId) \cup R
    BY DEF Members
<1> QED
    BY <1>1 DEF Grown

\* thread_link brings in the thread it links.
LEMMA GrownLinked ==
    ASSUME NEW ls, NEW S, Grown(ls, S), NEW k \in ListId, NEW t \in Thread
    PROVE  Grown(Linked(ls, k, t), S \cup {t})
<1> DEFINE m == Linked(ls, k, t)
<1>1. ls \in [ListId -> Seq(Thread)] /\ Drop \in ListId
    BY ListIds DEF Grown
<1>2. m[k] = Append(ls[k], t) /\ \A j \in ListId \ {k} : m[j] = ls[j]
    BY <1>1 DEF Linked
<1>3. m[k] \in Seq(Thread) /\ Range(m[k]) = Range(ls[k]) \cup {t}
    BY <1>1, <1>2, InjectiveAppend
<1>4. m \in [ListId -> Seq(Thread)]
    BY <1>1, <1>3 DEF Linked
<1> HIDE DEF m
<1>5. \A j \in ListId : Range(m[j]) \subseteq Members(ls, ListId) \cup {t}
    BY <1>2, <1>3 DEF Members
<1>6. Range(ls[Drop]) \subseteq Range(m[Drop])
    BY <1>1, <1>2, <1>3
<1> QED
    BY <1>4, <1>5, <1>6, GrownByLists DEF m

\* thread_unlink brings nobody in, and spares the drop list.
LEMMA GrownUnlinked ==
    ASSUME NEW ls, NEW S, Grown(ls, S), NEW k, k # Drop, NEW t
    PROVE  Grown(Unlinked(ls, k, t), S)
<1> DEFINE m == Unlinked(ls, k, t)
<1>1. ls \in [ListId -> Seq(Thread)] /\ Drop \in ListId
    BY ListIds DEF Grown
<1>2. CASE k \notin ListId
    <2>1. m = ls
        BY <1>1, <1>2 DEF Unlinked
    <2> QED
        BY <2>1
<1>3. CASE k \in ListId
    <2>1. m[k] = Keep(ls[k], Range(ls[k]) \ {t}) /\ \A j \in ListId \ {k} : m[j] = ls[j]
        BY <1>1, <1>3 DEF Unlinked
    <2>2. m[k] \in Seq(Thread) /\ Range(m[k]) \subseteq Range(ls[k])
        BY <1>1, <1>3, <2>1, KeepProperties
    <2>3. m \in [ListId -> Seq(Thread)]
        BY <1>1, <1>3, <2>1, <2>2 DEF Unlinked
    <2> HIDE DEF m
    <2>4. \A j \in ListId : Range(m[j]) \subseteq Members(ls, ListId) \cup {}
        BY <2>1, <2>2 DEF Members
    <2>5. Range(ls[Drop]) \subseteq Range(m[Drop])
        BY <1>1, <2>1
    <2>6. Grown(m, S \cup {})
        BY <2>3, <2>4, <2>5, GrownByLists
    <2> QED
        BY <2>6 DEF m
<1> QED
    BY <1>2, <1>3

\* Nor does a list that is dropped as a whole, a mutex's queue.
LEMMA GrownCleared ==
    ASSUME NEW ls, NEW S, Grown(ls, S), NEW k \in ListId, k # Drop
    PROVE  Grown([ls EXCEPT ![k] = <<>>], S)
<1> DEFINE m == [ls EXCEPT ![k] = <<>>]
<1>1. ls \in [ListId -> Seq(Thread)] /\ Drop \in ListId
    BY ListIds DEF Grown
<1>2. m[k] = <<>> /\ (\A j \in ListId \ {k} : m[j] = ls[j]) /\ m \in [ListId -> Seq(Thread)]
    BY <1>1
<1>3. Range(m[k]) = {}
    BY <1>2 DEF Range
<1> HIDE DEF m
<1>4. \A j \in ListId : Range(m[j]) \subseteq Members(ls, ListId) \cup {}
    BY <1>2, <1>3 DEF Members
<1>5. Range(ls[Drop]) \subseteq Range(m[Drop])
    BY <1>1, <1>2
<1>6. Grown(m, S \cup {})
    BY <1>2, <1>4, <1>5, GrownByLists
<1> QED
    BY <1>6 DEF m

\* MoveToReady links none but the threads it moves, and takes them from one list.
LEMMA MoveLinks ==
    ASSUME NEW ls \in [ListId -> Seq(Thread)], NEW k \in ListId, NEW M, NEW vp
    PROVE  /\ MoveToReady(ls, k, M, vp) \in [ListId -> Seq(Thread)]
           /\ \A j \in ListId :
                 Range(MoveToReady(ls, k, M, vp)[j]) \subseteq Members(ls, ListId)
           /\ k # Drop => MoveToReady(ls, k, M, vp)[Drop] = ls[Drop]
<1> DEFINE m == MoveToReady(ls, k, M, vp)
           part(j) == Keep(ls[k], {t \in M : Ready(vp[t]) = j})
<1>1. /\ DOMAIN m = ListId /\ m = [j \in ListId |-> m[j]]
      /\ m[k] = Keep(ls[k], Range(ls[k]) \ M)
      /\ \A j \in ReadyList \ {k} : m[j] = ls[j] \o part(j)
      /\ \A j \in ListId \ (ReadyList \cup {k}) : m[j] = ls[j]
    BY ListIds DEF MoveToReady
<1>2. \A j \in ListId : Range(ls[j]) \subseteq Members(ls, ListId)
    BY DEF Members
<1>3. m[k] \in Seq(Thread) /\ Range(m[k]) \subseteq Members(ls, ListId)
    <2>1. /\ Keep(ls[k], Range(ls[k]) \ M) \in Seq(Thread)
          /\ Range(Keep(ls[k], Range(ls[k]) \ M)) \subseteq Range(ls[k])
        BY KeepProperties
    <2> QED
        BY <1>1, <1>2, <2>1
<1>4. ASSUME NEW j \in ListId
      PROVE  m[j] \in Seq(Thread) /\ Range(m[j]) \subseteq Members(ls, ListId)
    <2>1. CASE j \in ReadyList \ {k}
        <3>1. part(j) \in Seq(Thread) /\ Range(part(j)) \subseteq Range(ls[k])
            BY KeepProperties
        <3> HIDE DEF part
        <3>2. /\ ls[j] \o part(j) \in Seq(Thread)
              /\ Range(ls[j] \o part(j)) = Range(ls[j]) \cup Range(part(j))
            BY <3>1, RangeConcatenation
        <3> QED
            BY <1>1, <1>2, <2>1, <3>1, <3>2
    <2>2. CASE j \notin ReadyList \ {k}
        BY <1>1, <1>2, <1>3, <2>2
    <2> QED
        BY <2>1, <2>2
<1>5. m \in [ListId -> Seq(Thread)]
    BY <1>1, <1>4
<1>6. k # Drop => m[Drop] = ls[Drop]
    BY <1>1, ListIds
<1> QED
    BY <1>4, <1>5, <1>6

\* Nor does a walk, which takes its threads from a list.
LEMMA GrownMoved ==
    ASSUME NEW ls, NEW S, Grown(ls, S), NEW k \in ListId, k # Drop, NEW M, NEW vp
    PROVE  Grown(MoveToReady(ls, k, M, vp), S)
<1> DEFINE m == MoveToReady(ls, k, M, vp)
<1>1. /\ m \in [ListId -> Seq(Thread)]
      /\ \A j \in ListId : Range(m[j]) \subseteq Members(ls, ListId)
      /\ m[Drop] = ls[Drop]
    BY MoveLinks DEF Grown
<1> HIDE DEF m
<1>2. /\ \A j \in ListId : Range(m[j]) \subseteq Members(ls, ListId) \cup {}
      /\ Range(ls[Drop]) \subseteq Range(m[Drop])
    BY <1>1
<1>3. Grown(m, S \cup {})
    BY <1>1, <1>2, GrownByLists
<1> QED
    BY <1>3 DEF m

\* PICK_READY empties the drop list only when no thread is ready any more.
LEMMA GrownPicked ==
    ASSUME NEW ls, NEW S, Grown(ls, S), NEW n, NEW vp, NEW st, NEW fl,
           PickReady(ls, n, vp, st, fl)
    PROVE  /\ Members(list', ListId) \subseteq Linkings \cup S
           /\ n # 0 => Grown(list', S)
<1> DEFINE vp1 == IF RoundOver(n) THEN Refreshed(ls, vp) ELSE vp
           ls1 == IF RoundOver(n) THEN MoveToReady(ls, Drop, Range(ls[Drop]), vp1) ELSE ls
<1>1. PICK t \in Thread :
          list' = ls1 \/ list' = MoveToReady(ls1, Chain(t), Range(ls1[Chain(t)]), vp1)
    BY DEF PickReady
<1>2. n # 0 => ls1 = ls
    BY DEF RoundOver
<1>3. Chain(t) \in ListId /\ Chain(t) # Drop /\ Drop \in ListId
    BY ListIds
<1>4. ls \in [ListId -> Seq(Thread)] /\ Members(ls, ListId) \subseteq Linkings \cup S
    BY DEF Grown
<1>5. ls1 \in [ListId -> Seq(Thread)] /\ Members(ls1, ListId) \subseteq Linkings \cup S
    <2>1. CASE RoundOver(n)
        <3> DEFINE m == MoveToReady(ls, Drop, Range(ls[Drop]), vp1)
        <3>1. /\ m \in [ListId -> Seq(Thread)]
              /\ \A j \in ListId : Range(m[j]) \subseteq Members(ls, ListId)
            BY <1>3, <1>4, MoveLinks
        <3>2. ls1 = m
            BY <2>1
        <3> HIDE DEF m, ls1
        <3>3. Members(m, ListId) \subseteq Members(ls, ListId)
            BY <3>1 DEF Members
        <3> QED
            BY <1>4, <3>1, <3>2, <3>3
    <2>2. CASE ~ RoundOver(n)
        BY <1>4, <2>2
    <2> QED
        BY <2>1, <2>2
<1> HIDE DEF ls1, vp1
<1>6. Members(list', ListId) \subseteq Linkings \cup S
    <2>1. CASE list' = ls1
        BY <1>5, <2>1
    <2>2. CASE list' = MoveToReady(ls1, Chain(t), Range(ls1[Chain(t)]), vp1)
        <3>1. \A j \in ListId : Range(list'[j]) \subseteq Members(ls1, ListId)
            BY <1>3, <1>5, <2>2, MoveLinks
        <3>2. Members(list', ListId) \subseteq Members(ls1, ListId)
            BY <3>1 DEF Members
        <3> QED
            BY <1>5, <3>2
    <2> QED
        BY <1>1, <2>1, <2>2
<1>7. ASSUME n # 0 PROVE Grown(list', S)
    <2>1. Grown(ls1, S)
        BY <1>2, <1>7
    <2>2. Grown(MoveToReady(ls1, Chain(t), Range(ls1[Chain(t)]), vp1), S)
        BY <1>3, <2>1, GrownMoved
    <2> QED
        BY <1>1, <2>1, <2>2
<1> QED
    BY <1>6, <1>7

\* When threads_total says so, no thread is ready but the one that runs.
LEMMA LastReady ==
    ASSUME KernelInv, total <= 1
    PROVE  ReadyThreads \subseteq {cur}
<1>1. /\ total = Cardinality(ReadyThreads) /\ IsFiniteSet(ReadyThreads) /\ total \in Nat
    <2>1. Consistent(list, total, vprio, flags, Live)
        BY DEF KernelInv
    <2>2. total = Cardinality(ReadyThreads)
        BY <2>1 DEF Consistent, ReadyThreads
    <2> QED
        BY <2>1, <2>2, MembersProperties DEF ReadyThreads
<1>2. cur \in ReadyThreads
    BY Running
<1>3. total # 0
    BY <1>1, <1>2, FS_EmptySet
<1>4. total = 1
    BY <1>1, <1>3
<1>5. PICK x : ReadyThreads = {x}
    BY <1>1, <1>4, FS_Singleton
<1> QED
    BY <1>2, <1>5

\* The drop list loses nobody in a step unless the round is over.
RoundKept == Range(list[Drop]) \subseteq Range(list'[Drop]) \/ ReadyThreads \subseteq {cur}

\* Who a step may link that was in no list: a new thread, one that has waited
\* for a mutex, or the caller of the thread that exits.
MayEnter(u) ==
    \/ u \in Linkings
    \/ u \notin heap
    \/ flags[u] # {}
    \/ ExitToCaller /\ u = caller[cur]

\* Steps with and without PICK_READY.
LEMMA GrownStep ==
    ASSUME NEW S, Grown(list', S), \A u \in S : MayEnter(u)
    PROVE  (\A u \in Linkings' : MayEnter(u)) /\ RoundKept
    BY DEF Grown, Linkings, MayEnter, RoundKept

\* A step that ends with PICK_READY brings in what the lists before it had.
LEMMA PickedStep ==
    ASSUME KernelInv, NEW ls, NEW S, Grown(ls, S), \A u \in S : MayEnter(u),
           NEW n, n = 0 => total <= 1, NEW vp, NEW st, NEW fl,
           PickReady(ls, n, vp, st, fl)
    PROVE  (\A u \in Linkings' : MayEnter(u)) /\ RoundKept
<1>1. /\ Members(list', ListId) \subseteq Linkings \cup S
      /\ n # 0 => Grown(list', S)
    BY GrownPicked
<1>2. \A u \in Linkings' : MayEnter(u)
    BY <1>1 DEF Linkings, MayEnter
<1>3. CASE n = 0
    BY <1>2, <1>3, LastReady DEF RoundKept
<1>4. CASE n # 0
    BY <1>1, <1>4, GrownStep
<1> QED
    BY <1>3, <1>4

\* A step that suspends the running thread brings in that one.
LEMMA SuspendedStep ==
    ASSUME KernelInv, NEW ls, Grown(ls, {cur}), NEW fl, Suspend(ls, fl)
    PROVE  (\A u \in Linkings' : MayEnter(u)) /\ RoundKept
<1> DEFINE n == total - 1
<1>1. PickReady(ls, n, vprio, status, fl)
    BY DEF Suspend
<1>2. \A u \in {cur} : MayEnter(u)
    BY Running DEF MayEnter
<1>3. total \in Nat
    BY DEF KernelInv, TypeOK
<1>4. n = 0 => total <= 1
    BY <1>3
<1> HIDE DEF n
<1> QED
    BY <1>1, <1>2, <1>4, PickedStep

\* The running thread has left its ready list.
LEMMA CurGrown ==
    ASSUME KernelInv
    PROVE  /\ Grown(CurUnlinked, {}) /\ Grown(CurUnlinked, {cur})
           /\ cur \in Thread /\ total \in Nat
           /\ \A k \in ListId : Grown(Linked(CurUnlinked, k, cur), {cur})
<1>1. Grown(list, {}) /\ cur \in Thread /\ total \in Nat
    BY GrownList DEF KernelInv, TypeOK
<1>2. Ready(vprio[cur]) # Drop
    BY DEF Ready, Drop
<1>3. Grown(CurUnlinked, {})
    BY <1>1, <1>2, GrownUnlinked DEF CurUnlinked
<1>4. Grown(CurUnlinked, {cur})
    BY <1>3 DEF Grown
<1>5. ASSUME NEW k \in ListId PROVE Grown(Linked(CurUnlinked, k, cur), {cur})
    <2>1. Grown(Linked(CurUnlinked, k, cur), {} \cup {cur})
        BY <1>1, <1>3, GrownLinked
    <2> QED
        BY <2>1
<1> QED
    BY <1>1, <1>3, <1>4, <1>5

\* The calls that suspend the running thread.
LEMMA SuspendingCalls ==
    ASSUME KernelInv,
           \/ Yield \/ Sleep \/ WaitNotify \/ Wait \/ FaultCall
           \/ \E t \in Thread : Sync(t)
           \/ \E e \in Event : WaitEvent(e)
           \/ \E id \in MutexId : LockWait(id) \/ LockFault(id)
    PROVE  (\A u \in Linkings' : MayEnter(u)) /\ RoundKept
<1>1. \/ \E k \in ListId : \E fl : Suspend(Linked(CurUnlinked, k, cur), fl)
      \/ \E fl : Suspend(CurUnlinked, fl)
    BY ListIds DEF Yield, Sleep, WaitNotify, Wait, FaultCall, Sync, WaitEvent, LockWait, LockFault
<1> QED
    BY <1>1, CurGrown, SuspendedStep

\* The tick: what it adds to threads_total is what it adds to the ready lists.
LEMMA TickStep ==
    ASSUME KernelInv, Tick
    PROVE  (\A u \in Linkings' : MayEnter(u)) /\ RoundKept
<1> DEFINE vp == Aged(cur)
           low == vp[cur] < NPrio
           k == IF low THEN Ready(vp[cur]) ELSE Drop
           ls == Linked(CurUnlinked, k, cur)
           n == IF low THEN total ELSE total - 1
           st == [status EXCEPT ![cur] = "pend"]
<1>1. PICK M \in SUBSET Range(list[Cond]) :
            PickReady(MoveToReady(ls, Cond, M, vp), n + Cardinality(M), vp, st, flags)
    BY DEF Tick
<1>2. /\ cur \in Thread /\ total \in Nat /\ total # 0
    <2>1. total = Cardinality(ReadyThreads) /\ IsFiniteSet(ReadyThreads)
        <3>1. Consistent(list, total, vprio, flags, Live)
            BY DEF KernelInv
        <3>2. total = Cardinality(ReadyThreads)
            BY <3>1 DEF Consistent, ReadyThreads
        <3> QED
            BY <3>1, <3>2, MembersProperties DEF ReadyThreads
    <2> QED
        BY <2>1, CurGrown, Running, FS_EmptySet
<1>3. k \in ListId
    <2>1. vp[cur] \in Nat
        BY <1>2 DEF Aged, KernelInv, TypeOK
    <2> QED
        BY <2>1, ListIds, PrioProperties
<1>4. Grown(ls, {cur})
    BY <1>3, CurGrown
<1>5. Cond \in ListId /\ Cond # Drop
    BY ListIds
<1>6. Grown(MoveToReady(ls, Cond, M, vp), {cur})
    BY <1>4, <1>5, GrownMoved
<1>7. Cardinality(M) \in Nat
    <2>1. Range(list[Cond]) \subseteq Thread
        BY <1>5, RangeOfSeq DEF KernelInv, TypeOK
    <2> QED
        BY <2>1, ThreadAssumption, FS_Subset, FS_CardinalityType
<1>8. n + Cardinality(M) = 0 => total <= 1
    BY <1>2, <1>7
<1>9. \A u \in {cur} : MayEnter(u)
    BY Running DEF MayEnter
<1> HIDE DEF vp, ls, n, st
<1> QED
    BY <1>1, <1>6, <1>8, <1>9, PickedStep

\* New threads.
LEMMA NewThreads ==
    ASSUME KernelInv, NEW t \in Thread, NEW p \in Prio, Create(t, p) \/ Call(t, p)
    PROVE  (\A u \in Linkings' : MayEnter(u)) /\ RoundKept
<1>1. /\ Chain(t) \in ListId /\ Chain(t) # Drop /\ Ready(p) \in ListId
      /\ Grown(list, {}) /\ Grown(CurUnlinked, {})
    BY ListIds, GrownList, CurGrown
<1>2. t \notin heap
    BY DEF Create, Call
<1>3. PICK ls \in {list, CurUnlinked} :
          list' = Linked([ls EXCEPT ![Chain(t)] = <<>>], Ready(p), t)
    BY DEF Create, Call
<1>4. Grown([ls EXCEPT ![Chain(t)] = <<>>], {})
    BY <1>1, GrownCleared
<1>5. Grown(list', {} \cup {t})
    BY <1>1, <1>3, <1>4, GrownLinked
<1>6. \A u \in {} \cup {t} : MayEnter(u)
    BY <1>2 DEF MayEnter
<1> QED
    BY <1>5, <1>6, GrownStep

\* Exits.
LEMMA ExitSteps ==
    ASSUME KernelInv, ExitToCaller \/ ExitDestroyed
    PROVE  (\A u \in Linkings' : MayEnter(u)) /\ RoundKept
<1>1. CASE ExitToCaller
    <2> DEFINE c == caller[cur]
    <2>1. c \in Thread
        <3>1. caller[cur] \in Thread \cup {NULL} /\ caller[cur] # NULL
            BY <1>1 DEF KernelInv, TypeOK, ExitToCaller
        <3> QED
            BY <3>1
    <2>2. cur \in Live
        BY Running
    <2>3. c \in Live \ Linkings
        BY <1>1, <2>2 DEF ExitToCaller, KernelInv, CallersSuspended
    <2>4. Ready(vprio[c]) \in ListId
        BY <2>3, ListIds DEF KernelInv
    <2>5. list' = Linked(CurUnlinked, Ready(vprio[c]), c)
        BY <1>1 DEF ExitToCaller
    <2>6. Grown(list', {} \cup {c})
        BY <2>1, <2>4, <2>5, CurGrown, GrownLinked
    <2>7. \A u \in {} \cup {c} : MayEnter(u)
        BY <1>1 DEF MayEnter
    <2> QED
        BY <2>6, <2>7, GrownStep
<1>2. CASE ExitDestroyed
    <2> DEFINE ls == [CurUnlinked EXCEPT ![Chain(cur)] = <<>>]
               n == total - 1
               vp == [vprio EXCEPT ![cur] = 0]
               st == [status EXCEPT ![cur] = "stop"]
    <2>1. Chain(cur) \in ListId /\ Chain(cur) # Drop
        BY CurGrown, ListIds
    <2>2. Grown(ls, {})
        BY <2>1, CurGrown, GrownCleared
    <2>3. PickReady(ls, n, vp, st, flags)
        BY <1>2 DEF ExitDestroyed
    <2>4. n = 0 => total <= 1
        BY CurGrown
    <2>5. \A u \in {} : MayEnter(u)
        OBVIOUS
    <2> HIDE DEF ls, n, vp, st
    <2> QED
        BY <2>2, <2>3, <2>4, <2>5, PickedStep
<1> QED
    BY <1>1, <1>2

\* The calls that wake other threads.
LEMMA WakingCalls ==
    ASSUME KernelInv,
           \/ \E id \in MutexId : UnlockPass(id)
           \/ \E t \in Thread : NotifyThread(t)
           \/ \E e \in Event : FireEvent(e)
    PROVE  (\A u \in Linkings' : MayEnter(u)) /\ RoundKept
<1>1. Grown(list, {})
    BY GrownList
<1>2. ASSUME NEW id \in MutexId, UnlockPass(id)
      PROVE  (\A u \in Linkings' : MayEnter(u)) /\ RoundKept
    <2> DEFINE w == Head(waiters[id])
    <2>1. w \in Range(waiters[id]) /\ w \in Thread
        <3>1. waiters[id] \in Seq(Thread) /\ waiters[id] # <<>>
            BY <1>2 DEF KernelInv, TypeOK, FactoryTypeOK, UnlockPass, PassOn
        <3> QED
            BY <3>1, InjectiveTail
    <2>2. w \in Live \ Linkings /\ flags[w] # {}
        BY <2>1 DEF KernelInv, WaitersBlocked
    <2>3. Ready(vprio[w]) \in ListId
        BY <2>2, ListIds DEF KernelInv
    <2>4. list' = Linked(list, Ready(vprio[w]), w)
        BY <1>2 DEF UnlockPass
    <2>5. Grown(list', {} \cup {w})
        BY <1>1, <2>1, <2>3, <2>4, GrownLinked
    <2>6. \A u \in {} \cup {w} : MayEnter(u)
        BY <2>2 DEF MayEnter
    <2> QED
        BY <2>5, <2>6, GrownStep
<1>3. ASSUME NEW t \in Thread, NotifyThread(t)
      PROVE  (\A u \in Linkings' : MayEnter(u)) /\ RoundKept
    <2>1. t \in Range(list[Notify]) /\ Notify \in ListId \ {Drop}
        BY <1>3, ListIds DEF NotifyThread
    <2>2. t \in Linkings
        BY <2>1 DEF Linkings, Members
    <2>3. vprio[t] \in Prio
        BY <2>1 DEF KernelInv, Consistent
    <2>4. list' = Linked(Unlinked(list, Notify, t), Ready(vprio[t]), t)
        BY <1>3 DEF NotifyThread
    <2>5. Grown(Unlinked(list, Notify, t), {})
        BY <1>1, <2>1, GrownUnlinked
    <2>6. Grown(list', {} \cup {t})
        BY <2>3, <2>4, <2>5, GrownLinked, ListIds
    <2>7. \A u \in {} \cup {t} : MayEnter(u)
        BY <2>2 DEF MayEnter
    <2> QED
        BY <2>6, <2>7, GrownStep
<1>4. ASSUME NEW e \in Event, FireEvent(e)
      PROVE  (\A u \in Linkings' : MayEnter(u)) /\ RoundKept
    <2>1. list' = MoveToReady(list, WaitList, WaitingFor(e), vprio)
        BY <1>4 DEF FireEvent
    <2>2. WaitList \in ListId /\ WaitList # Drop
        BY ListIds
    <2>3. Grown(list', {})
        BY <1>1, <2>1, <2>2, GrownMoved
    <2> QED
        BY <2>3, GrownStep
<1> QED
    BY <1>2, <1>3, <1>4

\* The other calls leave the lists alone.
LEMMA StepLinks ==
    ASSUME KernelInv, [Next]_vars, ~Reset
    PROVE  (\A u \in Linkings' : MayEnter(u)) /\ RoundKept
<1>1. CASE list' = list
    <2>1. Grown(list', {})
        BY <1>1, GrownList
    <2> QED
        BY <2>1, GrownStep
<1>2. CASE \/ Yield \/ Sleep \/ WaitNotify \/ Wait \/ FaultCall
           \/ \E t \in Thread : Sync(t)
           \/ \E e \in Event : WaitEvent(e)
           \/ \E id \in MutexId : LockWait(id) \/ LockFault(id)
    BY <1>2, SuspendingCalls
<1>3. CASE \/ \E id \in MutexId : UnlockPass(id)
           \/ \E t \in Thread : NotifyThread(t)
           \/ \E e \in Event : FireEvent(e)
    BY <1>3, WakingCalls
<1>4. CASE \E t \in Thread, p \in Prio : Create(t, p) \/ Call(t, p)
    BY <1>4, NewThreads
<1>5. CASE ExitToCaller \/ ExitDestroyed
    BY <1>5, ExitSteps
<1>6. CASE Tick
    BY <1>6, TickStep
<1>7. CASE Critical \/ (\E id \in MutexId : Lock(id) \/ UnlockRemove(id)) \/ UNCHANGED vars
    <2>1. list' = list
        BY <1>7 DEF Critical, Lock, UnlockRemove, kernelVars, vars
    <2> QED
        BY <1>1, <2>1
<1> QED
    BY <1>2, <1>3, <1>4, <1>5, <1>6, <1>7 DEF Next, ThreadStep

\* A thread that gave up the processor or used up its priority comes back only
\* when nobody but the running thread is ready: no call or tick ends a round
\* early (t_check_list and t_refresh, called by PICK_READY alone).
THEOREM RoundsAreComplete == Spec => RoundsComplete
<1> DEFINE A == \A t \in Range(list[Drop]) :
                   t \notin Range(list'[Drop]) => ReadyThreads \subseteq {cur} \/ Reset
<1>1. KernelInv /\ [Next]_vars => [A]_vars
    <2> SUFFICES ASSUME KernelInv, [Next]_vars, ~Reset PROVE A
        OBVIOUS
    <2>1. RoundKept
        BY StepLinks
    <2> QED
        BY <2>1 DEF RoundKept
<1> HIDE DEF A
<1>2. Spec => [][A]_vars
    BY <1>1, Invariance, PTL DEF Spec
<1> QED
    BY <1>2 DEF RoundsComplete, A

\* A suspended caller becomes ready by the exit of the thread it called and by
\* nothing else (VMAPI_CALL and VMAPI_EXIT against every call of every other
\* thread).
THEOREM CallersResumedByExit == Spec => CallReturns
<1> DEFINE A == \A t \in Live : caller[t] # NULL /\ caller[t] \in (ReadyThreads)' =>
                   (cur = t /\ cur' = caller[t] /\ t \in exited') \/ Reset
<1>1. KernelInv /\ [Next]_vars => [A]_vars
    <2> SUFFICES ASSUME KernelInv, [Next]_vars, ~Reset,
                        NEW t \in Live, caller[t] # NULL, caller[t] \in (ReadyThreads)'
                 PROVE  cur = t /\ cur' = caller[t] /\ t \in exited'
        OBVIOUS
    <2>1. caller[t] \in Live \ Linkings /\ flags[caller[t]] = {}
        BY DEF KernelInv, CallersSuspended
    <2>2. caller[t] \in Linkings'
        BY ListIds DEF ReadyThreads, Linkings, Members
    <2>3. ExitToCaller /\ caller[t] = caller[cur]
        BY <2>1, <2>2, StepLinks DEF MayEnter, Live
    <2>4. cur \in Live
        BY Running
    <2>5. cur = t
        BY <2>3, <2>4 DEF KernelInv, CallersSuspended
    <2> QED
        BY <2>3, <2>5 DEF ExitToCaller
<1> HIDE DEF A
<1>2. Spec => [][A]_vars
    BY <1>1, Invariance, PTL DEF Spec
<1> QED
    BY <1>2 DEF CallReturns, A


-----------------------------------------------------------------------------
(***************************************************************************)
(* The links.  ThreadLinks implements ThreadQueues: the memory represents  *)
(* the lists (Represents), each operation on the links is the operation on *)
(* the lists, and a walk is the move it stands for, visit by visit.  Two   *)
(* recursive functions, the walk and the following of the links, are       *)
(* reasoned about by their least counterexample.                           *)
(***************************************************************************)
\* The least-number principle, from which what a recursive definition computes
\* follows by its least counterexample.
LEMMA LeastNumber ==
    ASSUME NEW S \in SUBSET Nat, S # {}
    PROVE  \E n \in S : \A m \in S : n <= m
<1> DEFINE R == OpToRel(<, Nat)
<1>1. IsWellFoundedOn(R, Nat)
    BY NatLessThanWellFounded, Zenon
<1>2. PICK n \in S : \A m \in S : ~(<<m, n>> \in R)
    BY <1>1, WFMin
<1>3. \A i, j \in Nat : i < j => <<i, j>> \in R
    BY DEF OpToRel
<1> HIDE DEF R
<1>4. \A m \in S : ~(m < n)
    BY <1>2, <1>3
<1> QED
    BY <1>4

\* Two functions on 1..N that start alike, and go on alike where they were
\* alike, are the same.
LEMMA SameRecursion ==
    ASSUME NEW N \in Nat, NEW f, NEW g,
           DOMAIN f = 1..N, DOMAIN g = 1..N,
           \A n \in 1..N : (n = 1 \/ f[n - 1] = g[n - 1]) => f[n] = g[n]
    PROVE  \A n \in 1..N : f[n] = g[n]
<1> DEFINE Bad == {n \in 1..N : f[n] # g[n]}
<1> SUFFICES ASSUME Bad # {} PROVE FALSE
    OBVIOUS
<1>1. Bad \in SUBSET Nat
    OBVIOUS
<1>2. PICK n \in Bad : \A m \in Bad : n <= m
    <2> HIDE DEF Bad
    <2> QED
        BY <1>1, LeastNumber
<1>3. n = 1 \/ (n - 1 \in 1..N /\ n - 1 \notin Bad)
    BY <1>2
<1> QED
    BY <1>2, <1>3

\* What is met along links that lead from each element of s to the next, and
\* from the last to the null pointer.
LEMMA FollowAlong ==
    ASSUME NEW start, NEW link, NEW s \in Seq(Thread),
           s = <<>> => start = NULL,
           s # <<>> => start = s[1],
           \A i \in 1..Len(s) : link[s[i]] = IF i = Len(s) THEN NULL ELSE s[i + 1]
    PROVE  \A n \in 1..Cardinality(Thread) :
              Follow(start, link)[n] = IF n <= Len(s) THEN s[n] ELSE NULL
<1> DEFINE N == Cardinality(Thread)
           step(f, n) == IF n = 1 THEN start ELSE IF f[n - 1] = NULL THEN NULL ELSE link[f[n - 1]]
           g == [n \in 1..N |-> IF n <= Len(s) THEN s[n] ELSE NULL]
           f == Follow(start, link)
<1>1. N \in Nat /\ Len(s) \in Nat /\ NULL \notin Thread /\ \A i \in 1..Len(s) : s[i] \in Thread
    BY ThreadAssumption, FS_CardinalityType, LenProperties
<1>2. \A n \in 1..N : g[n] = step(g, n)
    <2> SUFFICES ASSUME NEW n \in 1..N PROVE g[n] = step(g, n)
        OBVIOUS
    <2>1. CASE n = 1
        BY <1>1, <2>1, EmptySeq
    <2>2. CASE n # 1
        <3>1. n - 1 \in 1..N
            BY <1>1, <2>2
        <3>2. CASE n - 1 <= Len(s)
            <4>1. n - 1 \in 1..Len(s) /\ g[n - 1] = s[n - 1] /\ g[n - 1] # NULL
                BY <1>1, <3>1, <3>2
            <4>2. link[s[n - 1]] = IF n - 1 = Len(s) THEN NULL ELSE s[n - 1 + 1]
                BY <4>1
            <4> QED
                BY <1>1, <2>2, <4>1, <4>2
        <3>3. CASE ~(n - 1 <= Len(s))
            BY <1>1, <2>2, <3>1, <3>3
        <3> QED
            BY <3>2, <3>3
    <2> QED
        BY <2>1, <2>2
<1>3. g = [n \in 1..N |-> step(g, n)]
    BY <1>2
<1>4. f = [n \in 1..N |-> step(f, n)]
    <2>1. \E h : h = [n \in 1..N |-> step(h, n)]
        BY <1>3
    <2> QED
        BY <2>1 DEF Follow
<1>5. DOMAIN f = 1..N /\ DOMAIN g = 1..N
    BY <1>4
<1>6. \A n \in 1..N : (n = 1 \/ f[n - 1] = g[n - 1]) => f[n] = g[n]
    <2>1. \A n \in 1..N : f[n] = step(f, n)
        BY <1>4
    <2>2. \A n \in 1..N : (n = 1 \/ f[n - 1] = g[n - 1]) => step(f, n) = step(g, n)
        <3> HIDE DEF f, g
        <3> QED
            OBVIOUS
    <2> QED
        BY <1>2, <2>1, <2>2
<1> HIDE DEF f
<1>7. \A n \in 1..N : f[n] = g[n]
    <2> HIDE DEF g, N, step
    <2>1. PICK a, b, l : a = f /\ b = g /\ l = N
        OBVIOUS
    <2>2. /\ l \in Nat /\ DOMAIN a = 1..l /\ DOMAIN b = 1..l
          /\ \A n \in 1..l : (n = 1 \/ a[n - 1] = b[n - 1]) => a[n] = b[n]
        BY <1>1, <1>5, <1>6, <2>1
    <2>3. \A n \in 1..l : a[n] = b[n]
        BY <2>2, SameRecursion, SMTT(40)
    <2> QED
        BY <2>1, <2>3
<1> QED
    BY <1>7 DEF f

-----------------------------------------------------------------------------
\* e lists the n positions of s that hold an element of S in ascending order.
InOrder(e, n, s, S) ==
    /\ e \in [1..n -> Positions(s, S)]
    /\ \A i, j \in 1..n : i < j => e[i] < e[j]
    /\ \A p \in Positions(s, S) : \E i \in 1..n : e[i] = p

\* What Keep is, for whoever can list the positions it keeps in order.
LEMMA KeepInOrder ==
    ASSUME NEW T, NEW s \in Seq(T), NEW S, NEW n \in Nat, NEW e, InOrder(e, n, s, S)
    PROVE  Keep(s, S) = [k \in 1..n |-> s[e[k]]]
<1> DEFINE P == Positions(s, S)
           Upto(p) == {j \in P : j <= p}
<1>0. /\ e \in [1..n -> P]
      /\ \A i, j \in 1..n : i < j => e[i] < e[j]
      /\ \A p \in P : \E i \in 1..n : e[i] = p
    BY DEF InOrder
<1>1. P \subseteq Nat
    BY PositionsFinite, LenProperties
<1>2. \A i, j \in 1..n : e[i] = e[j] => i = j
    <2>1. \A i \in 1..n : e[i] \in Nat
        BY <1>0, <1>1
    <2> QED
        BY <1>0, <2>1
<1>3. ASSUME NEW k \in Nat, k <= n, NEW Q, Q = {e[i] : i \in 1..k}
      PROVE  Cardinality(Q) = k
    <2> DEFINE d == [i \in 1..k |-> e[i]]
    <2>1. d \in [1..k -> Q] /\ \A i, j \in 1..k : d[i] = d[j] => i = j
        BY <1>2, <1>3
    <2>2. \A q \in Q : \E i \in 1..k : d[i] = q
        BY <1>3
    <2>3. d \in Bijection(1..k, Q)
        <3> HIDE DEF d
        <3>1. d \in Injection(1..k, Q)
            BY <2>1, Fun_IsInj
        <3>2. d \in Surjection(1..k, Q)
            BY <2>1, <2>2, Fun_IsSurj
        <3> QED
            BY <3>1, <3>2 DEF Bijection
    <2>4. ExistsBijection(1..k, Q)
        BY <2>3, Fun_ExistsBij
    <2>5. IsFiniteSet(1..k) /\ Cardinality(1..k) = k
        BY FS_Interval
    <2> QED
        BY <2>4, <2>5, FS_Bijection
<1>4. Cardinality(P) = n
    <2>1. P = {e[i] : i \in 1..n}
        BY <1>0
    <2> QED
        BY <2>1, <1>3
<1>5. ASSUME NEW k \in 1..n
      PROVE  RankOf(s, S, e[k]) = k
    <2>1. Upto(e[k]) = {e[i] : i \in 1..k}
        <3>1. ASSUME NEW i \in 1..n PROVE e[i] <= e[k] <=> i <= k
            <4>1. i < k => e[i] < e[k]
                BY <1>0
            <4>2. k < i => e[k] < e[i]
                BY <1>0
            <4>3. e[i] \in Nat /\ e[k] \in Nat
                BY <1>0, <1>1
            <4> QED
                BY <4>1, <4>2, <4>3
        <3>2. Upto(e[k]) \subseteq {e[i] : i \in 1..k}
            BY <1>0, <3>1
        <3>3. \A i \in 1..k : e[i] \in Upto(e[k])
            BY <1>0, <3>1
        <3> QED
            BY <3>2, <3>3
    <2>2. k \in Nat /\ k <= n
        OBVIOUS
    <2>3. Cardinality(Upto(e[k])) = k
        <3> HIDE DEF Upto
        <3> QED
            BY <2>1, <2>2, <1>3
    <2> QED
        BY <2>3 DEF RankOf
<1> DEFINE pos(k) == CHOOSE i \in P : RankOf(s, S, i) = k
<1>6. ASSUME NEW k \in 1..n
      PROVE  pos(k) = e[k]
    <2>1. e[k] \in P /\ RankOf(s, S, e[k]) = k
        BY <1>0, <1>5
    <2>2. \A i \in P : RankOf(s, S, i) = k => i = e[k]
        BY <1>0, <1>5
    <2> HIDE DEF P
    <2> QED
        BY <2>1, <2>2
<1>7. Keep(s, S) = [k \in 1..n |-> s[pos(k)]]
    BY <1>4 DEF Keep
<1> HIDE DEF pos
<1> QED
    BY <1>6, <1>7

\* Keep as a sequence of positions, the other way round.
LEMMA KeepOrdered ==
    ASSUME NEW T, NEW s \in Seq(T), NEW S
    PROVE  \E n \in Nat : \E e :
              InOrder(e, n, s, S) /\ Keep(s, S) = [k \in 1..n |-> s[e[k]]]
<1> DEFINE P == Positions(s, S)
           n == Cardinality(P)
           e == [k \in 1..n |-> CHOOSE i \in P : RankOf(s, S, i) = k]
<1>1. P \subseteq Nat /\ n \in Nat
    BY PositionsFinite, LenProperties
<1>2. \A k \in 1..n : e[k] \in P /\ RankOf(s, S, e[k]) = k
    <2> TAKE k \in 1..n
    <2>1. \E i \in P : RankOf(s, S, i) = k
        BY RankOnto
    <2> QED
        BY <2>1
<1>3. e \in [1..n -> P] /\ Keep(s, S) = [k \in 1..n |-> s[e[k]]]
    BY <1>2 DEF Keep
<1> HIDE DEF e, n
<1>4. ASSUME NEW i \in 1..n, NEW j \in 1..n, i < j
      PROVE  e[i] < e[j]
    <2>1. e[j] < e[i] => j < i
        BY <1>2, RankMonotonic
    <2>2. e[i] # e[j] /\ e[i] \in Nat /\ e[j] \in Nat
        BY <1>1, <1>2, <1>4
    <2> QED
        BY <2>1, <2>2, <1>1, <1>4
<1>5. ASSUME NEW p \in P
      PROVE  \E i \in 1..n : e[i] = p
    <2>1. RankOf(s, S, p) \in 1..n
        BY RankMonotonic DEF n
    <2>2. PICK i \in 1..n : i = RankOf(s, S, p)
        BY <2>1
    <2>3. RankOf(s, S, e[i]) = RankOf(s, S, p)
        BY <1>2, <2>2
    <2>4. ~(e[i] < p) /\ ~(p < e[i])
        <3>1. RankOf(s, S, p) \in Nat
            BY <2>1, <1>1
        <3> QED
            BY <3>1, <1>2, <2>3, RankMonotonic
    <2>5. e[i] = p
        BY <1>1, <1>2, <2>4
    <2> QED
        BY <2>5
<1>6. InOrder(e, n, s, S)
    BY <1>3, <1>4, <1>5 DEF InOrder
<1> QED
    BY <1>1, <1>3, <1>6

\* One more element.
LEMMA KeepAppend ==
    ASSUME NEW T, NEW s \in Seq(T), NEW x \in T, NEW S
    PROVE  Keep(Append(s, x), S) = IF x \in S THEN Append(Keep(s, S), x) ELSE Keep(s, S)
<1> DEFINE u == Append(s, x)
           m == Len(s)
<1>1. /\ m \in Nat /\ DOMAIN s = 1..m
      /\ u \in Seq(T) /\ DOMAIN u = 1..m + 1 /\ u[m + 1] = x
      /\ \A i \in 1..m : u[i] = s[i]
    BY LenProperties, AppendProperties
<1>2. PICK n \in Nat : \E e :
              InOrder(e, n, s, S) /\ Keep(s, S) = [k \in 1..n |-> s[e[k]]]
    BY KeepOrdered
<1>3. PICK e : InOrder(e, n, s, S) /\ Keep(s, S) = [k \in 1..n |-> s[e[k]]]
    BY <1>2
<1>4. /\ e \in [1..n -> Positions(s, S)]
      /\ \A i, j \in 1..n : i < j => e[i] < e[j]
      /\ \A p \in Positions(s, S) : \E i \in 1..n : e[i] = p
    BY <1>3 DEF InOrder
<1> HIDE DEF u, m
<1>5. /\ Positions(s, S) \subseteq 1..m
      /\ Positions(u, S) = Positions(s, S) \cup (IF x \in S THEN {m + 1} ELSE {})
    BY <1>1 DEF Positions
<1>6. CASE x \in S
    <2> DEFINE d == [i \in 1..n + 1 |-> IF i = n + 1 THEN m + 1 ELSE e[i]]
    <2>1. d \in [1..n + 1 -> Positions(u, S)] /\ n + 1 \in Nat
        BY <1>4, <1>5, <1>6
    <2>2. \A i, j \in 1..n + 1 : i < j => d[i] < d[j]
        <3> SUFFICES ASSUME NEW i \in 1..n + 1, NEW j \in 1..n + 1, i < j PROVE d[i] < d[j]
            OBVIOUS
        <3>1. i \in 1..n /\ e[i] \in 1..m
            BY <1>4, <1>5
        <3> QED
            BY <1>1, <1>4, <3>1
    <2>3. \A p \in Positions(u, S) : \E i \in 1..n + 1 : d[i] = p
        <3> SUFFICES ASSUME NEW p \in Positions(u, S) PROVE \E i \in 1..n + 1 : d[i] = p
            OBVIOUS
        <3>1. CASE p = m + 1
            BY <3>1
        <3>2. CASE p \in Positions(s, S)
            <4>1. PICK i \in 1..n : e[i] = p
                BY <1>4, <3>2
            <4>2. i \in 1..n + 1 /\ d[i] = p
                BY <4>1
            <4> QED
                BY <4>2
        <3> QED
            BY <1>5, <3>1, <3>2
    <2>4. Keep(u, S) = [k \in 1..n + 1 |-> u[d[k]]]
        <3>1. InOrder(d, n + 1, u, S)
            BY <2>1, <2>2, <2>3 DEF InOrder
        <3>2. PICK l \in Nat : l = n + 1
            BY <2>1
        <3>3. InOrder(d, l, u, S)
            BY <3>1, <3>2
        <3> HIDE DEF d
        <3>4. Keep(u, S) = [k \in 1..l |-> u[d[k]]]
            BY <1>1, <3>3, KeepInOrder
        <3> QED
            BY <3>2, <3>4
    <2>5. Append(Keep(s, S), x) = [k \in 1..n + 1 |-> IF k = n + 1 THEN x ELSE s[e[k]]]
        <3>1. Keep(s, S) \in Seq(T)
            BY KeepProperties
        <3>2. Len(Keep(s, S)) = n
            BY <1>3, <3>1, LenProperties
        <3> QED
            BY <1>3, <3>1, <3>2, AppendProperties
    <2>6. \A k \in 1..n + 1 : u[d[k]] = IF k = n + 1 THEN x ELSE s[e[k]]
        <3> TAKE k \in 1..n + 1
        <3>1. CASE k = n + 1
            BY <1>1, <3>1
        <3>2. CASE k # n + 1
            <4>1. k \in 1..n /\ e[k] \in 1..m
                BY <1>4, <1>5, <3>2
            <4> QED
                BY <1>1, <4>1, <3>2
        <3> QED
            BY <3>1, <3>2
    <2> HIDE DEF d
    <2> QED
        BY <1>6, <2>4, <2>5, <2>6 DEF u
<1>7. CASE x \notin S
    <2>1. Positions(u, S) = Positions(s, S)
        BY <1>5, <1>7
    <2>2. InOrder(e, n, u, S)
        BY <1>4, <2>1 DEF InOrder
    <2>3. Keep(u, S) = [k \in 1..n |-> u[e[k]]]
        BY <1>1, <2>2, KeepInOrder
    <2>4. \A k \in 1..n : u[e[k]] = s[e[k]]
        BY <1>1, <1>4, <1>5
    <2> QED
        BY <1>3, <1>7, <2>3, <2>4 DEF u
<1> QED
    BY <1>6, <1>7

\* The sequence without the element at position p.
Cut(s, p) == [n \in 1..Len(s) - 1 |-> IF n < p THEN s[n] ELSE s[n + 1]]

\* The lists without the element at position p of list k.
CutFrom(q, k, p) == [q EXCEPT ![k] = Cut(@, p)]

\* Keeping all elements but one cuts out its position.
LEMMA KeepAllButOne ==
    ASSUME NEW T, NEW s \in Seq(T), IsInjective(s), NEW p \in 1..Len(s)
    PROVE  Keep(s, Range(s) \ {s[p]}) = Cut(s, p)
<1> DEFINE S == Range(s) \ {s[p]}
           n == Len(s) - 1
           e == [k \in 1..n |-> IF k < p THEN k ELSE k + 1]
<1>1. Len(s) \in Nat /\ DOMAIN s = 1..Len(s) /\ n \in Nat
    BY LenProperties
<1>2. Positions(s, S) = 1..Len(s) \ {p}
    BY <1>1 DEF Positions, Range, IsInjective
<1>3. e \in [1..n -> Positions(s, S)]
    <2>1. \A k \in 1..n : e[k] \in 1..Len(s) \ {p}
        BY <1>1
    <2> HIDE DEF n
    <2> QED
        BY <1>2, <2>1
<1>4. \A i, j \in 1..n : i < j => e[i] < e[j]
    BY <1>1
<1>5. \A q \in Positions(s, S) : \E i \in 1..n : e[i] = q
    <2> SUFFICES ASSUME NEW q \in 1..Len(s) \ {p} PROVE \E i \in 1..n : e[i] = q
        BY <1>2
    <2>1. CASE q < p
        BY <1>1, <2>1
    <2>2. CASE q > p
        <3>1. q - 1 \in 1..n /\ e[q - 1] = q
            BY <1>1, <2>2
        <3> QED
            BY <3>1
    <2> QED
        BY <1>1, <2>1, <2>2
<1>6. Keep(s, S) = [k \in 1..n |-> s[e[k]]]
    <2>1. InOrder(e, n, s, S)
        BY <1>3, <1>4, <1>5 DEF InOrder
    <2> HIDE DEF S, n, e
    <2> QED
        BY <1>1, <2>1, KeepInOrder
<1> QED
    BY <1>6 DEF Cut


-----------------------------------------------------------------------------
(***************************************************************************)
(* The links that represent a list, and what thread_link and thread_unlink *)
(* do to them.                                                             *)
(***************************************************************************)
Memory ==
    [first : [Lists -> Link], last : [Lists -> Link], elements : [Lists -> Nat],
     next : [Thread -> Link], prev : [Thread -> Link]]

\* List k of m holds the threads of s, linked both ways.
ListOf(m, k, s) ==
    /\ m.elements[k] = Len(s)
    /\ m.first[k] = IF s = <<>> THEN NULL ELSE s[1]
    /\ m.last[k] = IF s = <<>> THEN NULL ELSE s[Len(s)]
    /\ \A i \in 1..Len(s) :
          /\ m.next[s[i]] = IF i = Len(s) THEN NULL ELSE s[i + 1]
          /\ m.prev[s[i]] = IF i = 1 THEN NULL ELSE s[i - 1]

Represents(m, q) ==
    /\ m \in Memory
    /\ q \in [Lists -> Seq(Thread)]
    /\ Exclusive(q)
    /\ \A k \in Lists : ListOf(m, k, q[k])

\* The fields thread_link writes.
AfterLink(n, m, k, t, i) ==
    /\ n.elements = [m.elements EXCEPT ![k] = @ + 1]
    /\ n.last = [m.last EXCEPT ![k] = t]
    /\ n.first = IF i = NULL THEN [m.first EXCEPT ![k] = t] ELSE m.first
    /\ n.next = IF i = NULL THEN [m.next EXCEPT ![t] = NULL]
                            ELSE [m.next EXCEPT ![t] = NULL, ![i] = t]
    /\ n.prev = [m.prev EXCEPT ![t] = i]

\* thread_link writes these fields and no other.
LEMMA LinkFields ==
    ASSUME NEW m \in Memory, NEW k \in Lists, NEW t \in Thread
    PROVE  /\ thread_link(m, k, t) \in Memory
           /\ AfterLink(thread_link(m, k, t), m, k, t, m.last[k])
<1> USE DEF AfterLink
<1> DEFINE n == thread_link(m, k, t)
           i == m.last[k]
<1>1. CASE i = NULL
    <2>1. n = [m EXCEPT !.elements[k] = @ + 1, !.first[k] = t, !.last[k] = t,
                       !.next[t] = NULL, !.prev[t] = NULL]
        BY <1>1 DEF thread_link
    <2>2. n.elements = [m.elements EXCEPT ![k] = @ + 1]
        BY <2>1 DEF Memory
    <2>3. n.last = [m.last EXCEPT ![k] = t]
        BY <2>1 DEF Memory
    <2>4. n.first = [m.first EXCEPT ![k] = t]
        BY <2>1 DEF Memory
    <2>5. n.next = [m.next EXCEPT ![t] = NULL]
        BY <2>1 DEF Memory
    <2>6. n.prev = [m.prev EXCEPT ![t] = NULL]
        BY <2>1 DEF Memory
    <2>7. n = [first |-> n.first, last |-> n.last, elements |-> n.elements,
               next |-> n.next, prev |-> n.prev]
        BY <2>1 DEF Memory
    <2>8. n \in Memory
        <3>1. i \in Link /\ NULL \in Link /\ t \in Link
            BY DEF Memory, Link
        <3>2. /\ m.first \in [Lists -> Link] /\ m.last \in [Lists -> Link]
              /\ m.elements \in [Lists -> Nat]
              /\ m.next \in [Thread -> Link] /\ m.prev \in [Thread -> Link]
            BY DEF Memory
        <3>3. n.first \in [Lists -> Link] /\ n.last \in [Lists -> Link]
            BY <3>1, <3>2, <2>3, <2>4
        <3>4. n.elements \in [Lists -> Nat]
            BY <3>2, <2>2
        <3>5. n.next \in [Thread -> Link]
            BY <3>1, <3>2, <2>5
        <3>6. n.prev \in [Thread -> Link]
            BY <3>1, <3>2, <2>6
        <3> QED
            BY <3>3, <3>4, <3>5, <3>6, <2>7 DEF Memory
    <2> QED
        BY <1>1, <2>2, <2>3, <2>4, <2>5, <2>6, <2>8
<1>2. CASE i # NULL
    <2>1. n = [m EXCEPT !.elements[k] = @ + 1, !.last[k] = t,
                       !.prev[t] = i, !.next[t] = NULL, !.next[i] = t]
        BY <1>2 DEF thread_link
    <2>2. n.elements = [m.elements EXCEPT ![k] = @ + 1]
        BY <2>1 DEF Memory
    <2>3. n.last = [m.last EXCEPT ![k] = t]
        BY <2>1 DEF Memory
    <2>4. n.first = m.first
        BY <2>1 DEF Memory
    <2>5. n.next = [m.next EXCEPT ![t] = NULL, ![i] = t]
        BY <2>1 DEF Memory
    <2>6. n.prev = [m.prev EXCEPT ![t] = i]
        BY <2>1 DEF Memory
    <2>7. n = [first |-> n.first, last |-> n.last, elements |-> n.elements,
               next |-> n.next, prev |-> n.prev]
        BY <2>1 DEF Memory
    <2>8. n \in Memory
        <3>1. i \in Link /\ NULL \in Link /\ t \in Link
            BY DEF Memory, Link
        <3>2. /\ m.first \in [Lists -> Link] /\ m.last \in [Lists -> Link]
              /\ m.elements \in [Lists -> Nat]
              /\ m.next \in [Thread -> Link] /\ m.prev \in [Thread -> Link]
            BY DEF Memory
        <3>3. n.first \in [Lists -> Link] /\ n.last \in [Lists -> Link]
            BY <3>1, <3>2, <2>3, <2>4
        <3>4. n.elements \in [Lists -> Nat]
            BY <3>2, <2>2
        <3>5. n.next \in [Thread -> Link]
            BY <3>1, <3>2, <2>5
        <3>6. n.prev \in [Thread -> Link]
            BY <3>1, <3>2, <2>6
        <3> QED
            BY <3>3, <3>4, <3>5, <3>6, <2>7 DEF Memory
    <2> QED
        BY <1>2, <2>2, <2>3, <2>4, <2>5, <2>6, <2>8
<1> QED
    BY <1>1, <1>2

\* The fields thread_unlink writes.
AfterUnlink(n, m, k, l, r) ==
    /\ n.elements = [m.elements EXCEPT ![k] = @ - 1]
    /\ n.first = IF l = NULL THEN [m.first EXCEPT ![k] = r] ELSE m.first
    /\ n.last = IF r = NULL THEN [m.last EXCEPT ![k] = l] ELSE m.last
    /\ n.next = IF l = NULL THEN m.next ELSE [m.next EXCEPT ![l] = r]
    /\ n.prev = IF r = NULL THEN m.prev ELSE [m.prev EXCEPT ![r] = l]

\* thread_unlink writes these fields and no other.
LEMMA UnlinkFields ==
    ASSUME NEW m \in Memory, NEW k \in Lists, NEW t \in Thread, m.elements[k] # 0
    PROVE  /\ thread_unlink(m, k, t) \in Memory
           /\ AfterUnlink(thread_unlink(m, k, t), m, k, m.prev[t], m.next[t])
<1> USE DEF AfterUnlink
<1> DEFINE n == thread_unlink(m, k, t)
           l == m.prev[t]
           r == m.next[t]
           Fields == /\ n = [first |-> n.first, last |-> n.last, elements |-> n.elements,
                             next |-> n.next, prev |-> n.prev]
                     /\ n.elements = [m.elements EXCEPT ![k] = @ - 1]
           Ends == /\ n.first = IF l = NULL THEN [m.first EXCEPT ![k] = r] ELSE m.first
                   /\ n.last = IF r = NULL THEN [m.last EXCEPT ![k] = l] ELSE m.last
           Links == /\ n.next = IF l = NULL THEN m.next ELSE [m.next EXCEPT ![l] = r]
                    /\ n.prev = IF r = NULL THEN m.prev ELSE [m.prev EXCEPT ![r] = l]
<1>1. ASSUME l = NULL /\ r = NULL
      PROVE  Fields /\ Ends /\ Links
    <2>1. n = [m EXCEPT !.elements[k] = @ - 1, !.first[k] = NULL, !.last[k] = NULL]
        BY <1>1 DEF thread_unlink, Memory
    <2>2. Fields
        <3>1. n = [first |-> n.first, last |-> n.last, elements |-> n.elements,
                   next |-> n.next, prev |-> n.prev]
            BY <2>1 DEF Memory
        <3> QED
            BY <3>1, <2>1 DEF Memory
    <2>3. n.first = [m.first EXCEPT ![k] = NULL]
        BY <2>1 DEF Memory
    <2>4. n.last = [m.last EXCEPT ![k] = NULL]
        BY <2>1 DEF Memory
    <2>5. n.next = m.next
        BY <2>1 DEF Memory
    <2>6. n.prev = m.prev
        BY <2>1 DEF Memory
    <2> QED
        BY <1>1, <2>2, <2>3, <2>4, <2>5, <2>6
<1>2. ASSUME l = NULL /\ r # NULL
      PROVE  Fields /\ Ends /\ Links
    <2>1. n = [m EXCEPT !.elements[k] = @ - 1, !.first[k] = r, !.prev[r] = NULL]
        BY <1>2 DEF thread_unlink, Memory
    <2>2. Fields
        <3>1. n = [first |-> n.first, last |-> n.last, elements |-> n.elements,
                   next |-> n.next, prev |-> n.prev]
            BY <2>1 DEF Memory
        <3> QED
            BY <3>1, <2>1 DEF Memory
    <2>3. n.first = [m.first EXCEPT ![k] = r]
        BY <2>1 DEF Memory
    <2>4. n.last = m.last
        BY <2>1 DEF Memory
    <2>5. n.next = m.next
        BY <2>1 DEF Memory
    <2>6. n.prev = [m.prev EXCEPT ![r] = NULL]
        BY <2>1 DEF Memory
    <2> QED
        BY <1>2, <2>2, <2>3, <2>4, <2>5, <2>6
<1>3. ASSUME l # NULL /\ r = NULL
      PROVE  Fields /\ Ends /\ Links
    <2>1. n = [m EXCEPT !.elements[k] = @ - 1, !.next[l] = NULL, !.last[k] = l]
        BY <1>3 DEF thread_unlink, Memory
    <2>2. Fields
        <3>1. n = [first |-> n.first, last |-> n.last, elements |-> n.elements,
                   next |-> n.next, prev |-> n.prev]
            BY <2>1 DEF Memory
        <3> QED
            BY <3>1, <2>1 DEF Memory
    <2>3. n.first = m.first
        BY <2>1 DEF Memory
    <2>4. n.last = [m.last EXCEPT ![k] = l]
        BY <2>1 DEF Memory
    <2>5. n.next = [m.next EXCEPT ![l] = NULL]
        BY <2>1 DEF Memory
    <2>6. n.prev = m.prev
        BY <2>1 DEF Memory
    <2> QED
        BY <1>3, <2>2, <2>3, <2>4, <2>5, <2>6
<1>4. ASSUME l # NULL /\ r # NULL
      PROVE  Fields /\ Ends /\ Links
    <2>1. n = [m EXCEPT !.elements[k] = @ - 1, !.next[l] = r, !.prev[r] = l]
        BY <1>4 DEF thread_unlink, Memory
    <2>2. Fields
        <3>1. n = [first |-> n.first, last |-> n.last, elements |-> n.elements,
                   next |-> n.next, prev |-> n.prev]
            BY <2>1 DEF Memory
        <3> QED
            BY <3>1, <2>1 DEF Memory
    <2>3. n.first = m.first
        BY <2>1 DEF Memory
    <2>4. n.last = m.last
        BY <2>1 DEF Memory
    <2>5. n.next = [m.next EXCEPT ![l] = r]
        BY <2>1 DEF Memory
    <2>6. n.prev = [m.prev EXCEPT ![r] = l]
        BY <2>1 DEF Memory
    <2> QED
        BY <1>4, <2>2, <2>3, <2>4, <2>5, <2>6
<1>5. Fields /\ Ends /\ Links
    BY <1>1, <1>2, <1>3, <1>4
<1>6. n \in Memory
    <2>1. /\ m.first \in [Lists -> Link] /\ m.last \in [Lists -> Link]
          /\ m.elements \in [Lists -> Nat] /\ m.elements[k] \in Nat
          /\ m.next \in [Thread -> Link] /\ m.prev \in [Thread -> Link]
        BY DEF Memory
    <2>2. l \in Link /\ r \in Link
        BY <2>1
    <2>3. n.first \in [Lists -> Link]
        BY <1>5, <2>1, <2>2
    <2>4. n.last \in [Lists -> Link]
        BY <1>5, <2>1, <2>2
    <2>5. n.elements \in [Lists -> Nat]
        BY <1>5, <2>1
    <2>6. n.next \in [Thread -> Link]
        <3>1. CASE l = NULL
            BY <3>1, <1>5, <2>1
        <3>2. CASE l # NULL
            <4>1. n.next = [m.next EXCEPT ![l] = r]
                BY <3>2, <1>5
            <4> QED
                BY <4>1, <2>1, <2>2
        <3> QED
            BY <3>1, <3>2
    <2>7. n.prev \in [Thread -> Link]
        <3>1. CASE r = NULL
            BY <3>1, <1>5, <2>1
        <3>2. CASE r # NULL
            <4>1. n.prev = [m.prev EXCEPT ![r] = l]
                BY <3>2, <1>5
            <4> QED
                BY <4>1, <2>1, <2>2
        <3> QED
            BY <3>1, <3>2
    <2> QED
        BY <1>5, <2>3, <2>4, <2>5, <2>6, <2>7 DEF Memory
<1> QED
    BY <1>5, <1>6

\* A list whose own fields and whose threads' links are untouched.
LEMMA SameList ==
    ASSUME NEW m, NEW n, NEW k, NEW s \in Seq(Thread), ListOf(m, k, s),
           n.elements[k] = m.elements[k], n.first[k] = m.first[k], n.last[k] = m.last[k],
           \A x \in Range(s) : n.next[x] = m.next[x] /\ n.prev[x] = m.prev[x]
    PROVE  ListOf(n, k, s)
<1>1. \A i \in 1..Len(s) : s[i] \in Range(s)
    BY LenProperties DEF Range
<1> QED
    BY <1>1 DEF ListOf

\* thread_link of a thread that is in no list appends it.
LEMMA LinkStep ==
    ASSUME NEW m, NEW q, Represents(m, q), NEW k \in Lists, NEW t \in Thread,
           t \notin Members(q, Lists)
    PROVE  Represents(thread_link(m, k, t), Linked(q, k, t))
<1> DEFINE n == thread_link(m, k, t)
           s == q[k]
           u == Append(s, t)
           i == m.last[k]
<1>1. m \in Memory /\ q \in [Lists -> Seq(Thread)] /\ Exclusive(q) /\ s \in Seq(Thread)
    BY DEF Represents
<1>2. /\ n \in Memory
      /\ n.elements = [m.elements EXCEPT ![k] = @ + 1]
      /\ n.last = [m.last EXCEPT ![k] = t]
      /\ n.first = IF i = NULL THEN [m.first EXCEPT ![k] = t] ELSE m.first
      /\ n.next = IF i = NULL THEN [m.next EXCEPT ![t] = NULL]
                              ELSE [m.next EXCEPT ![t] = NULL, ![i] = t]
      /\ n.prev = [m.prev EXCEPT ![t] = i]
    <2>1. n \in Memory /\ AfterLink(n, m, k, t, i)
        BY <1>1, LinkFields
    <2> HIDE DEF n, i
    <2> QED
        BY <2>1 DEF AfterLink
<1>3. /\ Linked(q, k, t) \in [Lists -> Seq(Thread)]
      /\ Exclusive(Linked(q, k, t))
    BY <1>1, LinkedProperties
<1>4. /\ Len(s) \in Nat /\ DOMAIN s = 1..Len(s)
      /\ \A x \in 1..Len(s) : s[x] \in Range(s) /\ s[x] \in Thread
    BY <1>1, LenProperties DEF Range
<1>5. \A j \in Lists : t \notin Range(q[j])
    BY DEF Members
<1>6. ListOf(m, k, s)
    BY DEF Represents
<1>7. NULL \notin Thread
    BY ThreadAssumption
<1>8. i = IF s = <<>> THEN NULL ELSE s[Len(s)]
    BY <1>6 DEF ListOf
<1>9. s # <<>> => Len(s) \in 1..Len(s)
    BY <1>1, <1>4, EmptySeq
<1>10. i = NULL \/ i \in Range(s)
    BY <1>4, <1>8, <1>9
<1>11. \A x \in Thread : x # t /\ x # i => n.next[x] = m.next[x] /\ n.prev[x] = m.prev[x]
    <2>1. m.next \in [Thread -> Link] /\ m.prev \in [Thread -> Link]
        BY <1>1 DEF Memory
    <2> HIDE DEF n, i
    <2> QED
        BY <1>2, <2>1
<1> HIDE DEF n
<1>12. ASSUME NEW j \in Lists, j # k
       PROVE  ListOf(n, j, q[j])
    <2>1. ListOf(m, j, q[j]) /\ q[j] \in Seq(Thread)
        BY <1>1 DEF Represents
    <2>2. \A x \in Range(q[j]) : x \in Thread /\ x # t /\ x # i
        <3>1. Range(q[j]) \subseteq Thread
            BY <2>1, LenProperties DEF Range
        <3>2. Range(q[j]) \cap Range(s) = {}
            BY <1>1, <1>12 DEF Exclusive
        <3> QED
            BY <3>1, <3>2, <1>5, <1>7, <1>10
    <2>3. n.elements[j] = m.elements[j] /\ n.first[j] = m.first[j] /\ n.last[j] = m.last[j]
        <3>1. m.elements \in [Lists -> Nat] /\ m.first \in [Lists -> Link] /\ m.last \in [Lists -> Link]
            BY <1>1 DEF Memory
        <3> QED
            BY <3>1, <1>2, <1>12
    <2> QED
        BY <2>1, <2>2, <2>3, <1>11, SameList
<1>13. ListOf(n, k, u)
    <2>1. /\ u \in Seq(Thread) /\ Len(u) = Len(s) + 1 /\ u[Len(s) + 1] = t
          /\ \A x \in 1..Len(s) : u[x] = s[x]
        BY <1>1, <1>4, AppendProperties
    <2>2. u # <<>>
        <3> HIDE DEF u
        <3> QED
            BY <2>1, <1>4, EmptySeq
    <2> HIDE DEF s, u, i
    <2>3. /\ m.next \in [Thread -> Link] /\ m.prev \in [Thread -> Link]
          /\ m.elements \in [Lists -> Nat] /\ m.first \in [Lists -> Link] /\ m.last \in [Lists -> Link]
        BY <1>1 DEF Memory
    <2>4. n.elements[k] = Len(u) /\ n.last[k] = u[Len(u)]
        BY <1>2, <1>6, <2>1, <2>3 DEF ListOf
    <2>5. n.first[k] = u[1]
        <3>1. CASE i = NULL
            <4>1. s = <<>>
                BY <3>1, <1>4, <1>7, <1>8, <1>9
            <4> QED
                BY <4>1, <3>1, <1>2, <2>1, <2>3
        <3>2. CASE i # NULL
            <4>1. s # <<>> /\ 1 \in 1..Len(s)
                BY <3>2, <1>4, <1>8, <1>9
            <4> QED
                BY <4>1, <3>2, <1>2, <1>6, <2>1 DEF ListOf
        <3> QED
            BY <3>1, <3>2
    <2>6. ASSUME NEW x \in 1..Len(s)
          PROVE  /\ n.next[u[x]] = u[x + 1]
                 /\ n.prev[u[x]] = IF x = 1 THEN NULL ELSE u[x - 1]
        <3>1. s[x] \in Thread /\ s[x] # t /\ u[x] = s[x] /\ s # <<>> /\ i = s[Len(s)] /\ i # NULL
            <4>1. s # <<>>
                BY <1>1, <1>4, EmptySeq DEF s
            <4> QED
                BY <4>1, <1>4, <1>5, <1>7, <1>8, <1>9, <2>1 DEF s
        <3>2. x # 1 => x - 1 \in 1..Len(s)
            BY <1>4
        <3>3. n.prev[u[x]] = IF x = 1 THEN NULL ELSE u[x - 1]
            <4>1. m.prev[s[x]] = IF x = 1 THEN NULL ELSE s[x - 1]
                BY <1>6 DEF ListOf
            <4>2. n.prev[s[x]] = m.prev[s[x]]
                BY <3>1, <1>2, <2>3
            <4> QED
                BY <4>1, <4>2, <3>1, <3>2, <2>1
        <3>4. CASE x = Len(s)
            BY <3>1, <3>3, <3>4, <1>2, <2>1, <2>3
        <3>5. CASE x # Len(s)
            <4>1. x + 1 \in 1..Len(s) /\ s[x] # s[Len(s)]
                <5>1. IsInjective(s)
                    BY <1>1 DEF Exclusive, s
                <5>2. x + 1 \in 1..Len(s) /\ Len(s) \in 1..Len(s)
                    <6>1. Len(s) \in Nat
                        BY <1>4
                    <6> QED
                        BY <6>1, <3>5
                <5> QED
                    BY <3>5, <5>1, <5>2, <1>4 DEF IsInjective
            <4>2. m.next[s[x]] = s[x + 1]
                BY <3>5, <1>6 DEF ListOf
            <4> QED
                BY <4>1, <4>2, <3>1, <3>3, <1>11, <2>1
        <3> QED
            BY <3>4, <3>5
    <2>7. n.next[t] = NULL /\ n.prev[t] = IF Len(u) = 1 THEN NULL ELSE u[Len(u) - 1]
        <3>1. n.next[t] = NULL
            <4>1. i # t
                BY <1>5, <1>7, <1>10 DEF s
            <4> QED
                BY <4>1, <1>2, <2>3
        <3>2. n.prev[t] = i
            BY <1>2, <2>3
        <3>3. CASE s = <<>>
            BY <3>1, <3>2, <3>3, <1>8, <2>1
        <3>4. CASE s # <<>>
            BY <3>1, <3>2, <3>4, <1>4, <1>8, <1>9, <2>1
        <3> QED
            BY <3>3, <3>4
    <2>8. ASSUME NEW x \in 1..Len(u)
          PROVE  /\ n.next[u[x]] = IF x = Len(u) THEN NULL ELSE u[x + 1]
                 /\ n.prev[u[x]] = IF x = 1 THEN NULL ELSE u[x - 1]
        <3>1. CASE x \in 1..Len(s)
            BY <3>1, <1>4, <2>1, <2>6
        <3>2. CASE x = Len(u)
            BY <3>2, <1>4, <2>1, <2>7
        <3> QED
            BY <3>1, <3>2, <1>4, <2>1
    <2> QED
        BY <2>2, <2>4, <2>5, <2>8 DEF ListOf
<1>14. \A j \in Lists : Linked(q, k, t)[j] = IF j = k THEN u ELSE q[j]
    BY <1>1 DEF Linked
<1>15. \A j \in Lists : ListOf(n, j, Linked(q, k, t)[j])
    BY <1>12, <1>13, <1>14
<1> QED
    BY <1>2, <1>3, <1>15 DEF Represents, n

\* thread_unlink of a thread of list k takes it out, wherever it is.
LEMMA UnlinkStep ==
    ASSUME NEW m, NEW q, Represents(m, q), NEW k \in Lists, NEW p \in 1..Len(q[k])
    PROVE  /\ q[k][p] \in Thread
           /\ Unlinked(q, k, q[k][p]) = CutFrom(q, k, p)
           /\ Represents(thread_unlink(m, k, q[k][p]), CutFrom(q, k, p))
<1> DEFINE s == q[k]
           t == s[p]
           n == thread_unlink(m, k, t)
           c == Cut(s, p)
           w == [q EXCEPT ![k] = c]
           l == m.prev[t]
           r == m.next[t]
<1>1. /\ m \in Memory /\ q \in [Lists -> Seq(Thread)] /\ Exclusive(q) /\ s \in Seq(Thread)
      /\ ListOf(m, k, s) /\ IsInjective(s)
    BY DEF Represents, Exclusive
<1>2. /\ Len(s) \in Nat /\ DOMAIN s = 1..Len(s) /\ p \in 1..Len(s)
      /\ \A x \in 1..Len(s) : s[x] \in Range(s) /\ s[x] \in Thread
      /\ \A x, y \in 1..Len(s) : s[x] = s[y] => x = y
    BY <1>1, LenProperties DEF Range, IsInjective
<1>3. t \in Thread /\ t \in Range(s)
    BY <1>2
<1>4. Unlinked(q, k, t) = w
    <2>1. Keep(s, Range(s) \ {s[p]}) = c
        BY <1>1, KeepAllButOne
    <2> QED
        BY <2>1, <1>1 DEF Unlinked
<1>5. w \in [Lists -> Seq(Thread)] /\ Exclusive(w)
    <2>1. /\ Unlinked(q, k, t) \in [Lists -> Seq(Thread)]
          /\ Exclusive(Unlinked(q, k, t))
        BY <1>1, <1>3, UnlinkedProperties
    <2> QED
        BY <1>4, <2>1
<1>6. /\ l = IF p = 1 THEN NULL ELSE s[p - 1]
      /\ r = IF p = Len(s) THEN NULL ELSE s[p + 1]
      /\ m.elements[k] = Len(s) /\ Len(s) # 0
    <2>1. ListOf(m, k, s) /\ p \in 1..Len(s) /\ Len(s) # 0
        BY <1>1, <1>2
    <2> HIDE DEF s
    <2> QED
        BY <2>1 DEF ListOf, t
<1>7. n \in Memory /\ AfterUnlink(n, m, k, l, r)
    BY <1>1, <1>3, <1>6, UnlinkFields
<1>8. /\ p # 1 => p - 1 \in 1..Len(s) /\ l = s[p - 1] /\ l \in Thread
      /\ p # Len(s) => p + 1 \in 1..Len(s) /\ r = s[p + 1] /\ r \in Thread
    BY <1>2, <1>6
<1>9. NULL \notin Thread
    BY ThreadAssumption
<1>10. (l = NULL <=> p = 1) /\ (r = NULL <=> p = Len(s))
    BY <1>6, <1>8, <1>9
<1>11. /\ m.next \in [Thread -> Link] /\ m.prev \in [Thread -> Link]
       /\ m.elements \in [Lists -> Nat] /\ m.first \in [Lists -> Link] /\ m.last \in [Lists -> Link]
    BY <1>1 DEF Memory
<1>12. s # <<>>
    BY <1>1, <1>6, EmptySeq
<1> HIDE DEF n, l, r
<1>13. ASSUME NEW j \in Lists, j # k
       PROVE  ListOf(n, j, w[j])
    <2>1. ListOf(m, j, q[j]) /\ q[j] \in Seq(Thread) /\ w[j] = q[j]
        BY <1>1, <1>13 DEF Represents
    <2>2. \A x \in Range(q[j]) : x \in Thread /\ x # l /\ x # r
        <3>1. Range(q[j]) \subseteq Thread
            BY <2>1, LenProperties DEF Range
        <3>2. Range(q[j]) \cap Range(s) = {}
            BY <1>1, <1>13 DEF Exclusive
        <3>3. (l = NULL \/ l \in Range(s)) /\ (r = NULL \/ r \in Range(s))
            BY <1>2, <1>8, <1>10
        <3> QED
            BY <3>1, <3>2, <3>3, <1>9
    <2>3. n.elements[j] = m.elements[j] /\ n.first[j] = m.first[j] /\ n.last[j] = m.last[j]
        BY <1>7, <1>11, <1>13 DEF AfterUnlink
    <2>4. \A x \in Range(q[j]) : n.next[x] = m.next[x] /\ n.prev[x] = m.prev[x]
        BY <1>7, <1>11, <2>2 DEF AfterUnlink
    <2> QED
        BY <2>1, <2>3, <2>4, SameList
<1> HIDE DEF t, w
<1>14. ListOf(n, k, c)
    <2>1. /\ c \in Seq(Thread) /\ Len(c) = Len(s) - 1
          /\ \A x \in 1..Len(c) : c[x] = IF x < p THEN s[x] ELSE s[x + 1]
        <3>1. w[k] = c
            BY <1>1 DEF w
        <3>2. c \in Seq(Thread)
            BY <1>5, <3>1
        <3>3. Len(s) - 1 \in Nat
            BY <1>2, <1>6
        <3>4. DOMAIN c = 1..Len(c) /\ DOMAIN c = 1..Len(s) - 1 /\ Len(c) \in Nat
            BY <3>2, LenProperties DEF Cut
        <3>5. Len(c) = Len(s) - 1
            <4> HIDE DEF c
            <4> QED
                BY <3>3, <3>4
        <3> QED
            BY <3>2, <3>5 DEF Cut
    <2>2. c = <<>> <=> Len(s) = 1
        <3>1. Len(c) \in Nat /\ (c = <<>> <=> Len(c) = 0)
            <4> HIDE DEF c
            <4> QED
                BY <2>1, LenProperties, EmptySeq
        <3> QED
            BY <2>1, <3>1, <1>2
    <2> HIDE DEF s, c
    <2>3. /\ Len(s) \in Nat /\ p \in 1..Len(s)
          /\ Len(c) = Len(s) - 1 /\ Len(c) \in Nat
        BY <1>2, <2>1
    <2>4. \A x \in 1..Len(c) : c[x] = IF x < p THEN s[x] ELSE s[x + 1]
        BY <2>1
    <2>5. n.elements[k] = Len(c)
        BY <1>6, <1>7, <1>11, <2>1 DEF AfterUnlink
    <2>6. n.first[k] = IF c = <<>> THEN NULL ELSE c[1]
        <3>1. n.first[k] = IF p = 1 THEN r ELSE s[1]
            <4>1. m.first[k] = s[1]
                BY <1>1, <1>12 DEF ListOf
            <4> QED
                BY <4>1, <1>7, <1>10, <1>11 DEF AfterUnlink
        <3>2. CASE Len(s) = 1
            <4>1. p = 1 /\ p = Len(s) /\ c = <<>>
                BY <3>2, <2>3, <2>2
            <4> QED
                BY <3>1, <4>1, <1>6
        <3>3. CASE Len(s) # 1
            <4>1. c # <<>> /\ 1 \in 1..Len(c)
                BY <3>3, <2>3, <2>2
            <4>2. c[1] = IF 1 < p THEN s[1] ELSE s[1 + 1]
                BY <4>1, <2>4
            <4>3. p = 1 => p # Len(s) /\ ~(1 < p) /\ r = s[1 + 1]
                BY <3>3, <2>3, <1>6
            <4>4. p # 1 => 1 < p
                BY <2>3
            <4> QED
                BY <3>1, <4>1, <4>2, <4>3, <4>4
        <3> QED
            BY <3>2, <3>3
    <2>7. n.last[k] = IF c = <<>> THEN NULL ELSE c[Len(c)]
        <3>1. n.last[k] = IF p = Len(s) THEN l ELSE s[Len(s)]
            <4>1. m.last[k] = s[Len(s)]
                BY <1>1, <1>12 DEF ListOf
            <4> QED
                BY <4>1, <1>7, <1>10, <1>11 DEF AfterUnlink
        <3>2. CASE Len(s) = 1
            <4>1. p = 1 /\ p = Len(s) /\ c = <<>>
                BY <3>2, <2>3, <2>2
            <4> QED
                BY <3>1, <4>1, <1>6
        <3>3. CASE Len(s) # 1
            <4>1. Len(c) \in 1..Len(c) /\ c # <<>>
                BY <3>3, <2>3, <2>2
            <4>2. c[Len(c)] = IF Len(c) < p THEN s[Len(c)] ELSE s[Len(c) + 1]
                BY <4>1, <2>4
            <4>3. /\ p = Len(s) => Len(c) < p /\ Len(c) = p - 1 /\ p # 1
                  /\ p # Len(s) => ~(Len(c) < p) /\ Len(c) + 1 = Len(s)
                BY <3>3, <2>3
            <4> QED
                BY <3>1, <4>1, <4>2, <4>3, <1>6
        <3> QED
            BY <3>2, <3>3
    <2>8. \A x \in 1..Len(s) : n.next[s[x]] = IF x = p - 1 THEN r ELSE m.next[s[x]]
        <3> SUFFICES ASSUME NEW x \in 1..Len(s)
                     PROVE  n.next[s[x]] = IF x = p - 1 THEN r ELSE m.next[s[x]]
            OBVIOUS
        <3>1. s[x] \in Thread
            BY <1>2
        <3>2. CASE p = 1
            <4>1. x # p - 1
                BY <3>2
            <4> QED
                BY <3>2, <4>1, <1>7, <1>10 DEF AfterUnlink
        <3>3. CASE p # 1
            <4>1. s[x] = l <=> x = p - 1
                BY <3>3, <1>2, <1>8
            <4>2. n.next = [m.next EXCEPT ![l] = r]
                BY <3>3, <1>7, <1>10 DEF AfterUnlink
            <4> QED
                BY <3>1, <4>1, <4>2, <1>11
        <3> QED
            BY <3>2, <3>3
    <2>9. \A x \in 1..Len(s) : n.prev[s[x]] = IF x = p + 1 THEN l ELSE m.prev[s[x]]
        <3> SUFFICES ASSUME NEW x \in 1..Len(s)
                     PROVE  n.prev[s[x]] = IF x = p + 1 THEN l ELSE m.prev[s[x]]
            OBVIOUS
        <3>1. s[x] \in Thread
            BY <1>2
        <3>2. CASE p = Len(s)
            <4>1. x # p + 1
                BY <3>2, <1>2
            <4> QED
                BY <3>2, <4>1, <1>7, <1>10 DEF AfterUnlink
        <3>3. CASE p # Len(s)
            <4>1. s[x] = r <=> x = p + 1
                BY <3>3, <1>2, <1>8
            <4>2. n.prev = [m.prev EXCEPT ![r] = l]
                BY <3>3, <1>7, <1>10 DEF AfterUnlink
            <4> QED
                BY <3>1, <4>1, <4>2, <1>11
        <3> QED
            BY <3>2, <3>3
    <2>10. \A x \in 1..Len(s) :
             /\ m.next[s[x]] = IF x = Len(s) THEN NULL ELSE s[x + 1]
             /\ m.prev[s[x]] = IF x = 1 THEN NULL ELSE s[x - 1]
        BY <1>1 DEF ListOf
    <2>11. ASSUME NEW x \in 1..Len(c)
          PROVE  n.next[c[x]] = IF x = Len(c) THEN NULL ELSE c[x + 1]
        <3>1. CASE x < p - 1
            <4>1. x \in 1..Len(s) /\ x # Len(s) /\ x # p - 1 /\ x < p
                BY <3>1, <2>3
            <4>2. x # Len(c) /\ x + 1 \in 1..Len(c) /\ x + 1 < p
                BY <3>1, <2>3
            <4>3. n.next[s[x]] = s[x + 1]
                BY <4>1, <2>8, <2>10
            <4>4. c[x] = s[x] /\ c[x + 1] = s[x + 1]
                BY <4>1, <4>2, <2>4
            <4> QED
                BY <4>2, <4>3, <4>4
        <3>2. CASE x = p - 1
            <4>1. x \in 1..Len(s) /\ c[x] = s[x] /\ n.next[s[x]] = r
                BY <3>2, <2>3, <2>4, <2>8
            <4>2. x = Len(c) <=> p = Len(s)
                BY <3>2, <2>3, <2>4
            <4>3. x # Len(c) => c[x + 1] = s[p + 1]
                <5>1. x # Len(c) => x + 1 \in 1..Len(c) /\ ~(x + 1 < p) /\ x + 1 = p
                    BY <3>2, <2>3
                <5> QED
                    BY <5>1, <2>4
            <4> QED
                BY <4>1, <4>2, <4>3, <1>6
        <3>3. CASE x >= p
            <4>1. x + 1 \in 1..Len(s) /\ c[x] = s[x + 1] /\ x + 1 # p - 1
                BY <3>3, <2>3, <2>4
            <4>2. n.next[s[x + 1]] = IF x + 1 = Len(s) THEN NULL ELSE s[x + 1 + 1]
                BY <4>1, <2>8, <2>10
            <4>3. x # Len(c) => x + 1 \in 1..Len(c) /\ ~(x + 1 < p)
                BY <3>3, <2>3, <2>4
            <4>4. x # Len(c) => c[x + 1] = s[x + 1 + 1]
                BY <4>3, <2>4
            <4>5. x = Len(c) <=> x + 1 = Len(s)
                BY <2>3, <2>4
            <4> QED
                BY <4>1, <4>2, <4>4, <4>5
        <3> QED
            BY <3>1, <3>2, <3>3, <2>3
    <2>12. ASSUME NEW x \in 1..Len(c)
           PROVE  n.prev[c[x]] = IF x = 1 THEN NULL ELSE c[x - 1]
        <3>1. CASE x < p
            <4>1. x \in 1..Len(s) /\ c[x] = s[x] /\ x # p + 1
                BY <3>1, <2>3, <2>4
            <4>2. n.prev[s[x]] = IF x = 1 THEN NULL ELSE s[x - 1]
                BY <4>1, <2>9, <2>10
            <4>3. x # 1 => c[x - 1] = s[x - 1]
                BY <3>1, <2>3, <2>4
            <4> QED
                BY <4>1, <4>2, <4>3
        <3>2. CASE x = p
            <4>1. x + 1 \in 1..Len(s) /\ c[x] = s[x + 1] /\ n.prev[s[x + 1]] = l
                BY <3>2, <2>3, <2>4, <2>9
            <4>2. x # 1 => c[x - 1] = s[p - 1]
                BY <3>2, <2>3, <2>4
            <4> QED
                BY <3>2, <4>1, <4>2, <1>6
        <3>3. CASE x > p
            <4>1. x + 1 \in 1..Len(s) /\ c[x] = s[x + 1] /\ x + 1 # p + 1 /\ x + 1 # 1
                BY <3>3, <2>3, <2>4
            <4>2. n.prev[s[x + 1]] = s[x + 1 - 1]
                BY <4>1, <2>9, <2>10
            <4>3. x - 1 \in 1..Len(c) /\ ~(x - 1 < p) /\ x # 1
                BY <3>3, <2>3, <2>4
            <4>4. c[x - 1] = s[x - 1 + 1]
                BY <4>3, <2>4
            <4>5. x + 1 - 1 = x - 1 + 1
                OBVIOUS
            <4> QED
                BY <4>1, <4>2, <4>3, <4>4, <4>5
        <3> QED
            BY <3>1, <3>2, <3>3, <2>3
    <2> QED
        BY <2>5, <2>6, <2>7, <2>11, <2>12 DEF ListOf
<1>15. ListOf(n, k, w[k])
    BY <1>1, <1>14 DEF w
<1>16. Represents(n, w)
    BY <1>5, <1>7, <1>13, <1>15 DEF Represents
<1> QED
    BY <1>3, <1>4, <1>16 DEF n, t, w, CutFrom

-----------------------------------------------------------------------------
(***************************************************************************)
(* The memory determines the lists it represents: they are what is met     *)
(* along the links, in both directions.                                    *)
(***************************************************************************)
LEMMA ListLength ==
    ASSUME NEW s \in Seq(Thread), IsInjective(s)
    PROVE  Len(s) <= Cardinality(Thread)
<1>1. IsFiniteSet(Thread) /\ Range(s) \subseteq Thread
    BY ThreadAssumption, LenProperties DEF Range
<1>2. Cardinality(Range(s)) <= Cardinality(Thread)
    BY <1>1, FS_Subset
<1> QED
    BY <1>2, InjectiveLength

\* From the first on along nextLink.
LEMMA ForwardAlong ==
    ASSUME NEW m, NEW q, Represents(m, q), NEW k \in Lists
    PROVE  \A n \in 1..Len(q[k]) : Follow(m.first[k], m.next)[n] = q[k][n]
<1> DEFINE s == q[k]
<1>1. s \in Seq(Thread) /\ IsInjective(s) /\ ListOf(m, k, s)
    BY DEF Represents, Exclusive
<1> HIDE DEF s
<1>2. /\ s = <<>> => m.first[k] = NULL
      /\ s # <<>> => m.first[k] = s[1]
      /\ \A i \in 1..Len(s) : m.next[s[i]] = IF i = Len(s) THEN NULL ELSE s[i + 1]
    BY <1>1 DEF ListOf
<1>3. \A n \in 1..Cardinality(Thread) :
         Follow(m.first[k], m.next)[n] = IF n <= Len(s) THEN s[n] ELSE NULL
    BY <1>1, <1>2, FollowAlong
<1>4. Len(s) \in Nat /\ Cardinality(Thread) \in Nat /\ Len(s) <= Cardinality(Thread)
    BY <1>1, ListLength, ThreadAssumption, FS_CardinalityType, LenProperties
<1> QED
    BY <1>3, <1>4 DEF s

\* And from the last back along prevLink.
LEMMA BackwardAlong ==
    ASSUME NEW m, NEW q, Represents(m, q), NEW k \in Lists
    PROVE  \A n \in 1..Len(q[k]) :
              Follow(m.last[k], m.prev)[n] = q[k][Len(q[k]) + 1 - n]
<1> DEFINE s == q[k]
           b == [i \in 1..Len(s) |-> s[Len(s) + 1 - i]]
<1>1. s \in Seq(Thread) /\ IsInjective(s) /\ ListOf(m, k, s)
    BY DEF Represents, Exclusive
<1>2. /\ Len(s) \in Nat /\ DOMAIN s = 1..Len(s)
      /\ \A i \in 1..Len(s) : s[i] \in Thread /\ Len(s) + 1 - i \in 1..Len(s)
    BY <1>1, LenProperties
<1>3. b \in Seq(Thread) /\ Len(b) = Len(s)
    <2>1. b \in [1..Len(s) -> Thread]
        BY <1>2
    <2>2. b \in Seq(Thread)
        BY <2>1, <1>2
    <2>3. DOMAIN b = 1..Len(s) /\ DOMAIN b = 1..Len(b) /\ Len(b) \in Nat
        BY <2>2, LenProperties
    <2> HIDE DEF b
    <2> QED
        BY <2>2, <2>3, <1>2
<1>4. \A i \in 1..Len(s) : b[i] = s[Len(s) + 1 - i]
    OBVIOUS
<1> HIDE DEF s, b
<1>5. (s = <<>> <=> Len(s) = 0) /\ (b = <<>> <=> Len(s) = 0)
    BY <1>1, <1>2, <1>3, EmptySeq
<1>6. b = <<>> => m.last[k] = NULL
    BY <1>1, <1>5 DEF ListOf
<1>7. b # <<>> => m.last[k] = b[1]
    <2>1. b # <<>> => 1 \in 1..Len(s) /\ Len(s) + 1 - 1 = Len(s)
        BY <1>2, <1>5
    <2> QED
        BY <2>1, <1>1, <1>4, <1>5 DEF ListOf
<1>8. ASSUME NEW i \in 1..Len(b)
      PROVE  m.prev[b[i]] = IF i = Len(b) THEN NULL ELSE b[i + 1]
    <2>1. /\ Len(s) + 1 - i \in 1..Len(s) /\ b[i] = s[Len(s) + 1 - i]
          /\ Len(s) + 1 - i = 1 <=> i = Len(b)
          /\ i # Len(b) => i + 1 \in 1..Len(s) /\ Len(s) + 1 - (i + 1) = Len(s) + 1 - i - 1
        <3>1. Len(s) \in Nat /\ Len(b) = Len(s) /\ i \in 1..Len(s)
            BY <1>2, <1>3
        <3>2. b[i] = s[Len(s) + 1 - i]
            BY <3>1, <1>4
        <3> QED
            BY <3>1, <3>2
    <2>2. m.prev[b[i]] = IF i = Len(b) THEN NULL ELSE s[Len(s) + 1 - i - 1]
        BY <2>1, <1>1 DEF ListOf
    <2>3. i # Len(b) => b[i + 1] = s[Len(s) + 1 - i - 1]
        BY <2>1, <1>4
    <2> QED
        BY <2>2, <2>3
<1>9. \A n \in 1..Cardinality(Thread) :
         Follow(m.last[k], m.prev)[n] = IF n <= Len(b) THEN b[n] ELSE NULL
    BY <1>3, <1>6, <1>7, <1>8, FollowAlong
<1>10. Cardinality(Thread) \in Nat /\ Len(s) <= Cardinality(Thread)
    BY <1>1, ListLength, ThreadAssumption, FS_CardinalityType
<1> QED
    BY <1>2, <1>3, <1>4, <1>9, <1>10 DEF s

\* The queues in memory m.
QueuesIn(m) ==
    [k \in Lists |->
        LET f == Follow(m.first[k], m.next) IN [n \in 1..m.elements[k] |-> f[n]]]

\* Following the links finds the lists that a memory represents, and no other.
LEMMA QueuesFound ==
    ASSUME NEW m, NEW q, Represents(m, q)
    PROVE  q = QueuesIn(m)
<1>1. q \in [Lists -> Seq(Thread)]
    BY DEF Represents
<1>2. ASSUME NEW k \in Lists
      PROVE  QueuesIn(m)[k] = q[k]
    <2> DEFINE f == Follow(m.first[k], m.next)
    <2>1. m.elements[k] = Len(q[k])
        BY DEF Represents, ListOf
    <2>2. QueuesIn(m)[k] = [n \in 1..Len(q[k]) |-> f[n]]
        BY <2>1 DEF QueuesIn
    <2>3. \A n \in 1..Len(q[k]) : f[n] = q[k][n]
        BY ForwardAlong
    <2> HIDE DEF f
    <2>4. q[k] = [n \in 1..Len(q[k]) |-> q[k][n]]
        BY <1>1, LenProperties
    <2> QED
        BY <2>2, <2>3, <2>4
<1>3. QueuesIn(m) = [k \in Lists |-> QueuesIn(m)[k]]
    BY DEF QueuesIn
<1> HIDE DEF QueuesIn
<1> QED
    BY <1>1, <1>2, <1>3

-----------------------------------------------------------------------------
(***************************************************************************)
(* The walk.  After n threads the ones it has met and does not select are  *)
(* still in the list, before those it has not met, and the others are at   *)
(* the end of the other list.                                              *)
(***************************************************************************)
\* The thread at position i, or the null pointer after the last.
At(s, i) == IF i \in 1..Len(s) THEN s[i] ELSE NULL

\* The walk over the first n threads of a list leaves these, and the rest.
Met(s, n, S) == Keep(SubSeq(s, 1, n), S)

Rest(s, n) == SubSeq(s, n + 1, Len(s))

Walked(q, j, k, M, n) ==
    [q EXCEPT ![j] = Met(q[j], n, Thread \ M) \o Rest(q[j], n),
              ![k] = q[k] \o Met(q[j], n, M)]

\* What a walk of the whole list leaves, in the words of ThreadQueues.
WalkedAll(q, j, k, M) == [q EXCEPT ![j] = Keep(@, Thread \ M), ![k] = @ \o Keep(q[j], M)]

\* What the walk has met grows by the next thread, if it is in S.
LEMMA MetNext ==
    ASSUME NEW s \in Seq(Thread), NEW n \in Nat, n < Len(s), NEW S
    PROVE  /\ Met(s, n, S) \in Seq(Thread)
           /\ Met(s, n + 1, S) = IF s[n + 1] \in S THEN Append(Met(s, n, S), s[n + 1])
                                                  ELSE Met(s, n, S)
           /\ Rest(s, n + 1) \in Seq(Thread)
           /\ Rest(s, n) = <<s[n + 1]>> \o Rest(s, n + 1)
<1> DEFINE u == SubSeq(s, 1, n)
           x == s[n + 1]
<1>1. /\ Len(s) \in Nat /\ n + 1 \in 1..Len(s) /\ \A i \in 1..Len(s) : s[i] \in Thread
    BY LenProperties
<1>2. u \in Seq(Thread)
    <2>1. \A i \in 1..n : s[i] \in Thread
        BY <1>1
    <2> QED
        BY <2>1, SubSeqProperties
<1>3. SubSeq(s, 1, n + 1) = Append(u, x)
    <2>1. SubSeq(s, 1, n + 1) = SubSeq(s, 1, n + 1 - 1) \o <<s[n + 1]>>
        <3>1. 1 \in 1..Len(s) /\ n + 1 \in 1..Len(s)
            BY <1>1
        <3> QED
            BY <3>1, SubSeqRecursiveSecond
    <2>2. n + 1 - 1 = n
        OBVIOUS
    <2>3. Append(u, x) = u \o <<x>>
        BY <1>1, <1>2, AppendIsConcat
    <2> QED
        BY <2>1, <2>2, <2>3
<1>4. Rest(s, n + 1) \in Seq(Thread)
    <2>1. \A i \in n + 1 + 1..Len(s) : s[i] \in Thread
        BY <1>1
    <2> QED
        BY <1>1, <2>1, SubSeqProperties DEF Rest
<1>5. Rest(s, n) = <<s[n + 1]>> \o Rest(s, n + 1)
    <2>1. Len(s) \in n + 1..Len(s)
        BY <1>1
    <2> QED
        BY <1>1, <2>1, SubSeqRecursiveFirst DEF Rest
<1> HIDE DEF u, x
<1>6. /\ Keep(u, S) \in Seq(Thread)
      /\ Keep(Append(u, x), S) = IF x \in S THEN Append(Keep(u, S), x) ELSE Keep(u, S)
    <2>1. x \in Thread
        BY <1>1 DEF x
    <2> QED
        BY <1>2, <2>1, KeepProperties, KeepAppend
<1> QED
    BY <1>3, <1>4, <1>5, <1>6 DEF Met, u, x

\* Before the first visit a walk has done nothing.
LEMMA MetNothing ==
    ASSUME NEW q \in [Lists -> Seq(Thread)], NEW j \in Lists, NEW k \in Lists, j # k, NEW M
    PROVE  Walked(q, j, k, M, 0) = q
<1> DEFINE s == q[j]
<1>1. s \in Seq(Thread) /\ q[k] \in Seq(Thread)
    OBVIOUS
<1>2. SubSeq(s, 1, 0) = <<>>
    BY SubSeqEmpty
<1>3. SubSeq(s, 0 + 1, Len(s)) = s
    BY <1>1, SubSeqFull
<1>4. \A S : Keep(<<>>, S) = <<>>
    <2> SUFFICES ASSUME NEW S PROVE Keep(<<>>, S) = <<>>
        OBVIOUS
    <2>1. Positions(<<>>, S) = {}
        BY DEF Positions
    <2>2. Cardinality(Positions(<<>>, S)) = 0
        BY <2>1, FS_EmptySet
    <2>3. Keep(<<>>, S) \in Seq(Thread) /\ DOMAIN Keep(<<>>, S) = 1..0
        BY <2>2, KeepProperties DEF Keep
    <2>4. Len(Keep(<<>>, S)) = 0
        BY <2>3, LenProperties
    <2> QED
        BY <2>3, <2>4, EmptySeq
<1>5. \A S : Met(s, 0, S) = <<>>
    BY <1>2, <1>4 DEF Met
<1>6. <<>> \o s = s /\ q[k] \o <<>> = q[k]
    BY <1>1, ConcatEmptySeq
<1>7. Met(s, 0, Thread \ M) \o Rest(s, 0) = s /\ q[k] \o Met(s, 0, M) = q[k]
    BY <1>3, <1>5, <1>6 DEF Rest
<1> QED
    BY <1>7 DEF Walked

\* After the last visit it has done the move.
LEMMA MetAll ==
    ASSUME NEW q \in [Lists -> Seq(Thread)], NEW j \in Lists, NEW k \in Lists, j # k, NEW M
    PROVE  Walked(q, j, k, M, Len(q[j])) = WalkedAll(q, j, k, M)
<1> DEFINE s == q[j]
<1>1. s \in Seq(Thread) /\ Len(s) \in Nat
    BY LenProperties
<1>2. SubSeq(s, 1, Len(s)) = s
    BY <1>1, SubSeqFull
<1>3. SubSeq(s, Len(s) + 1, Len(s)) = <<>>
    BY <1>1, SubSeqEmpty
<1>4. Keep(s, Thread \ M) \in Seq(Thread)
    BY <1>1, KeepProperties
<1>5. Keep(s, Thread \ M) \o <<>> = Keep(s, Thread \ M)
    BY <1>4, ConcatEmptySeq
<1> QED
    BY <1>2, <1>3, <1>5 DEF Walked, Met, Rest, WalkedAll

\* nextLink of the next thread, read before or after that thread's
\* predecessors are relinked: the one after it.
LEMMA NextAt ==
    ASSUME NEW m, NEW j, NEW s \in Seq(Thread), NEW A \in Seq(Thread),
           NEW n \in Nat, n <= Len(s), ListOf(m, j, A \o Rest(s, n))
    PROVE  NextOf(m, At(s, n + 1)) = At(s, n + 2)
<1> DEFINE u == A \o Rest(s, n)
           p == Len(A) + 1
<1>1. /\ Len(s) \in Nat /\ Len(A) \in Nat /\ \A i \in 1..Len(s) : s[i] \in Thread
      /\ NULL \notin Thread
    BY LenProperties, ThreadAssumption
<1>2. CASE n = Len(s)
    BY <1>1, <1>2 DEF At, NextOf
<1>3. CASE n # Len(s)
    <2>1. /\ Rest(s, n) \in Seq(Thread) /\ Len(Rest(s, n)) = Len(s) - n
          /\ \A i \in 1..Len(s) - n : Rest(s, n)[i] = s[n + i]
        <3>1. \A i \in n + 1..Len(s) : s[i] \in Thread
            BY <1>1
        <3>2. /\ Rest(s, n) \in Seq(Thread)
              /\ Len(Rest(s, n)) = IF n + 1 <= Len(s) THEN Len(s) - (n + 1) + 1 ELSE 0
              /\ \A i \in 1..Len(s) - (n + 1) + 1 : Rest(s, n)[i] = s[n + 1 + i - 1]
            BY <1>1, <3>1, SubSeqProperties DEF Rest
        <3>3. n + 1 <= Len(s) /\ Len(s) - (n + 1) + 1 = Len(s) - n
            BY <1>1, <1>3
        <3>4. \A i \in 1..Len(s) - n : n + 1 + i - 1 = n + i
            BY <1>1
        <3> QED
            BY <3>2, <3>3, <3>4
    <2>2. /\ Len(u) = Len(A) + (Len(s) - n)
          /\ \A i \in 1..Len(u) : u[i] = IF i <= Len(A) THEN A[i] ELSE Rest(s, n)[i - Len(A)]
        <3>1. PICK r \in Seq(Thread) : r = Rest(s, n)
            BY <2>1
        <3>2. /\ Len(A \o r) = Len(A) + Len(r)
              /\ \A i \in 1..Len(A) + Len(r) :
                    (A \o r)[i] = IF i <= Len(A) THEN A[i] ELSE r[i - Len(A)]
            BY ConcatProperties
        <3> QED
            BY <2>1, <3>1, <3>2
    <2> HIDE DEF u
    <2>3. Len(u) = Len(A) + (Len(s) - n)
        BY <2>2
    <2>4. p \in 1..Len(u) /\ u[p] = s[n + 1]
        <3>1. p \in 1..Len(u) /\ ~(p <= Len(A)) /\ p - Len(A) = 1 /\ 1 \in 1..Len(s) - n
            BY <1>1, <1>3, <2>2
        <3> QED
            BY <3>1, <2>1, <2>2
    <2>5. p # Len(u) => u[p + 1] = s[n + 2]
        <3>1. ASSUME p # Len(u)
              PROVE  /\ p + 1 \in 1..Len(u) /\ ~(p + 1 <= Len(A)) /\ p + 1 - Len(A) = 2
                     /\ 2 \in 1..Len(s) - n
            <4>1. Len(s) \in Nat /\ Len(A) \in Nat
                BY <1>1
            <4>2. 2 <= Len(s) - n
                BY <4>1, <1>3, <2>3, <3>1
            <4>3. p + 1 \in 1..Len(u) /\ ~(p + 1 <= Len(A)) /\ p + 1 - Len(A) = 2
                BY <4>1, <4>2, <2>3
            <4> QED
                BY <4>1, <4>2, <4>3
        <3> QED
            BY <3>1, <2>1, <2>2
    <2>6. p = Len(u) <=> n + 1 = Len(s)
        <3>1. Len(s) \in Nat /\ Len(A) \in Nat
            BY <1>1
        <3> QED
            BY <3>1, <2>3
    <2>7. m.next[u[p]] = IF p = Len(u) THEN NULL ELSE u[p + 1]
        BY <2>4 DEF ListOf, u
    <2>8. n + 1 \in 1..Len(s) /\ (n + 2 \in 1..Len(s) <=> n + 1 # Len(s))
        BY <1>1, <1>3
    <2> QED
        BY <1>1, <2>4, <2>5, <2>6, <2>7, <2>8 DEF At, NextOf
<1> QED
    BY <1>2, <1>3

\* The walk is somewhere after the first n threads of list j of q; n stays at
\* the length of the list once the walk has ended.
WalkedTo(w, q, j, k, M, n) ==
    /\ Represents(w.m, Walked(q, j, k, M, n))
    /\ w.t = At(q[j], n + 1)
    /\ w.tn = At(q[j], n + 2)

\* Where the walk begins, and the thread it has read ahead.
LEMMA WalkStart ==
    ASSUME NEW m, NEW q, Represents(m, q), NEW j \in Lists, NEW k \in Lists, j # k, NEW M
    PROVE  WalkedTo([m |-> m, t |-> m.first[j], tn |-> NextOf(m, m.first[j])], q, j, k, M, 0)
<1> DEFINE s == q[j]
<1>1. q \in [Lists -> Seq(Thread)] /\ s \in Seq(Thread) /\ ListOf(m, j, s)
    BY DEF Represents
<1>2. Walked(q, j, k, M, 0) = q
    BY <1>1, MetNothing
<1>3. m.first[j] = At(s, 1)
    <2>1. s = <<>> <=> Len(s) = 0
        BY <1>1, EmptySeq
    <2>2. Len(s) \in Nat
        BY <1>1, LenProperties
    <2> HIDE DEF s
    <2> QED
        BY <1>1, <2>1, <2>2 DEF ListOf, At
<1>4. NextOf(m, At(s, 0 + 1)) = At(s, 0 + 2)
    <2>1. q[j] = <<>> \o Rest(s, 0)
        BY <1>1, SubSeqFull, ConcatEmptySeq DEF Rest
    <2> DEFINE A == <<>>
    <2>2. A \in Seq(Thread) /\ 0 <= Len(s)
        BY <1>1, LenProperties
    <2>3. PICK z \in Nat : z = 0
        OBVIOUS
    <2>4. z <= Len(s) /\ ListOf(m, j, A \o Rest(s, z))
        BY <1>1, <2>1, <2>2, <2>3
    <2> HIDE DEF s, A
    <2>5. NextOf(m, At(s, z + 1)) = At(s, z + 2)
        BY <1>1, <2>2, <2>4, NextAt
    <2> QED
        BY <2>3, <2>5
<1> HIDE DEF s
<1>5. 0 + 1 = 1 /\ 0 + 2 = 2
    OBVIOUS
<1> QED
    BY <1>2, <1>3, <1>4, <1>5 DEF WalkedTo, s

\* Append and concatenation associate.
LEMMA AppendConcat ==
    ASSUME NEW a \in Seq(Thread), NEW b \in Seq(Thread), NEW x \in Thread
    PROVE  /\ Append(a, x) \o b = a \o (<<x>> \o b)
           /\ Append(a \o b, x) = a \o Append(b, x)
<1>1. <<x>> \in Seq(Thread)
    OBVIOUS
<1>2. PICK u \in Seq(Thread) : u = <<x>>
    BY <1>1
<1>3. a \o b \in Seq(Thread)
    BY ConcatProperties
<1>4. Append(a, x) = a \o u /\ Append(b, x) = b \o u /\ Append(a \o b, x) = (a \o b) \o u
    BY <1>2, <1>3, AppendIsConcat
<1>5. (a \o u) \o b = a \o (u \o b)
    BY ConcatAssociative
<1>6. (a \o b) \o u = a \o (b \o u)
    BY ConcatAssociative
<1> QED
    BY <1>2, <1>4, <1>5, <1>6

\* The sequence without the element between a and b.
LEMMA CutBetween ==
    ASSUME NEW A \in Seq(Thread), NEW B \in Seq(Thread), NEW t \in Thread
    PROVE  \E p \in 1..Len(A \o (<<t>> \o B)) :
              /\ (A \o (<<t>> \o B))[p] = t
              /\ Cut(A \o (<<t>> \o B), p) = A \o B
<1>0. PICK u, p : u = A \o (<<t>> \o B) /\ p = Len(A) + 1
    OBVIOUS
<1>1. Len(A) \in Nat /\ Len(B) \in Nat
    BY LenProperties
<1>2. PICK r : r = <<t>> \o B
    OBVIOUS
<1>3. /\ r \in Seq(Thread) /\ Len(r) = 1 + Len(B)
      /\ \A i \in 1..1 + Len(B) : r[i] = IF i <= 1 THEN t ELSE B[i - 1]
    <2>1. PICK x : x = <<t>>
        OBVIOUS
    <2>2. x \in Seq(Thread) /\ Len(x) = 1 /\ x[1] = t
        BY <2>1
    <2>3. /\ x \o B \in Seq(Thread) /\ Len(x \o B) = Len(x) + Len(B)
          /\ \A i \in 1..Len(x) + Len(B) : (x \o B)[i] = IF i <= Len(x) THEN x[i] ELSE B[i - Len(x)]
        BY <2>2, ConcatProperties
    <2>4. \A i \in 1..1 + Len(B) : i <= 1 => i = 1
        BY <1>1
    <2> QED
        BY <1>2, <2>1, <2>2, <2>3, <2>4
<1>4. /\ A \o r \in Seq(Thread) /\ Len(A \o r) = Len(A) + Len(r)
      /\ \A i \in 1..Len(A) + Len(r) : (A \o r)[i] = IF i <= Len(A) THEN A[i] ELSE r[i - Len(A)]
    BY <1>3, ConcatProperties
<1>5. u = A \o r
    BY <1>0, <1>2
<1>6. p \in 1..Len(u) /\ Len(u) = Len(A) + 1 + Len(B) /\ u[p] = t
    <2>1. /\ p \in 1..Len(A) + Len(r) /\ ~(p <= Len(A)) /\ p - Len(A) = 1 /\ 1 \in 1..1 + Len(B)
          /\ Len(A) + Len(r) = Len(A) + 1 + Len(B)
        BY <1>0, <1>1, <1>3
    <2> QED
        BY <2>1, <1>3, <1>4, <1>5
<1>7. /\ A \o B \in Seq(Thread) /\ Len(A \o B) = Len(A) + Len(B)
      /\ \A i \in 1..Len(A) + Len(B) : (A \o B)[i] = IF i <= Len(A) THEN A[i] ELSE B[i - Len(A)]
    BY ConcatProperties
<1>8. ASSUME NEW i \in 1..Len(A) + Len(B)
      PROVE  (IF i < p THEN u[i] ELSE u[i + 1]) = (A \o B)[i]
    <2>1. CASE i < p
        <3>1. i <= Len(A) /\ i \in 1..Len(A) + Len(r)
            BY <1>0, <1>1, <1>3, <2>1
        <3> QED
            BY <2>1, <3>1, <1>4, <1>5, <1>7
    <2>2. CASE ~(i < p)
        <3>1. /\ i + 1 \in 1..Len(A) + Len(r) /\ ~(i + 1 <= Len(A)) /\ ~(i <= Len(A))
              /\ i + 1 - Len(A) \in 1..1 + Len(B) /\ ~(i + 1 - Len(A) <= 1)
              /\ i + 1 - Len(A) - 1 = i - Len(A)
            BY <1>0, <1>1, <1>3, <2>2
        <3>2. u[i + 1] = r[i + 1 - Len(A)]
            <4>1. (A \o r)[i + 1] = r[i + 1 - Len(A)]
                BY <3>1, <1>4
            <4> QED
                BY <4>1, <1>5
        <3>3. r[i + 1 - Len(A)] = B[i - Len(A)]
            BY <3>1, <1>3
        <3> QED
            BY <2>2, <3>1, <3>2, <3>3, <1>7
    <2> QED
        BY <2>1, <2>2
<1>9. Cut(u, p) = A \o B
    <2>1. Len(u) - 1 = Len(A) + Len(B)
        BY <1>1, <1>6
    <2>2. A \o B = [i \in 1..Len(A) + Len(B) |-> (A \o B)[i]]
        BY <1>7, LenProperties
    <2> QED
        BY <2>1, <2>2, <1>8 DEF Cut
<1> QED
    BY <1>0, <1>6, <1>9

\* A thread goes from the middle of a list to the end of another.
LEMMA Relink ==
    ASSUME NEW m, NEW w, Represents(m, w), NEW j \in Lists, NEW k \in Lists, j # k,
           NEW A \in Seq(Thread), NEW B \in Seq(Thread), NEW t \in Thread,
           w[j] = A \o (<<t>> \o B)
    PROVE  Represents(thread_link(thread_unlink(m, j, t), k, t),
                      [w EXCEPT ![j] = A \o B, ![k] = Append(@, t)])
<1>1. w \in [Lists -> Seq(Thread)] /\ Exclusive(w)
    BY DEF Represents
<1>2. PICK p \in 1..Len(w[j]) : w[j][p] = t /\ Cut(w[j], p) = A \o B
    <2>1. \E p \in 1..Len(A \o (<<t>> \o B)) :
             /\ (A \o (<<t>> \o B))[p] = t
             /\ Cut(A \o (<<t>> \o B), p) = A \o B
        BY CutBetween
    <2> QED
        BY <2>1
<1>3. PICK v : v = CutFrom(w, j, p)
    OBVIOUS
<1>4. v = [w EXCEPT ![j] = A \o B]
    BY <1>2, <1>3 DEF CutFrom
<1>5. Unlinked(w, j, t) = v /\ Represents(thread_unlink(m, j, t), v)
    <2>1. /\ Unlinked(w, j, w[j][p]) = CutFrom(w, j, p)
          /\ Represents(thread_unlink(m, j, w[j][p]), CutFrom(w, j, p))
        BY UnlinkStep
    <2> QED
        BY <2>1, <1>2, <1>3
<1>6. t \notin Members(v, Lists)
    <2>1. t \in Range(w[j])
        BY <1>1, <1>2, LenProperties DEF Range
    <2>2. PICK y \in Range(w[j]) : y = t
        BY <2>1
    <2>3. /\ Unlinked(w, j, y) \in [Lists -> Seq(Thread)]
          /\ \A i \in Lists : Range(Unlinked(w, j, y)[i]) = Range(w[i]) \ {y}
          /\ Exclusive(Unlinked(w, j, y))
        BY <1>1, UnlinkedProperties
    <2> QED
        BY <2>2, <2>3, <1>5 DEF Members
<1>7. Represents(thread_link(thread_unlink(m, j, t), k, t), Linked(v, k, t))
    BY <1>5, <1>6, LinkStep
<1>8. Linked(v, k, t) = [w EXCEPT ![j] = A \o B, ![k] = Append(@, t)]
    BY <1>1, <1>4 DEF Linked
<1> QED
    BY <1>7, <1>8

\* The memory after a visit, which relinks the thread if it is in M.
LEMMA VisitMemory ==
    ASSUME NEW m, NEW q, NEW j \in Lists, NEW k \in Lists, j # k, NEW M,
           q \in [Lists -> Seq(Thread)], NEW n \in Nat, n < Len(q[j]),
           Represents(m, Walked(q, j, k, M, n)), NEW t, t = q[j][n + 1]
    PROVE  Represents(IF t \in M THEN thread_link(thread_unlink(m, j, t), k, t) ELSE m,
                      Walked(q, j, k, M, n + 1))
<1>1. PICK s \in Seq(Thread) : s = q[j]
    OBVIOUS
<1>2. PICK e \in Seq(Thread) : e = q[k]
    OBVIOUS
<1>3. n + 1 \in 1..Len(s) /\ n < Len(s) /\ t = s[n + 1] /\ t \in Thread
    BY <1>1, LenProperties
<1>4. PICK A \in Seq(Thread) : A = Met(s, n, Thread \ M)
    BY <1>3, MetNext
<1>5. PICK B \in Seq(Thread) : B = Rest(s, n + 1)
    BY <1>3, MetNext
<1>6. PICK C \in Seq(Thread) : C = Met(s, n, M)
    BY <1>3, MetNext
<1>7. Rest(s, n) = <<t>> \o B
    BY <1>3, <1>5, MetNext
<1>8. Met(s, n + 1, Thread \ M) = IF t \in Thread \ M THEN Append(A, t) ELSE A
    <2>1. Met(s, n + 1, Thread \ M) = IF s[n + 1] \in Thread \ M
                                      THEN Append(Met(s, n, Thread \ M), s[n + 1])
                                      ELSE Met(s, n, Thread \ M)
        BY <1>3, MetNext
    <2> QED
        BY <2>1, <1>3, <1>4
<1>9. Met(s, n + 1, M) = IF t \in M THEN Append(C, t) ELSE C
    <2>1. Met(s, n + 1, M) = IF s[n + 1] \in M THEN Append(Met(s, n, M), s[n + 1]) ELSE Met(s, n, M)
        BY <1>3, MetNext
    <2> QED
        BY <2>1, <1>3, <1>6
<1>10. PICK w : w = Walked(q, j, k, M, n)
    OBVIOUS
<1>11. /\ w = [q EXCEPT ![j] = A \o (<<t>> \o B), ![k] = e \o C]
       /\ Walked(q, j, k, M, n + 1) = [q EXCEPT ![j] = Met(s, n + 1, Thread \ M) \o B,
                                                ![k] = e \o Met(s, n + 1, M)]
    BY <1>1, <1>2, <1>4, <1>5, <1>6, <1>7, <1>10 DEF Walked
<1>12. /\ A \o (<<t>> \o B) = Append(A, t) \o B
       /\ Append(e \o C, t) = e \o Append(C, t)
    <2>1. PICK y \in Thread : y = t
        BY <1>3
    <2>2. A \o (<<y>> \o B) = Append(A, y) \o B
        BY AppendConcat
    <2>3. Append(e \o C, y) = e \o Append(C, y)
        BY AppendConcat
    <2> QED
        BY <2>1, <2>2, <2>3
<1>13. CASE t \notin M
    <2>1. Walked(q, j, k, M, n + 1) = w
        BY <1>3, <1>8, <1>9, <1>11, <1>12, <1>13
    <2> QED
        BY <1>10, <1>13, <2>1
<1>14. CASE t \in M
    <2>1. w[j] = A \o (<<t>> \o B) /\ w[k] = e \o C
        BY <1>11
    <2>2. Represents(thread_link(thread_unlink(m, j, t), k, t),
                     [w EXCEPT ![j] = A \o B, ![k] = Append(@, t)])
        BY <1>3, <1>10, <2>1, Relink
    <2>3. [w EXCEPT ![j] = A \o B, ![k] = Append(@, t)] = [q EXCEPT ![j] = A \o B, ![k] = e \o Append(C, t)]
        BY <1>11, <1>12, <2>1
    <2>4. Walked(q, j, k, M, n + 1) = [q EXCEPT ![j] = A \o B, ![k] = e \o Append(C, t)]
        BY <1>8, <1>9, <1>11, <1>14
    <2> QED
        BY <1>14, <2>2, <2>3, <2>4
<1> QED
    BY <1>13, <1>14

\* One visit.
LEMMA VisitStep ==
    ASSUME NEW w, NEW q \in [Lists -> Seq(Thread)], NEW j \in Lists, NEW k \in Lists, j # k,
           NEW M, NEW n \in Nat, n < Len(q[j]), WalkedTo(w, q, j, k, M, n)
    PROVE  /\ w.t # NULL
           /\ WalkedTo(Visit(w, j, k, M), q, j, k, M, n + 1)
<1>1. PICK s \in Seq(Thread) : s = q[j]
    OBVIOUS
<1>2. /\ Len(s) \in Nat /\ n + 1 \in 1..Len(s) /\ n + 1 \in Nat /\ n + 1 <= Len(s)
      /\ s[n + 1] \in Thread /\ NULL \notin Thread /\ n < Len(s)
    BY <1>1, LenProperties, ThreadAssumption
<1>3. w.t = s[n + 1] /\ w.tn = At(s, n + 2) /\ Represents(w.m, Walked(q, j, k, M, n))
    BY <1>1, <1>2 DEF WalkedTo, At
<1>4. PICK m : m = IF w.t \in M THEN thread_link(thread_unlink(w.m, j, w.t), k, w.t) ELSE w.m
    OBVIOUS
<1>5. Represents(m, Walked(q, j, k, M, n + 1))
    <2>1. w.t = q[j][n + 1]
        BY <1>1, <1>3
    <2> QED
        BY <1>3, <1>4, <2>1, VisitMemory
<1>6. Visit(w, j, k, M) = [m |-> m, t |-> w.tn, tn |-> NextOf(m, w.tn)]
    BY <1>4 DEF Visit
<1>7. PICK l \in Nat : l = n + 1
    BY <1>2
<1>8. NextOf(m, At(s, l + 1)) = At(s, l + 2)
    <2>1. PICK A \in Seq(Thread) : A = Met(s, l, Thread \ M)
        <3>1. Met(s, l, Thread \ M) \in Seq(Thread)
            <4>1. \A i \in 1..l : s[i] \in Thread
                BY <1>2, <1>7, LenProperties
            <4>2. SubSeq(s, 1, l) \in Seq(Thread)
                BY <4>1, SubSeqProperties
            <4> QED
                BY <4>2, KeepProperties DEF Met
        <3> QED
            BY <3>1
    <2>2. PICK u : u = Walked(q, j, k, M, l)
        OBVIOUS
    <2>3. u[j] = A \o Rest(s, l)
        BY <1>1, <2>1, <2>2 DEF Walked
    <2>4. l <= Len(s) /\ Represents(m, u)
        BY <1>2, <1>5, <1>7, <2>2
    <2>5. ListOf(m, j, A \o Rest(s, l))
        BY <2>3, <2>4 DEF Represents
    <2> QED
        BY <2>4, <2>5, NextAt
<1>9. n + 1 + 1 = n + 2 /\ n + 1 + 2 = l + 2 /\ l + 1 = n + 2
    BY <1>7
<1>10. WalkedTo([m |-> m, t |-> w.tn, tn |-> NextOf(m, w.tn)], q, j, k, M, n + 1)
    BY <1>1, <1>3, <1>5, <1>8, <1>9 DEF WalkedTo
<1> QED
    BY <1>2, <1>3, <1>6, <1>10

\* The recursion that Walk writes has a solution, by the least number of
\* threads for which it would have none.
LEMMA WalkFunction ==
    ASSUME NEW j, NEW k, NEW M, NEW N, N = Cardinality(Thread)
    PROVE  \E f : /\ f[0] = [m |-> mem, t |-> mem.first[j], tn |-> NextOf(mem, mem.first[j])]
                  /\ \A n \in 1..N :
                        f[n] = IF f[n - 1].t = NULL THEN f[n - 1] ELSE Visit(f[n - 1], j, k, M)
                  /\ Walk(j, k, M) = f[N].m
<1> DEFINE start == [m |-> mem, t |-> mem.first[j], tn |-> NextOf(mem, mem.first[j])]
           step(w) == IF w.t = NULL THEN w ELSE Visit(w, j, k, M)
           Good(h, n) == h[0] = start /\ \A i \in 1..n : h[i] = step(h[i - 1])
           Bad == {n \in 0..N : \A h : ~Good(h, n)}
<1>1. N \in Nat
    BY ThreadAssumption, FS_CardinalityType
<1>2. Bad = {}
    <2> SUFFICES ASSUME Bad # {} PROVE FALSE
        OBVIOUS
    <2> HIDE DEF start, step
    <2>1. PICK n \in Bad : \A i \in Bad : n <= i
        <3>1. Bad \in SUBSET Nat
            BY <1>1
        <3> HIDE DEF Bad
        <3> QED
            BY <3>1, LeastNumber
    <2>2. n \in 0..N /\ \A h : ~Good(h, n)
        OBVIOUS
    <2>3. CASE n = 0
        <3> DEFINE h == [i \in {0} |-> start]
        <3>1. Good(h, n)
            BY <2>3
        <3> QED
            BY <2>2, <3>1
    <2>4. CASE n # 0
        <3>1. n - 1 \in 0..N /\ n - 1 \notin Bad
            <4>1. n - 1 \in 0..N /\ ~(n <= n - 1)
                BY <1>1, <2>2, <2>4
            <4> HIDE DEF Bad
            <4> QED
                BY <2>1, <4>1
        <3>2. PICK h : Good(h, n - 1)
            BY <3>1
        <3> DEFINE g == [i \in 0..n |-> IF i = n THEN step(h[n - 1]) ELSE h[i]]
        <3>3. Good(g, n)
            <4>1. g[0] = start
                BY <1>1, <2>2, <2>4, <3>2
            <4>2. ASSUME NEW i \in 1..n
                  PROVE  g[i] = step(g[i - 1])
                <5>1. i \in 0..n /\ i - 1 \in 0..n /\ i - 1 # n /\ g[i - 1] = h[i - 1]
                    BY <1>1, <2>2
                <5>2. CASE i = n
                    BY <5>1, <5>2
                <5>3. CASE i # n
                    <6>1. i \in 1..n - 1
                        BY <1>1, <2>2, <5>3
                    <6>2. h[i] = step(h[i - 1])
                        BY <3>2, <6>1
                    <6> QED
                        BY <5>1, <5>3, <6>2
                <5> QED
                    BY <5>2, <5>3
            <4> HIDE DEF g
            <4> QED
                BY <4>1, <4>2
        <3> HIDE DEF g, Good
        <3> QED
            BY <2>2, <3>3
    <2> QED
        BY <2>3, <2>4
<1> DEFINE rec(h, n) == IF n = 0 THEN start ELSE step(h[n - 1])
           f == CHOOSE h : h = [n \in 0..N |-> rec(h, n)]
<1>3. f = [n \in 0..N |-> rec(f, n)]
    <2> HIDE DEF start, step
    <2>1. PICK g : Good(g, N)
        BY <1>1, <1>2
    <2> DEFINE h == [n \in 0..N |-> g[n]]
    <2>2. \A n \in 0..N : h[n] = rec(h, n)
        <3> SUFFICES ASSUME NEW n \in 0..N PROVE h[n] = rec(h, n)
            OBVIOUS
        <3>1. CASE n = 0
            BY <1>1, <2>1, <3>1
        <3>2. CASE n # 0
            <4>1. n \in 1..N /\ n - 1 \in 0..N
                BY <1>1, <3>2
            <4>2. g[n] = step(g[n - 1]) /\ h[n] = g[n] /\ h[n - 1] = g[n - 1]
                BY <2>1, <4>1
            <4> QED
                BY <3>2, <4>2
        <3> QED
            BY <3>1, <3>2
    <2>3. h = [n \in 0..N |-> rec(h, n)]
        BY <2>2
    <2>4. \E x : x = [n \in 0..N |-> rec(x, n)]
        BY <2>3
    <2> HIDE DEF rec
    <2> QED
        BY <2>4
<1>4. Walk(j, k, M) = f[N].m
    BY DEF Walk
<1> HIDE DEF f
<1>5. f[0] = start /\ \A n \in 1..N : f[n] = step(f[n - 1])
    <2> HIDE DEF start, step
    <2>1. 0 \in 0..N /\ \A n \in 1..N : n \in 0..N /\ n # 0
        BY <1>1
    <2> QED
        BY <1>3, <2>1
<1> QED
    BY <1>4, <1>5

\* A walk moves the threads of M, in their order, and leaves the others.
LEMMA WalkStep ==
    ASSUME NEW q, Represents(mem, q), NEW j \in Lists, NEW k \in Lists, j # k, NEW M
    PROVE  Represents(Walk(j, k, M), WalkedAll(q, j, k, M))
<1>1. PICK N : N = Cardinality(Thread)
    OBVIOUS
<1>2. PICK f :
         /\ f[0] = [m |-> mem, t |-> mem.first[j], tn |-> NextOf(mem, mem.first[j])]
         /\ \A n \in 1..N :
               f[n] = IF f[n - 1].t = NULL THEN f[n - 1] ELSE Visit(f[n - 1], j, k, M)
         /\ Walk(j, k, M) = f[N].m
    BY <1>1, WalkFunction
<1>3. q \in [Lists -> Seq(Thread)] /\ q[j] \in Seq(Thread) /\ IsInjective(q[j])
    BY DEF Represents, Exclusive
<1>4. PICK L : L = Len(q[j])
    OBVIOUS
<1>5. N \in Nat /\ L \in Nat /\ L <= N
    BY <1>1, <1>3, <1>4, ListLength, LenProperties, ThreadAssumption, FS_CardinalityType
<1> DEFINE To(n) == IF n <= L THEN n ELSE L
           Bad == {n \in 0..N : ~WalkedTo(f[n], q, j, k, M, To(n))}
<1>6. Bad = {}
    <2> SUFFICES ASSUME Bad # {} PROVE FALSE
        OBVIOUS
    <2>1. PICK n \in Bad : \A i \in Bad : n <= i
        <3>1. Bad \in SUBSET Nat
            BY <1>5
        <3> HIDE DEF Bad
        <3> QED
            BY <3>1, LeastNumber
    <2>2. CASE n = 0
        <3>1. WalkedTo(f[0], q, j, k, M, 0)
            BY <1>2, WalkStart
        <3>2. To(0) = 0
            BY <1>5
        <3> QED
            BY <2>2, <3>1, <3>2
    <2>3. CASE n # 0
        <3>1. n \in 1..N /\ n - 1 \in 0..N /\ n - 1 \in Nat /\ n - 1 \notin Bad
            BY <1>5, <2>1, <2>3
        <3>2. WalkedTo(f[n - 1], q, j, k, M, To(n - 1))
            BY <3>1
        <3>3. f[n] = IF f[n - 1].t = NULL THEN f[n - 1] ELSE Visit(f[n - 1], j, k, M)
            BY <1>2, <3>1
        <3>4. CASE n - 1 < L
            <4>1. PICK l \in Nat : l = n - 1
                BY <3>1
            <4>2. l < Len(q[j]) /\ WalkedTo(f[n - 1], q, j, k, M, l)
                BY <1>4, <1>5, <3>2, <3>4, <4>1
            <4>3. f[n - 1].t # NULL /\ WalkedTo(Visit(f[n - 1], j, k, M), q, j, k, M, l + 1)
                BY <1>3, <4>2, VisitStep
            <4>4. l + 1 = To(n)
                BY <1>5, <3>1, <3>4, <4>1
            <4> QED
                BY <3>3, <4>3, <4>4
        <3>5. CASE ~(n - 1 < L)
            <4>1. To(n - 1) = L /\ To(n) = L
                BY <1>5, <3>1, <3>5
            <4>2. f[n - 1].t = At(q[j], L + 1)
                BY <3>2, <4>1 DEF WalkedTo
            <4>3. f[n - 1].t = NULL
                BY <1>4, <1>5, <4>2 DEF At
            <4> QED
                BY <3>2, <3>3, <4>1, <4>3
        <3> QED
            BY <3>4, <3>5
    <2> QED
        BY <2>2, <2>3
<1>7. WalkedTo(f[N], q, j, k, M, L)
    <2>1. N \in 0..N /\ To(N) = L
        BY <1>5
    <2> QED
        BY <1>6, <2>1
<1>8. Represents(f[N].m, Walked(q, j, k, M, Len(q[j])))
    BY <1>4, <1>7 DEF WalkedTo
<1>9. Walked(q, j, k, M, Len(q[j])) = WalkedAll(q, j, k, M)
    BY <1>3, MetAll
<1> QED
    BY <1>2, <1>8, <1>9

-----------------------------------------------------------------------------
(***************************************************************************)
(* The links of every reachable memory represent queues.                   *)
(***************************************************************************)
LinksInv == Represents(mem, QueueOf)

\* The queues of the specification are those the memory represents.
LEMMA QueuesAre ==
    ASSUME NEW q, Represents(mem, q)
    PROVE  QueueOf = q
<1>1. QueueOf = QueuesIn(mem)
    BY DEF QueueOf, QueuesIn, Forward
<1> QED
    BY <1>1, QueuesFound

\* So are they after a step.
LEMMA QueuesAreNext ==
    ASSUME NEW q, Represents(mem', q)
    PROVE  QueueOf' = q
<1>1. QueueOf' = QueuesIn(mem')
    BY DEF QueueOf, QueuesIn, Forward, Follow
<1>2. q = QueuesIn(mem')
    BY QueuesFound
<1> QED
    BY <1>1, <1>2

\* Every thread in a queue is listed, and no other.
LEMMA ListedAreMembers ==
    \A k \in Lists : Listed(k) = Range(QueueOf[k])
BY DEF Listed, QueueOf

\* ThreadQueues has the operators of ThreadLists under its own name.
LEMMA SameOperators ==
    /\ \A s : Queues!Range(s) = Range(s)
    /\ \A s, S : Queues!Keep(s, S) = Keep(s, S)
    /\ \A ls, K : Queues!Members(ls, K) = Members(ls, K)
    /\ \A ls, k, t : Queues!Linked(ls, k, t) = Linked(ls, k, t)
    /\ \A ls, k, t : Queues!Unlinked(ls, k, t) = Unlinked(ls, k, t)
<1>1. \A s : Queues!Range(s) = Range(s)
    BY DEF Queues!Range, Range
<1>2. \A s, S : Queues!Keep(s, S) = Keep(s, S)
    BY DEF Queues!Keep, Queues!Positions, Queues!RankOf, Queues!Cardinality,
           Keep, Positions, RankOf, Cardinality
<1>3. \A ls, K : Queues!Members(ls, K) = Members(ls, K)
    BY <1>1 DEF Queues!Members, Members
<1>4. \A ls, k, t : Queues!Linked(ls, k, t) = Linked(ls, k, t)
    BY DEF Queues!Linked, Linked
<1>5. \A ls, k, t : Queues!Unlinked(ls, k, t) = Unlinked(ls, k, t)
    BY <1>1, <1>2 DEF Queues!Unlinked, Unlinked
<1> QED
    BY <1>1, <1>2, <1>3, <1>4, <1>5

\* At first the memory represents empty lists.
LEMMA LinksStart ==
    ASSUME LinksInit
    PROVE  /\ LinksInv
           /\ QueueOf = [k \in Lists |-> <<>>]
<1> DEFINE q == [k \in Lists |-> <<>>]
<1>1. PICK n, p \in [Thread -> Link] :
         mem = [first    |-> [k \in Lists |-> NULL],
                last     |-> [k \in Lists |-> NULL],
                elements |-> [k \in Lists |-> 0],
                next     |-> n,
                prev     |-> p]
    BY DEF LinksInit
<1>2. mem \in Memory
    BY <1>1 DEF Memory, Link
<1>3. q \in [Lists -> Seq(Thread)] /\ Exclusive(q)
    BY DEF Exclusive, IsInjective, Range
<1>4. \A k \in Lists : ListOf(mem, k, q[k])
    <2> SUFFICES ASSUME NEW k \in Lists PROVE ListOf(mem, k, <<>>)
        OBVIOUS
    <2>1. mem.elements[k] = 0 /\ mem.first[k] = NULL /\ mem.last[k] = NULL
        BY <1>1
    <2>2. Len(<<>>) = 0
        OBVIOUS
    <2> QED
        BY <2>1, <2>2 DEF ListOf
<1>5. Represents(mem, q)
    BY <1>2, <1>3, <1>4 DEF Represents
<1> HIDE DEF q
<1>6. QueueOf = q
    BY <1>5, QueuesAre
<1> QED
    BY <1>5, <1>6 DEF LinksInv, q

\* Every step on the links is the step on the queues.
LEMMA LinksSteps ==
    ASSUME LinksInv, [LinksNext]_linksVars
    PROVE  /\ LinksInv'
           /\ [Queues!Next]_Queues!vars
<1> SUFFICES ASSUME NEW q, q = QueueOf, Represents(mem, q)
             PROVE  /\ Represents(mem', QueueOf')
                    /\ [Queues!Next]_Queues!vars
    BY DEF LinksInv
<1>1. \A k \in Lists : Listed(k) = Range(q[k])
    BY ListedAreMembers
<1>2. q \in [Lists -> Seq(Thread)]
    BY DEF Represents
<1>3. ASSUME NEW k \in Lists, NEW t \in Thread, LinkThread(k, t)
      PROVE  /\ Represents(mem', QueueOf')
             /\ Queues!Link(k, t)
    <2>1. t \notin Members(q, Lists)
        BY <1>1, <1>3 DEF Members, LinkThread
    <2>2. Represents(mem', Linked(q, k, t))
        BY <1>3, <2>1, LinkStep DEF LinkThread
    <2>3. QueueOf' = Linked(q, k, t)
        BY <2>2, QueuesAreNext
    <2>4. UNCHANGED wanted
        BY <1>3 DEF LinkThread
    <2> QED
        BY <2>1, <2>2, <2>3, <2>4, SameOperators DEF Queues!Link
<1>4. ASSUME NEW k \in Lists, NEW t \in Thread, UnlinkThread(k, t)
      PROVE  /\ Represents(mem', QueueOf')
             /\ Queues!Unlink(k, t)
    <2>1. t \in Range(q[k])
        BY <1>1, <1>4 DEF UnlinkThread
    <2>2. PICK p \in 1..Len(q[k]) : q[k][p] = t
        BY <1>2, <2>1, LenProperties DEF Range
    <2>3. Unlinked(q, k, t) = CutFrom(q, k, p) /\ Represents(thread_unlink(mem, k, t), CutFrom(q, k, p))
        BY <2>2, UnlinkStep
    <2>4. mem' = thread_unlink(mem, k, t) /\ UNCHANGED wanted
        BY <1>4 DEF UnlinkThread
    <2>5. Represents(mem', Unlinked(q, k, t))
        BY <2>3, <2>4
    <2>6. QueueOf' = Unlinked(q, k, t)
        BY <2>5, QueuesAreNext
    <2> QED
        BY <2>1, <2>4, <2>5, <2>6, SameOperators DEF Queues!Unlink
<1>5. ASSUME NEW j \in Lists, NEW k \in Lists, MoveThreads(j, k)
      PROVE  /\ Represents(mem', QueueOf')
             /\ Queues!Move(j, k)
    <2>1. j # k /\ mem' = Walk(j, k, wanted) /\ UNCHANGED wanted
        BY <1>5 DEF MoveThreads
    <2>2. Represents(mem', WalkedAll(q, j, k, wanted))
        BY <2>1, WalkStep
    <2>3. QueueOf' = WalkedAll(q, j, k, wanted)
        BY <2>2, QueuesAreNext
    <2> QED
        BY <2>1, <2>2, <2>3, SameOperators DEF Queues!Move, WalkedAll
<1>6. ASSUME mem' = mem
      PROVE  Represents(mem', QueueOf') /\ QueueOf' = q
    <2>1. Represents(mem', q)
        BY <1>6
    <2> QED
        BY <2>1, QueuesAreNext
<1>7. ASSUME NEW M \in SUBSET Thread, Want(M)
      PROVE  Represents(mem', QueueOf') /\ Queues!Want(M)
    BY <1>6, <1>7 DEF Want, Queues!Want
<1>8. CASE LinksNext
    BY <1>3, <1>4, <1>5, <1>7, <1>8 DEF LinksNext, Queues!Next
<1>9. CASE UNCHANGED linksVars
    BY <1>6, <1>9 DEF linksVars, Queues!vars
<1> QED
    BY <1>8, <1>9

\* The inductive invariant of the links: every reachable memory represents lists.
LEMMA LinksInvariance == LinksSpec => []LinksInv
<1>1. LinksInit => LinksInv
    BY LinksStart
<1>2. LinksInv /\ [LinksNext]_linksVars => LinksInv'
    BY LinksSteps
<1> QED
    BY <1>1, <1>2, PTL DEF LinksSpec

\* thread_unlink takes a thread's neighbours from both of its links: those of
\* every list agree, and end at the null pointer at both ends.
THEOREM LinksAgree == LinksSpec => []BothWays
<1>1. LinksInv => BothWays
    <2> SUFFICES ASSUME LinksInv, NEW k \in Lists,
                        NEW n, n = mem.elements[k]
                 PROVE  IF n = 0 THEN mem.first[k] = NULL /\ mem.last[k] = NULL
                        ELSE /\ \A i \in 1..n : Forward(k)[i] = Backward(k)[n + 1 - i]
                             /\ mem.prev[mem.first[k]] = NULL
                             /\ mem.next[mem.last[k]] = NULL
        BY DEF BothWays
    <2>1. PICK q : q = QueueOf /\ Represents(mem, q)
        BY DEF LinksInv
    <2>2. PICK s \in Seq(Thread) : s = q[k] /\ ListOf(mem, k, s)
        BY <2>1 DEF Represents
    <2>3. n = Len(s) /\ n \in Nat /\ (s = <<>> <=> n = 0)
        BY <2>2, LenProperties, EmptySeq DEF ListOf
    <2>4. CASE n = 0
        BY <2>2, <2>3, <2>4 DEF ListOf
    <2>5. CASE n # 0
        <3>1. 1 \in 1..Len(s) /\ Len(s) \in 1..Len(s) /\ s # <<>>
            BY <2>3, <2>5
        <3>2. mem.prev[mem.first[k]] = NULL /\ mem.next[mem.last[k]] = NULL
            BY <2>2, <3>1 DEF ListOf
        <3>3. ASSUME NEW i \in 1..n
              PROVE  Forward(k)[i] = Backward(k)[n + 1 - i]
            <4>1. n + 1 - i \in 1..n /\ n + 1 - (n + 1 - i) = i
                BY <2>3
            <4>2. Forward(k)[i] = s[i]
                BY <2>1, <2>2, <2>3, ForwardAlong DEF Forward
            <4>3. Backward(k)[n + 1 - i] = s[n + 1 - (n + 1 - i)]
                BY <4>1, <2>1, <2>2, <2>3, BackwardAlong DEF Backward
            <4> QED
                BY <4>1, <4>2, <4>3
        <3> QED
            BY <2>5, <3>2, <3>3
    <2> QED
        BY <2>4, <2>5
<1> QED
    BY <1>1, LinksInvariance, PTL

\* The links implement the FIFO queues the rest of the kernel is modelled
\* with: thread_link, thread_unlink and the walk of t_fire_event, t_refresh,
\* t_check_cond and t_unchain do to the links what ThreadQueues says.
THEOREM LinksImplementQueues == LinksSpec => ImplementsQueues
<1>1. LinksInit => Queues!Init
    BY LinksStart DEF LinksInit, Queues!Init
<1>2. LinksInv /\ [LinksNext]_linksVars => [Queues!Next]_Queues!vars
    BY LinksSteps
<1> QED
    BY <1>1, <1>2, LinksInvariance, PTL DEF LinksSpec, ImplementsQueues, Queues!Spec

=============================================================================
