---------------------------- MODULE ThreadLists ----------------------------
(***************************************************************************)
(* The thread lists of the kernel (THREAD_LIST in Thread.h, thread_link    *)
(* and thread_unlink in Thread.c) as the code that uses them means them: a *)
(* sequence of threads, first link first.  ThreadLinks.tla models the same *)
(* operations on the link fields themselves, which implement these         *)
(* operators (LinksImplementQueues) for as long as a thread is linked only *)
(* when it is in no list and unlinked only from the list it is in.         *)
(***************************************************************************)
EXTENDS Naturals, Sequences, FiniteSets, Functions

CONSTANTS Thread,   \* thread control blocks
          NULL      \* the null pointer

ASSUME ThreadAssumption == IsFiniteSet(Thread) /\ NULL \notin Thread

-----------------------------------------------------------------------------
\* The part of sequence s whose elements are in S, in the order of s: what a
\* walk along nextLink that unlinks some of the threads it meets leaves, and
\* what it moves.  Written with positions and cardinalities and not as a
\* recursion, so that its properties can be proved.
Positions(s, S) == {i \in DOMAIN s : s[i] \in S}

RankOf(s, S, i) == Cardinality({j \in Positions(s, S) : j <= i})

Keep(s, S) ==
    [k \in 1..Cardinality(Positions(s, S)) |->
        s[CHOOSE i \in Positions(s, S) : RankOf(s, S, i) = k]]

-----------------------------------------------------------------------------
\* thread_link: the thread becomes the last of list k.
Linked(ls, k, t) == [ls EXCEPT ![k] = Append(@, t)]

\* thread_unlink of a thread that is in list k.
Unlinked(ls, k, t) == [ls EXCEPT ![k] = Keep(@, Range(@) \ {t})]

-----------------------------------------------------------------------------
\* The threads in one of the lists of the set K.
Members(ls, K) == UNION {Range(ls[k]) : k \in K}

\* No thread is in two of the lists, or twice in one.
Exclusive(ls) ==
    /\ \A k \in DOMAIN ls : IsInjective(ls[k])
    /\ \A j, k \in DOMAIN ls : j # k => Range(ls[j]) \cap Range(ls[k]) = {}

=============================================================================
