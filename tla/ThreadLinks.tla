---------------------------- MODULE ThreadLinks ----------------------------
(***************************************************************************)
(* thread_link and thread_unlink of Thread.c on the link fields, and the   *)
(* walk that t_fire_event, t_refresh, t_check_cond and t_unchain share.    *)
(* Unlinking clears no field of the thread, so a thread in no list keeps   *)
(* the links it had, and a new control block has whatever its memory held. *)
(***************************************************************************)
EXTENDS Integers, ThreadLists

CONSTANT Lists      \* the lists of threads: ready lists, drop list, chains, ...

VARIABLES mem,     \* the lists' firstLink, lastLink and elements,
                   \* the threads' nextLink and prevLink
          wanted   \* the threads a walk selects: those whose event fires,
                   \* whose condition holds, or all of them

linksVars == <<mem, wanted>>

Link == Thread \cup {NULL}

-----------------------------------------------------------------------------
\* thread_link: at the end of the list.
thread_link_First(m, k, t) ==
    LET old == m.first[k]
    IN  IF old = NULL
        THEN [m EXCEPT !.elements[k] = @ + 1, !.first[k] = t, !.last[k] = t,
                       !.next[t] = NULL, !.prev[t] = NULL]
        ELSE [m EXCEPT !.elements[k] = @ + 1, !.first[k] = t,
                       !.next[t] = old, !.prev[t] = NULL, !.prev[old] = t]

thread_link(m, k, t) ==
    LET i == m.last[k]
    IN  IF i = NULL
        THEN [m EXCEPT !.elements[k] = @ + 1, !.first[k] = t, !.last[k] = t,
                       !.next[t] = NULL, !.prev[t] = NULL]
        ELSE [m EXCEPT !.elements[k] = @ + 1, !.last[k] = t,
                       !.prev[t] = i, !.next[t] = NULL, !.next[i] = t]

\* thread_unlink: by the links of t, whichever list it is in.  The first form
\* forgets that the last thread may be the one that goes.
thread_unlink_NoLast(m, k, t) ==
    LET l == m.prev[t]
        r == m.next[t]
        n == [m EXCEPT !.elements[k] = @ - 1]
    IN  IF l = NULL /\ r = NULL THEN [n EXCEPT !.first[k] = NULL, !.last[k] = NULL]
        ELSE IF l = NULL THEN [n EXCEPT !.first[k] = r, !.prev[r] = NULL]
        ELSE IF r = NULL THEN [n EXCEPT !.next[l] = NULL]
        ELSE [n EXCEPT !.next[l] = r, !.prev[r] = l]

thread_unlink(m, k, t) ==
    LET l == m.prev[t]
        r == m.next[t]
        n == [m EXCEPT !.elements[k] = @ - 1]
    IN  IF m.elements[k] = 0 THEN m
        ELSE IF l = NULL /\ r = NULL THEN [n EXCEPT !.first[k] = NULL, !.last[k] = NULL]
        ELSE IF l = NULL THEN [n EXCEPT !.first[k] = r, !.prev[r] = NULL]
        ELSE IF r = NULL THEN [n EXCEPT !.next[l] = NULL, !.last[k] = l]
        ELSE [n EXCEPT !.next[l] = r, !.prev[r] = l]

-----------------------------------------------------------------------------
\* The walk along list j: t is the thread it is at, tn the one it goes to
\* next, read before t is relinked.  A thread of M is unlinked and linked to
\* list k.  nextLink of the null pointer is read at the end of the list and
\* not used.
NextOf(m, t) == IF t = NULL THEN NULL ELSE m.next[t]

Visit_Reread(w, j, k, M) ==
    LET m == IF w.t \in M THEN thread_link(thread_unlink(w.m, j, w.t), k, w.t) ELSE w.m
    IN  [m |-> m, t |-> NextOf(m, w.t), tn |-> NULL]

Visit(w, j, k, M) ==
    LET m == IF w.t \in M THEN thread_link(thread_unlink(w.m, j, w.t), k, w.t) ELSE w.m
    IN  [m |-> m, t |-> w.tn, tn |-> NextOf(m, w.tn)]

\* The walk after n threads; it ends at the null pointer.
Walk(j, k, M) ==
    LET start == [m |-> mem, t |-> mem.first[j], tn |-> NextOf(mem, mem.first[j])]
        f[n \in 0..Cardinality(Thread)] ==
            IF n = 0 THEN start
            ELSE IF f[n - 1].t = NULL THEN f[n - 1] ELSE Visit(f[n - 1], j, k, M)
    IN  f[Cardinality(Thread)].m

-----------------------------------------------------------------------------
\* The threads met from start along a link field, then the null pointer.
Follow(start, link) ==
    LET f[n \in 1..Cardinality(Thread)] ==
            IF n = 1 THEN start ELSE IF f[n - 1] = NULL THEN NULL ELSE link[f[n - 1]]
    IN  f

\* The elements of list k from the first on along nextLink, and from the last
\* back along prevLink.
Forward(k) ==
    LET f == Follow(mem.first[k], mem.next) IN [n \in 1..mem.elements[k] |-> f[n]]

Backward(k) ==
    LET f == Follow(mem.last[k], mem.prev) IN [n \in 1..mem.elements[k] |-> f[n]]

Listed(k) == Range(Forward(k))

\* t_init_core clears the lists; the links of the threads are arbitrary.
LinksInit ==
    /\ wanted = Thread
    /\ \E n, p \in [Thread -> Link] :
        mem = [first    |-> [k \in Lists |-> NULL],
               last     |-> [k \in Lists |-> NULL],
               elements |-> [k \in Lists |-> 0],
               next     |-> n,
               prev     |-> p]

\* The kernel links a thread that is in no list.
LinkThread(k, t) ==
    /\ \A j \in Lists : t \notin Listed(j)
    /\ mem' = thread_link(mem, k, t)
    /\ UNCHANGED wanted

\* The kernel unlinks a thread from the list it is in.
UnlinkThread(k, t) ==
    /\ t \in Listed(k)
    /\ mem' = thread_unlink(mem, k, t)
    /\ UNCHANGED wanted

\* t_fire_event, t_refresh, t_check_cond, t_unchain.  The kernel calls them
\* for a list that has a thread, or they do nothing.
MoveThreads(j, k) ==
    /\ j # k
    /\ wanted \cap Listed(j) # {}
    /\ mem' = Walk(j, k, wanted)
    /\ UNCHANGED wanted

\* The threads change what their events and conditions say.
Want(M) ==
    /\ wanted' = M
    /\ UNCHANGED mem

LinksNext ==
    \/ \E k \in Lists :
          \/ \E t \in Thread : LinkThread(k, t) \/ UnlinkThread(k, t)
          \/ \E j \in Lists : MoveThreads(j, k)
    \/ \E M \in SUBSET Thread : Want(M)

LinksSpec == LinksInit /\ [][LinksNext]_linksVars

-----------------------------------------------------------------------------
\* The queue in each list.
QueueOf == [k \in Lists |-> Forward(k)]

\* The links implement FIFO queues: what is met along nextLink is the queue,
\* whatever stale links the threads in no list hold (thread_unlink leaves
\* them), and a walk moves exactly the threads it selects, in their order.
Queues == INSTANCE ThreadQueues WITH list <- QueueOf, ListId <- Lists

ImplementsQueues == Queues!Spec

\* The two directions agree and both end at the null pointer: thread_unlink
\* takes its neighbours from both.
BothWays ==
    \A k \in Lists :
        LET n == mem.elements[k]
        IN  IF n = 0 THEN mem.first[k] = NULL /\ mem.last[k] = NULL
            ELSE /\ \A i \in 1..n : Forward(k)[i] = Backward(k)[n + 1 - i]
                 /\ mem.prev[mem.first[k]] = NULL
                 /\ mem.next[mem.last[k]] = NULL

=============================================================================
