---------------------------- MODULE ThreadQueues ----------------------------
(***************************************************************************)
(* What the thread lists promise the kernel: lists are FIFO queues, a      *)
(* thread is linked when it is in no list and unlinked from the list it is *)
(* in, and a walk moves the threads it selects to the end of another list  *)
(* in their order.  ThreadLinks implements it with links.                  *)
(***************************************************************************)
EXTENDS ThreadLists

CONSTANT ListId

VARIABLES list,
          wanted   \* the threads a walk selects

vars == <<list, wanted>>

Init ==
    /\ list = [k \in ListId |-> <<>>]
    /\ wanted = Thread

Link(k, t) ==
    /\ t \notin Members(list, ListId)
    /\ list' = Linked(list, k, t)
    /\ UNCHANGED wanted

Unlink(k, t) ==
    /\ t \in Range(list[k])
    /\ list' = Unlinked(list, k, t)
    /\ UNCHANGED wanted

\* The wanted threads of list j go to the end of list k.
Move(j, k) ==
    /\ j # k
    /\ list' = [list EXCEPT ![j] = Keep(@, Thread \ wanted),
                            ![k] = @ \o Keep(list[j], wanted)]
    /\ UNCHANGED wanted

Want(M) ==
    /\ wanted' = M
    /\ UNCHANGED list

Next ==
    \/ \E k \in ListId :
          \/ \E t \in Thread : Link(k, t) \/ Unlink(k, t)
          \/ \E j \in ListId : Move(j, k)
    \/ \E M \in SUBSET Thread : Want(M)

Spec == Init /\ [][Next]_vars

=============================================================================
