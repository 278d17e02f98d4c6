-------------------------------- MODULE Fifo --------------------------------
(***************************************************************************)
(* What queue.h promises of enqueue and dequeue: items go in at the tail,  *)
(* each call of dequeue removes the item at the head and returns it.       *)
(***************************************************************************)
EXTENDS Sequences

CONSTANTS Items, Consumers, NULL

VARIABLES
    q,      \* the items in the queue, head first
    hand,   \* the item each dequeue in progress has removed
    got     \* what each consumer's last dequeue returned

fifovars == <<q, hand, got>>

Init ==
    /\ q = <<>>
    /\ hand = [c \in Consumers |-> NULL]
    /\ got = [c \in Consumers |-> NULL]

Put(x) ==
    /\ q' = Append(q, x)
    /\ UNCHANGED <<hand, got>>

Remove(c) ==
    /\ q # <<>> /\ hand[c] = NULL
    /\ hand' = [hand EXCEPT ![c] = Head(q)]
    /\ q' = Tail(q)
    /\ UNCHANGED got

Return(c) ==
    /\ hand[c] # NULL
    /\ got' = [got EXCEPT ![c] = hand[c]]
    /\ hand' = [hand EXCEPT ![c] = NULL]
    /\ UNCHANGED q

Next ==
    \/ \E x \in Items : Put(x)
    \/ \E c \in Consumers : Remove(c) \/ Return(c)

Spec == Init /\ [][Next]_fifovars
=============================================================================
