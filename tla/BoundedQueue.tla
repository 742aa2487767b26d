----------------------------- MODULE BoundedQueue -----------------------------
(***************************************************************************)
(* What Queue promises: first in, first out, at most Capacity items.       *)
(***************************************************************************)
EXTENDS Naturals, Sequences

CONSTANTS Items, Capacity

VARIABLE items

QInit == items = <<>>

Put(x) == Len(items) < Capacity /\ items' = Append(items, x)
Take   == items # <<>> /\ items' = Tail(items)

QNext == Take \/ \E x \in Items : Put(x)

QSpec == QInit /\ [][QNext]_items
===============================================================================
