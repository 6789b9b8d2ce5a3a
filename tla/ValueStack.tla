----------------------------- MODULE ValueStack -----------------------------
(***************************************************************************)
(* What a FixedSizeValueStack promises: every object is a bounded LIFO     *)
(* stack.  `items' lists what a sequence of get() calls would return and   *)
(* `refill' is the content reset() restores.  Nothing here mentions the    *)
(* array or the `begin' index.                                             *)
(***************************************************************************)
EXTENDS Integers, Sequences

CONSTANTS Objects,   \* the stack objects of one FixedSizeValueStack<T>
          Capacity,  \* the common `dimension' of the objects
          Items,     \* the values of T
          Refills    \* the contents the initializers can produce

VARIABLES items, refill

vars == <<items, refill>>

Init ==
  /\ refill \in [Objects -> Refills]
  /\ items = refill

\* get() hands out the top of the stack.
Get(o) ==
  /\ items[o] # <<>>
  /\ items' = [items EXCEPT ![o] = Tail(@)]
  /\ UNCHANGED refill

\* push(item) needs a free cell.
Push(o, item) ==
  /\ Len(items[o]) < Capacity
  /\ items' = [items EXCEPT ![o] = <<item>> \o @]
  /\ UNCHANGED refill

\* reset() forgets the history of the object.
Reset(o) ==
  /\ items' = [items EXCEPT ![o] = refill[o]]
  /\ UNCHANGED refill

\* o = source: from now on the two behave the same, and independently.
Assign(o, source) ==
  /\ items' = [items EXCEPT ![o] = items[source]]
  /\ refill' = [refill EXCEPT ![o] = refill[source]]

Next ==
  \E o \in Objects :
    \/ Get(o)
    \/ \E item \in Items : Push(o, item)
    \/ Reset(o)
    \/ \E source \in Objects : Assign(o, source)

Spec == Init /\ [][Next]_vars
=============================================================================
