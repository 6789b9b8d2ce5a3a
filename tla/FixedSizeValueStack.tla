------------------------ MODULE FixedSizeValueStack -------------------------
(***************************************************************************)
(* fixed-size-value-stack/src/FixedSizeValueStack.hpp: a stack kept in an  *)
(* array of fixed capacity.  The stack grows towards index 0; `begin' is   *)
(* the index of its top and begin = capacity is the empty stack.  Several  *)
(* objects exist because operator= copies one into another.  The assert()s *)
(* of the code are guards: a call that breaks one ends the program.        *)
(***************************************************************************)
EXTENDS Integers, Sequences

CONSTANTS Objects, Capacity, Items, Initializers

Cells == 0 .. Capacity - 1

ASSUME CapacityAssumption == Capacity \in Nat \ {0}     \* assert(dimension > 0)
ASSUME InitializersAssumption == Initializers \subseteq [Cells -> Items]

VARIABLES array,        \* array[o][i]: cell i of object o
          begin,        \* begin[o]: index of the top of object o
          initializer   \* initializer[o]: the std::function, as its graph

vars == <<array, begin, initializer>>

TypeOK ==
  /\ array \in [Objects -> [Cells -> Items]]
  /\ begin \in [Objects -> 0 .. Capacity]
  /\ initializer \in [Objects -> Initializers]

\* The constructor ends with reset().
Init ==
  /\ initializer \in [Objects -> Initializers]
  /\ array = initializer
  /\ begin = [o \in Objects |-> 0]

\* Mutant: the assert lets the last get() through on an empty stack.
GetPastEnd(o) ==
  /\ begin[o] <= Capacity
  /\ begin' = [begin EXCEPT ![o] = @ + 1]
  /\ UNCHANGED <<array, initializer>>

\* The item stays in its cell: only `begin' moves.
Get(o) ==
  /\ begin[o] < Capacity
  /\ begin' = [begin EXCEPT ![o] = @ + 1]
  /\ UNCHANGED <<array, initializer>>

Push(o, item) ==
  /\ begin[o] - 1 >= 0
  /\ begin' = [begin EXCEPT ![o] = @ - 1]
  /\ array' = [array EXCEPT ![o][begin[o] - 1] = item]
  /\ UNCHANGED initializer

Reset(o) ==
  /\ array' = [array EXCEPT ![o] = initializer[o]]
  /\ begin' = [begin EXCEPT ![o] = 0]
  /\ UNCHANGED initializer

\* Mutant: the copy keeps its own initializer.
AssignKeepingInitializer(o, source) ==
  /\ array' = [array EXCEPT ![o] = array[source]]
  /\ begin' = [begin EXCEPT ![o] = begin[source]]
  /\ UNCHANGED initializer

\* operator=: the live cells, the dead ones below `begin' and the initializer.
Assign(o, source) ==
  /\ array' = [array EXCEPT ![o] = array[source]]
  /\ begin' = [begin EXCEPT ![o] = begin[source]]
  /\ initializer' = [initializer EXCEPT ![o] = initializer[source]]

Next ==
  \E o \in Objects :
    \/ Get(o)
    \/ \E item \in Items : Push(o, item)
    \/ Reset(o)
    \/ \E source \in Objects : Assign(o, source)

Spec == Init /\ [][Next]_vars

-----------------------------------------------------------------------------
(* The abstraction: cells begin .. capacity-1, top first.                  *)

StackSize(o) == Capacity - begin[o]

Contents(o) == [i \in 1 .. StackSize(o) |-> array[o][begin[o] + i - 1]]

Refill(f) == [i \in 1 .. Capacity |-> f[i - 1]]

Abstract == INSTANCE ValueStack WITH
  Refills <- {Refill(f) : f \in Initializers},
  items <- [o \in Objects |-> Contents(o)],
  refill <- [o \in Objects |-> Refill(initializer[o])]

\* Seen through get/push/reset/operator=, the array with its moving `begin' is
\* a bounded LIFO stack per object: no call on one object shows in another, and
\* the dead cells below `begin' never come back (FixedSizeValueStack.hpp:36-65).
RefinesValueStack == Abstract!Spec
=============================================================================
