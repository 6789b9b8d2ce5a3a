---------------------- MODULE FixedSizeValueStackProofs ----------------------
(***************************************************************************)
(* FixedSizeValueStack implements ValueStack for every capacity, every set *)
(* of objects and every initializer.  The invariant is the type: a call of *)
(* get or push that its assert lets through keeps `begin' inside the array.*)
(***************************************************************************)
EXTENDS FixedSizeValueStack, SequenceTheorems, TLAPS

LEMMA InitType == Init => TypeOK
BY CapacityAssumption, InitializersAssumption DEF Init, TypeOK

LEMMA NextType == TypeOK /\ [Next]_vars => TypeOK'
<1> SUFFICES ASSUME TypeOK, [Next]_vars PROVE TypeOK'
  OBVIOUS
<1> USE DEF TypeOK
<1>1. ASSUME NEW o \in Objects, Get(o)
      PROVE  TypeOK'
  BY <1>1, CapacityAssumption DEF Get
<1>2. ASSUME NEW o \in Objects, NEW item \in Items, Push(o, item)
      PROVE  TypeOK'
  <2>1. begin[o] - 1 \in Cells /\ begin[o] - 1 \in 0 .. Capacity
    BY <1>2, CapacityAssumption DEF Push, Cells
  <2>2. QED
    BY <1>2, <2>1 DEF Push
<1>3. ASSUME NEW o \in Objects, Reset(o)
      PROVE  TypeOK'
  BY <1>3, CapacityAssumption, InitializersAssumption DEF Reset
<1>4. ASSUME NEW o \in Objects, NEW source \in Objects, Assign(o, source)
      PROVE  TypeOK'
  BY <1>4 DEF Assign
<1>5. CASE UNCHANGED vars
  BY <1>5 DEF vars
<1>6. QED
  BY <1>1, <1>2, <1>3, <1>4, <1>5 DEF Next

\* No call moves `begin' outside the array (FixedSizeValueStack.hpp:47-58).
THEOREM TypeCorrect == Spec => []TypeOK
BY InitType, NextType, PTL DEF Spec

-----------------------------------------------------------------------------
(* The refinement.                                                         *)

\* The contents of an object are a sequence of items.
LEMMA ContentsSeq ==
  ASSUME TypeOK, NEW o \in Objects
  PROVE  /\ StackSize(o) \in 0 .. Capacity
         /\ Contents(o) \in Seq(Items)
         /\ Len(Contents(o)) = StackSize(o)
         /\ DOMAIN Contents(o) = 1 .. StackSize(o)
         /\ \A i \in 1 .. StackSize(o) : Contents(o)[i] = array[o][begin[o] + i - 1]
<1>1. StackSize(o) \in 0 .. Capacity
  BY CapacityAssumption DEF TypeOK, StackSize
<1>2. ASSUME NEW i \in 1 .. StackSize(o)
      PROVE  array[o][begin[o] + i - 1] \in Items
  BY <1>1, CapacityAssumption DEF TypeOK, StackSize, Cells
<1>3. QED
  BY <1>1, <1>2 DEF Contents

\* An object that has just been reset holds what its initializer produces.
LEMMA ContentsReset ==
  ASSUME NEW o, array[o] = initializer[o], begin[o] = 0
  PROVE  Contents(o) = Refill(initializer[o])
BY CapacityAssumption DEF Contents, Refill, StackSize

LEMMA InitRefines == Init => Abstract!Init
<1> SUFFICES ASSUME Init PROVE Abstract!Init
  OBVIOUS
<1>1. \A o \in Objects : Contents(o) = Refill(initializer[o])
  BY ContentsReset DEF Init
<1>2. QED
  BY <1>1 DEF Init, Abstract!Init

\* Two contents of the same length and items are the same sequence.
LEMMA ContentsNext ==
  ASSUME TypeOK, TypeOK', NEW o \in Objects, NEW s \in Seq(Items),
         Len(s) = StackSize(o)',
         \A i \in 1 .. Len(s) : array'[o][begin'[o] + i - 1] = s[i]
  PROVE  Contents(o)' = s
<1>1. /\ Contents(o)' \in Seq(Items) /\ Len(Contents(o)') = StackSize(o)'
      /\ \A i \in 1 .. StackSize(o)' : Contents(o)'[i] = array'[o][begin'[o] + i - 1]
  <2>1. StackSize(o)' \in 0 .. Capacity
    BY CapacityAssumption DEF TypeOK, StackSize
  <2>2. ASSUME NEW i \in 1 .. StackSize(o)'
        PROVE  array'[o][begin'[o] + i - 1] \in Items
    BY <2>1, CapacityAssumption DEF TypeOK, StackSize, Cells
  <2>3. QED
    BY <2>1, <2>2 DEF Contents
<1>2. \A i \in 1 .. Len(s) : Contents(o)'[i] = s[i]
  BY <1>1
<1>3. QED
  <2> DEFINE t == Contents(o)'
  <2>1. t \in Seq(Items) /\ Len(s) = Len(t) /\ \A i \in 1 .. Len(s) : s[i] = t[i]
    BY <1>1, <1>2
  <2> HIDE DEF t
  <2>2. s = t
    BY <2>1, SeqEqual
  <2>3. QED
    BY <2>2 DEF t

LEMMA GetRefines ==
  ASSUME TypeOK, TypeOK', NEW o \in Objects, Get(o)
  PROVE  Abstract!Get(o)
<1> SUFFICES ASSUME NEW s, s = Contents(o), NEW n, n = StackSize(o), NEW b, b = begin[o]
             PROVE  Abstract!Get(o)
  OBVIOUS
<1>1. /\ n \in 1 .. Capacity /\ s \in Seq(Items) /\ Len(s) = n /\ s # <<>>
      /\ \A i \in 1 .. n : s[i] = array[o][b + i - 1]
  <2>1. n # 0
    BY CapacityAssumption DEF Get, StackSize, TypeOK
  <2>2. QED
    BY <2>1, ContentsSeq, CapacityAssumption
<1>2. begin'[o] = b + 1 /\ array' = array /\ b \in Int
  BY DEF Get, TypeOK
<1>3. /\ Tail(s) \in Seq(Items) /\ Len(Tail(s)) = n - 1
      /\ \A i \in 1 .. n - 1 : Tail(s)[i] = s[i + 1]
  BY <1>1
<1>4. Contents(o)' = Tail(s)
  <2>1. StackSize(o)' = n - 1
    BY <1>2, CapacityAssumption DEF StackSize, TypeOK
  <2>2. ASSUME NEW i \in 1 .. n - 1
        PROVE  array'[o][begin'[o] + i - 1] = Tail(s)[i]
    <3>1. i + 1 \in 1 .. n /\ b + (i + 1) - 1 = (b + 1) + i - 1
      BY <1>1, <1>2, CapacityAssumption
    <3>2. QED
      BY <1>1, <1>2, <1>3, <3>1
  <2>3. QED
    BY <1>3, <2>1, <2>2, ContentsNext
<1>5. \A q \in Objects \ {o} : Contents(q)' = Contents(q)
  BY DEF Get, TypeOK, Contents, StackSize
<1>6. UNCHANGED initializer
  BY DEF Get
<1>7. QED
  BY <1>1, <1>4, <1>5, <1>6 DEF Abstract!Get

LEMMA PushRefines ==
  ASSUME TypeOK, TypeOK', NEW o \in Objects, NEW item \in Items, Push(o, item)
  PROVE  Abstract!Push(o, item)
<1> SUFFICES ASSUME NEW s, s = Contents(o), NEW n, n = StackSize(o), NEW b, b = begin[o]
             PROVE  Abstract!Push(o, item)
  OBVIOUS
<1>1. /\ n \in 0 .. Capacity - 1 /\ s \in Seq(Items) /\ Len(s) = n
      /\ \A i \in 1 .. n : s[i] = array[o][b + i - 1]
  <2>1. n # Capacity
    BY CapacityAssumption DEF Push, StackSize, TypeOK
  <2>2. QED
    BY <2>1, ContentsSeq, CapacityAssumption
<1>2. /\ begin'[o] = b - 1 /\ b \in Int /\ b - 1 \in Cells
      /\ \A j \in Cells : array'[o][j] = IF j = b - 1 THEN item ELSE array[o][j]
  BY CapacityAssumption DEF Push, TypeOK, Cells
<1>3. /\ <<item>> \o s \in Seq(Items) /\ Len(<<item>> \o s) = n + 1
      /\ \A i \in 1 .. n + 1 : (<<item>> \o s)[i] = IF i = 1 THEN item ELSE s[i - 1]
  BY <1>1
<1>4. Contents(o)' = <<item>> \o s
  <2>1. StackSize(o)' = n + 1 /\ n = Capacity - b
    BY <1>2, CapacityAssumption DEF StackSize, TypeOK
  <2>2. ASSUME NEW i \in 1 .. n + 1
        PROVE  array'[o][begin'[o] + i - 1] = (<<item>> \o s)[i]
    <3>1. CASE i = 1
      BY <1>2, <1>3, <3>1
    <3>2. CASE i # 1
      <4>1. n \in Nat /\ b \in Nat /\ n = Capacity - b /\ Capacity \in Nat
        BY <1>1, <2>1, CapacityAssumption DEF TypeOK
      <4>2. i - 1 \in 1 .. n /\ (b - 1) + i - 1 = b + (i - 1) - 1
        BY <3>2, <4>1
      <4>3. (b - 1) + i - 1 \in Cells /\ (b - 1) + i - 1 # b - 1
        BY <3>2, <4>1 DEF Cells
      <4>4. array'[o][(b - 1) + i - 1] = array[o][b + (i - 1) - 1]
        BY <1>2, <4>2, <4>3
      <4>5. QED
        BY <1>1, <1>2, <1>3, <3>2, <4>2, <4>4
    <3>3. QED
      BY <3>1, <3>2
  <2>3. QED
    BY <1>3, <2>1, <2>2, ContentsNext
<1>5. \A q \in Objects \ {o} : Contents(q)' = Contents(q)
  BY DEF Push, TypeOK, Contents, StackSize
<1>6. UNCHANGED initializer
  BY DEF Push
<1>7. Len(s) < Capacity
  BY <1>1, CapacityAssumption
<1>8. QED
  BY <1>4, <1>5, <1>6, <1>7 DEF Abstract!Push

LEMMA ResetRefines ==
  ASSUME TypeOK, NEW o \in Objects, Reset(o)
  PROVE  Abstract!Reset(o)
<1>1. Contents(o)' = Refill(initializer[o])
  <2>1. array'[o] = initializer[o] /\ begin'[o] = 0
    BY DEF Reset, TypeOK
  <2>2. QED
    BY <2>1, CapacityAssumption DEF Contents, Refill, StackSize
<1>2. \A q \in Objects \ {o} : Contents(q)' = Contents(q)
  BY DEF Reset, TypeOK, Contents, StackSize
<1>3. UNCHANGED initializer
  BY DEF Reset
<1>4. QED
  BY <1>1, <1>2, <1>3 DEF Abstract!Reset

LEMMA AssignRefines ==
  ASSUME TypeOK, NEW o \in Objects, NEW source \in Objects, Assign(o, source)
  PROVE  Abstract!Assign(o, source)
<1>1. Contents(o)' = Contents(source)
  BY DEF Assign, TypeOK, Contents, StackSize
<1>2. \A q \in Objects \ {o} : Contents(q)' = Contents(q)
  BY DEF Assign, TypeOK, Contents, StackSize
<1>3. initializer' = [initializer EXCEPT ![o] = initializer[source]]
  BY DEF Assign
<1>4. [q \in Objects |-> Refill(initializer'[q])]
        = [[q \in Objects |-> Refill(initializer[q])] EXCEPT ![o] = Refill(initializer[source])]
  BY <1>3 DEF TypeOK
<1>5. QED
  BY <1>1, <1>2, <1>4 DEF Abstract!Assign

\* Every step of the array implementation is a step of the stack it implements.
LEMMA NextRefines == TypeOK /\ TypeOK' /\ [Next]_vars => [Abstract!Next]_(Abstract!vars)
<1> SUFFICES ASSUME TypeOK, TypeOK', [Next]_vars PROVE [Abstract!Next]_(Abstract!vars)
  OBVIOUS
<1>1. ASSUME NEW o \in Objects, Get(o)
      PROVE  Abstract!Next
  BY <1>1, GetRefines DEF Abstract!Next
<1>2. ASSUME NEW o \in Objects, NEW item \in Items, Push(o, item)
      PROVE  Abstract!Next
  BY <1>2, PushRefines DEF Abstract!Next
<1>3. ASSUME NEW o \in Objects, Reset(o)
      PROVE  Abstract!Next
  BY <1>3, ResetRefines DEF Abstract!Next
<1>4. ASSUME NEW o \in Objects, NEW source \in Objects, Assign(o, source)
      PROVE  Abstract!Next
  BY <1>4, AssignRefines DEF Abstract!Next
<1>5. CASE UNCHANGED vars
  <2>1. \A o \in Objects : Contents(o)' = Contents(o)
    BY <1>5 DEF vars, Contents, StackSize
  <2>2. QED
    BY <1>5, <2>1 DEF vars, Abstract!vars
<1>6. QED
  BY <1>1, <1>2, <1>3, <1>4, <1>5 DEF Next

\* The array with its moving `begin' is a bounded LIFO stack per object
\* (FixedSizeValueStack.hpp:36-65).
THEOREM StackCorrect == Spec => RefinesValueStack
BY InitRefines, NextRefines, TypeCorrect, PTL DEF Spec, Abstract!Spec, RefinesValueStack
=============================================================================
