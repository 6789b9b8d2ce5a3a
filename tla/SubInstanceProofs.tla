------------------------- MODULE SubInstanceProofs --------------------------
(***************************************************************************)
(* The matrices of raw-mm, for every size of a pointer and of an element   *)
(* and every number of rows and columns, and with them the cost matrix of  *)
(* an instance for any number of vertices.  Instances for every file they  *)
(* may be read from and any number of views over each other: the inverse   *)
(* of a mapping stays one, the fields keep their types, and demands, costs *)
(* and neighbour lists are what the solution code takes for granted.       *)
(***************************************************************************)
EXTENDS SubInstance, RingsProofs

(* Matrices: the cells share no byte with each other or with the row       *)
(* pointers, and the block holds them all.                                 *)

\* The bytes of a cell.
CellBytes(rows, columns, i, j) ==
  CellAddress(rows, columns, i, j) .. CellAddress(rows, columns, i, j) + ElementBytes - 1

-----------------------------------------------------------------------------

LEMMA ProductNat == \A a, b \in Nat : a * b \in Nat
OBVIOUS

LEMMA ProductMonotone ==
  ASSUME NEW a \in Nat, NEW b \in Nat, NEW c \in Nat, a <= b
  PROVE  a * c <= b * c
<1>1. PICK d \in Nat : b = a + d
  <2>1. b - a \in Nat /\ b = a + (b - a)
    OBVIOUS
  <2>2. QED
    BY <2>1
<1>2. b * c = a * c + d * c
  BY <1>1
<1>3. QED
  BY <1>2, ProductNat

\* The cells are numbered row by row.
LEMMA CellNumber ==
  ASSUME NEW rows \in Nat, NEW columns \in Nat, NEW i \in 0 .. rows - 1, NEW j \in 0 .. columns - 1
  PROVE  /\ i * columns + j \in 0 .. rows * columns - 1
         /\ CellAddress(rows, columns, i, j) =
              rows * PointerBytes + (i * columns + j) * ElementBytes
<1>1. i * columns \in Nat /\ i \in Nat /\ j \in Nat /\ i + 1 <= rows /\ j + 1 <= columns
  BY ProductNat
<1>2. (i + 1) * columns <= rows * columns
  BY <1>1, ProductMonotone
<1>3. (i + 1) * columns = i * columns + columns
  BY <1>1
<1>4. i * columns + j \in 0 .. rows * columns - 1
  <2>1. rows * columns \in Nat
    BY ProductNat
  <2>2. QED
    BY <1>1, <1>2, <1>3, <2>1
<1>5. (i * columns) * ElementBytes + j * ElementBytes = (i * columns + j) * ElementBytes
  BY <1>1, BytesAssumption
<1>6. CellAddress(rows, columns, i, j) =
        rows * PointerBytes + (i * columns) * ElementBytes + j * ElementBytes
  BY DEF CellAddress, RowPointer, BaseAddress
<1>7. QED
  <2>1. /\ rows * PointerBytes \in Nat /\ (i * columns) * ElementBytes \in Nat
        /\ j * ElementBytes \in Nat
    BY <1>1, ProductNat, BytesAssumption
  <2>2. QED
    BY <1>4, <1>5, <1>6, <2>1

\* Two cells of a matrix have different numbers.
LEMMA NumbersDiffer ==
  ASSUME NEW columns \in Nat, NEW i \in Nat, NEW k \in Nat,
         NEW j \in 0 .. columns - 1, NEW l \in 0 .. columns - 1,
         i < k
  PROVE  i * columns + j < k * columns + l
<1>1. (i + 1) * columns <= k * columns
  BY ProductMonotone
<1>2. (i + 1) * columns = i * columns + columns /\ i * columns \in Nat /\ k * columns \in Nat
  BY ProductNat
<1>3. QED
  BY <1>1, <1>2

\* Cells of different numbers lie apart.
LEMMA ApartByNumber ==
  ASSUME NEW base \in Nat, NEW m \in Nat, NEW n \in Nat, m < n
  PROVE  base + m * ElementBytes + ElementBytes - 1 < base + n * ElementBytes
<1>1. (m + 1) * ElementBytes <= n * ElementBytes
  BY ProductMonotone, BytesAssumption
<1>2. /\ (m + 1) * ElementBytes = m * ElementBytes + ElementBytes
      /\ m * ElementBytes \in Nat /\ n * ElementBytes \in Nat /\ ElementBytes \in Nat
  BY ProductNat, BytesAssumption
<1>3. QED
  BY <1>1, <1>2

LEMMA CellsApart ==
  ASSUME NEW rows \in Nat, NEW columns \in Nat,
         NEW i \in 0 .. rows - 1, NEW j \in 0 .. columns - 1,
         NEW k \in 0 .. rows - 1, NEW l \in 0 .. columns - 1,
         i < k \/ (i = k /\ j < l)
  PROVE  CellAddress(rows, columns, i, j) + ElementBytes - 1 < CellAddress(rows, columns, k, l)
<1> DEFINE m == i * columns + j
           n == k * columns + l
           base == rows * PointerBytes
<1>1. /\ m \in Nat /\ n \in Nat /\ base \in Nat
      /\ CellAddress(rows, columns, i, j) = base + m * ElementBytes
      /\ CellAddress(rows, columns, k, l) = base + n * ElementBytes
  <2>1. rows * columns \in Nat /\ base \in Nat
    BY ProductNat, BytesAssumption
  <2>2. QED
    BY <2>1, CellNumber
<1>2. m < n
  <2>1. CASE i < k
    BY <2>1, NumbersDiffer
  <2>2. CASE i = k /\ j < l
    <3>1. i * columns \in Nat
      BY ProductNat
    <3>2. QED
      BY <2>2, <3>1
  <2>3. QED
    BY <2>1, <2>2
<1> HIDE DEF m, n, base
<1>3. QED
  BY <1>1, <1>2, ApartByNumber

-----------------------------------------------------------------------------

\* Writing a cell of a matrix changes no other one (mm.hpp:32-50: the pointer to each
\* row is computed from its index, in bytes of another type).
THEOREM CellsDisjoint ==
  ASSUME NEW rows \in Nat, NEW columns \in Nat,
         NEW i \in 0 .. rows - 1, NEW j \in 0 .. columns - 1,
         NEW k \in 0 .. rows - 1, NEW l \in 0 .. columns - 1,
         <<i, j>> # <<k, l>>
  PROVE  CellBytes(rows, columns, i, j) \cap CellBytes(rows, columns, k, l) = {}
<1>1. CellAddress(rows, columns, i, j) \in Int /\ CellAddress(rows, columns, k, l) \in Int
  BY CellNumber, BytesAssumption, ProductNat
<1>2. \/ i < k \/ (i = k /\ j < l)
      \/ k < i \/ (k = i /\ l < j)
  OBVIOUS
<1>3. \/ CellAddress(rows, columns, i, j) + ElementBytes - 1 < CellAddress(rows, columns, k, l)
      \/ CellAddress(rows, columns, k, l) + ElementBytes - 1 < CellAddress(rows, columns, i, j)
  BY <1>2, CellsApart
<1>4. QED
  BY <1>1, <1>3, BytesAssumption DEF CellBytes

\* The cells start after the row pointers and end with the block.
THEOREM CellsInBlock ==
  ASSUME NEW rows \in Nat, NEW columns \in Nat,
         NEW i \in 0 .. rows - 1, NEW j \in 0 .. columns - 1
  PROVE  /\ CellBytes(rows, columns, i, j) \subseteq rows * PointerBytes .. BlockSize(rows, columns) - 1
         /\ CellAddress(rows, columns, i, j) \in DataAddresses(rows, columns)
<1> DEFINE n == i * columns + j
           base == rows * PointerBytes
           all == rows * columns
<1>1. /\ n \in 0 .. all - 1 /\ all \in Nat /\ base \in Nat
      /\ CellAddress(rows, columns, i, j) = base + n * ElementBytes
  BY CellNumber, ProductNat, BytesAssumption
<1>2. BlockSize(rows, columns) = base + all * ElementBytes
  <2>1. columns * rows = rows * columns
    OBVIOUS
  <2>2. QED
    BY <1>1, <2>1, ProductNat, BytesAssumption DEF BlockSize
<1>3. CellAddress(rows, columns, i, j) \in DataAddresses(rows, columns)
  BY <1>1 DEF DataAddresses, BaseAddress
<1> HIDE DEF n, base, all
<1>4. base + n * ElementBytes + ElementBytes - 1 < base + all * ElementBytes
  BY <1>1, ApartByNumber
<1>5. n * ElementBytes \in Nat /\ all * ElementBytes \in Nat
  BY <1>1, ProductNat, BytesAssumption
<1>6. CellBytes(rows, columns, i, j) \subseteq base .. base + all * ElementBytes - 1
  BY <1>1, <1>4, <1>5, BytesAssumption DEF CellBytes
<1>7. CellBytes(rows, columns, i, j) \subseteq base .. BlockSize(rows, columns) - 1
  BY <1>1, <1>2, <1>5, <1>6
<1>8. QED
  BY <1>3, <1>7, Zenon DEF base

-----------------------------------------------------------------------------
(* Views.                                                                  *)

IsView(view) ==
  \E m, r, n : view = [mapping |-> m, reverse |-> r, neighbors |-> n]

\* What ReverseInverse asks of a view, and that no vertex of the chunk is missing: the
\* entry that a question inserts is never one that the mapping uses.
InverseSound(view) ==
  /\ Range(view.mapping) \subseteq DOMAIN view.reverse
  /\ \A i \in DOMAIN view.mapping : view.reverse[view.mapping[i]] = i
  /\ \A v \in DOMAIN view.reverse \ Range(view.mapping) : view.reverse[v] = 0

ChainInv ==
  /\ \E V : chain \in Seq(V)
  /\ \A k \in 1 .. Len(chain) : IsView(chain[k]) /\ InverseSound(chain[k])

-----------------------------------------------------------------------------

\* The constructor: the customers are different, and none is the depot.
LEMMA NewViewSound ==
  ASSUME NEW k, NEW customers \in Chunks(k)
  PROVE  InverseSound([mapping |-> MappingOf(customers),
                       reverse |-> ReverseOf(customers),
                       neighbors |-> <<>>])
<1> DEFINE m == MappingOf(customers)
           r == ReverseOf(customers)
<1>1. PICK n \in Nat : customers \in [1 .. n -> VerticesOf(k) \ {0}] /\ IsInjective(customers)
  BY DEF Chunks
<1>2. Len(customers) = n /\ DOMAIN customers = 1 .. n /\ 0 \notin Range(customers)
  BY <1>1 DEF Range
<1>3. /\ DOMAIN m = 0 .. n
      /\ m[0] = 0 /\ \A i \in 1 .. n : m[i] = customers[i] /\ customers[i] \in Range(customers)
  BY <1>1, <1>2 DEF MappingOf, Range
<1>4. /\ DOMAIN r = Range(customers) \cup {0} /\ r[0] = 0
      /\ \A i \in 1 .. n : r[customers[i]] = i
  <2>1. DOMAIN r = Range(customers) \cup {0} /\ r[0] = 0
    BY DEF ReverseOf
  <2>2. ASSUME NEW i \in 1 .. n
        PROVE  r[customers[i]] = i
    <3>1. customers[i] \in Range(customers) /\ customers[i] # 0
      BY <1>2, <2>2 DEF Range
    <3>2. r[customers[i]] = CHOOSE j \in DOMAIN customers : customers[j] = customers[i]
      BY <3>1 DEF ReverseOf
    <3>3. \A j \in DOMAIN customers : customers[j] = customers[i] => j = i
      BY <1>1, <1>2, <2>2 DEF IsInjective
    <3>4. QED
      BY <1>2, <2>2, <3>2, <3>3
  <2>3. QED
    BY <2>1, <2>2
<1>5. \A i \in 0 .. n : i = 0 \/ i \in 1 .. n
  BY <1>1
<1>6. Range(m) = Range(customers) \cup {0}
  <2>1. Range(m) \subseteq Range(customers) \cup {0}
    BY <1>3, <1>5 DEF Range
  <2>2. Range(customers) \cup {0} \subseteq Range(m)
    <3>1. 0 \in 0 .. n /\ 1 .. n \subseteq 0 .. n
      BY <1>1
    <3> HIDE DEF m
    <3>2. QED
      BY <1>2, <1>3, <3>1 DEF Range
  <2>3. QED
    BY <2>1, <2>2
<1>7. \A i \in DOMAIN m : r[m[i]] = i
  BY <1>3, <1>4, <1>5
<1> HIDE DEF m, r
<1>8. QED
  BY <1>4, <1>6, <1>7 DEF InverseSound, m, r

\* A question, for a vertex of the chunk or another one.
LEMMA AskedViewSound ==
  ASSUME NEW view, InverseSound(view), NEW v, NEW asked,
         asked.mapping = view.mapping,
         asked.reverse = [u \in DOMAIN view.reverse \cup {v} |->
                            IF u \in DOMAIN view.reverse THEN view.reverse[u] ELSE 0]
  PROVE  InverseSound(asked)
<1>1. DOMAIN asked.reverse = DOMAIN view.reverse \cup {v}
  OBVIOUS
<1>2. \A u \in DOMAIN view.reverse : asked.reverse[u] = view.reverse[u]
  OBVIOUS
<1>3. \A i \in DOMAIN view.mapping : view.mapping[i] \in Range(view.mapping)
  BY DEF Range
<1>4. \A u \in DOMAIN asked.reverse \ DOMAIN view.reverse : asked.reverse[u] = 0
  OBVIOUS
<1>5. QED
  BY <1>1, <1>2, <1>3, <1>4 DEF InverseSound

LEMMA ChainInvAfter ==
  ASSUME NEW V, chain' \in Seq(V),
         \A k \in 1 .. Len(chain') : IsView(chain'[k]) /\ InverseSound(chain'[k])
  PROVE  ChainInv'
<1>1. \E W : chain' \in Seq(W)
  OBVIOUS
<1>2. (\A k \in 1 .. Len(chain) : IsView(chain[k]) /\ InverseSound(chain[k]))'
  BY DEF IsView, InverseSound
<1>3. QED
  BY <1>1, <1>2 DEF ChainInv

\* A chain of which one view is replaced, or to which one is added.
LEMMA ReplacedView ==
  ASSUME ChainInv, NEW k \in 1 .. Len(chain), NEW view, IsView(view), InverseSound(view),
         chain' = [chain EXCEPT ![k] = view]
  PROVE  ChainInv'
<1>1. PICK V : chain \in Seq(V)
  BY DEF ChainInv
<1>2. chain \in Seq(V \cup {view}) /\ view \in V \cup {view}
  BY <1>1
<1>3. /\ chain' \in Seq(V \cup {view}) /\ Len(chain') = Len(chain)
      /\ \A j \in 1 .. Len(chain) : chain'[j] = IF j = k THEN view ELSE chain[j]
  BY <1>2, ExceptSeq
<1>4. \A j \in 1 .. Len(chain') : IsView(chain'[j]) /\ InverseSound(chain'[j])
  BY <1>3 DEF ChainInv
<1>5. QED
  BY <1>3, <1>4, ChainInvAfter

LEMMA AddedView ==
  ASSUME ChainInv, NEW view, IsView(view), InverseSound(view), chain' = Append(chain, view)
  PROVE  ChainInv'
<1>1. PICK V : chain \in Seq(V)
  BY DEF ChainInv
<1>2. chain \in Seq(V \cup {view}) /\ view \in V \cup {view}
  BY <1>1
<1>3. /\ chain' \in Seq(V \cup {view}) /\ Len(chain') = Len(chain) + 1 /\ Len(chain) \in Nat
      /\ \A j \in 1 .. Len(chain) : chain'[j] = chain[j]
      /\ chain'[Len(chain) + 1] = view
  BY <1>2, AppendProperties, LenProperties
<1>4. \A j \in 1 .. Len(chain') : j \in 1 .. Len(chain) \/ j = Len(chain) + 1
  BY <1>3
<1>5. \A j \in 1 .. Len(chain') : IsView(chain'[j]) /\ InverseSound(chain'[j])
  BY <1>3, <1>4 DEF ChainInv
<1>6. QED
  BY <1>3, <1>5, ChainInvAfter

LEMMA EmptyChain == chain' = <<>> => ChainInv'
<1> SUFFICES ASSUME chain' = <<>> PROVE ChainInv'
  OBVIOUS
<1>1. chain' \in Seq({}) /\ Len(chain') = 0
  OBVIOUS
<1>2. QED
  BY <1>1 DEF ChainInv

LEMMA DecomposeInv == ChainInv /\ Decompose => ChainInv'
<1> SUFFICES ASSUME ChainInv, Decompose PROVE ChainInv'
  OBVIOUS
<1>1. PICK customers \in Chunks(Depth) :
        chain' = Append(chain, [mapping |-> MappingOf(customers),
                                reverse |-> ReverseOf(customers), neighbors |-> <<>>])
  BY DEF Decompose
<1>2. QED
  BY <1>1, NewViewSound, AddedView DEF IsView

LEMMA SortSubNeighborsInv == ChainInv /\ SortSubNeighbors => ChainInv'
<1> SUFFICES ASSUME ChainInv, SortSubNeighbors PROVE ChainInv'
  OBVIOUS
<1>1. PICK near : chain' = [chain EXCEPT ![Depth].neighbors = near]
  BY Zenon DEF SortSubNeighbors
<1>2. Depth \in 1 .. Len(chain)
  <2>1. Len(chain) \in Nat
    <3>1. PICK V : chain \in Seq(V)
      BY DEF ChainInv
    <3>2. QED
      BY <3>1, LenProperties
  <2>2. Depth > 0
    BY Zenon DEF SortSubNeighbors
  <2>3. QED
    BY <2>1, <2>2 DEF Depth
<1>3. PICK m, r, n : chain[Depth] = [mapping |-> m, reverse |-> r, neighbors |-> n]
  BY <1>2 DEF ChainInv, IsView
<1>4. chain' = [chain EXCEPT ![Depth] = [mapping |-> m, reverse |-> r, neighbors |-> near]]
  <2>1. chain' = [chain EXCEPT ![Depth] = [chain[Depth] EXCEPT !.neighbors = near]]
    BY <1>1
  <2>2. [chain[Depth] EXCEPT !.neighbors = near] = [mapping |-> m, reverse |-> r, neighbors |-> near]
    BY <1>3
  <2>3. QED
    BY <2>1, <2>2
<1>5. InverseSound([mapping |-> m, reverse |-> r, neighbors |-> near])
  BY <1>2, <1>3 DEF ChainInv, InverseSound
<1>6. QED
  BY <1>2, <1>4, <1>5, ReplacedView DEF IsView

LEMMA AskInv ==
  ASSUME ChainInv, NEW k \in 1 .. Depth, NEW v, get_reverse_mapping(k, v)
  PROVE  ChainInv'
<1>1. k \in 1 .. Len(chain)
  BY DEF Depth
<1>2. PICK m, r, n : chain[k] = [mapping |-> m, reverse |-> r, neighbors |-> n]
  BY <1>1 DEF ChainInv, IsView
<1> DEFINE r2 == [u \in DOMAIN r \cup {v} |-> IF u \in DOMAIN r THEN r[u] ELSE 0]
           asked == [mapping |-> m, reverse |-> r2, neighbors |-> n]
<1>3. chain' = [chain EXCEPT ![k] = asked]
  <2>1. chain' = [chain EXCEPT ![k] = [chain[k] EXCEPT !.reverse =
                     [u \in DOMAIN chain[k].reverse \cup {v} |->
                        IF u \in DOMAIN chain[k].reverse THEN chain[k].reverse[u] ELSE 0]]]
    BY DEF get_reverse_mapping, ReverseMappingRead
  <2>2. chain[k].reverse = r
    BY <1>2
  <2>3. [chain[k] EXCEPT !.reverse = r2] = asked
    BY <1>2
  <2>4. QED
    BY <2>1, <2>2, <2>3
<1>4. InverseSound(asked)
  <2>1. InverseSound(chain[k]) /\ chain[k].mapping = m /\ chain[k].reverse = r
    BY <1>1, <1>2 DEF ChainInv
  <2>2. asked.mapping = m /\ asked.reverse = r2
    OBVIOUS
  <2> HIDE DEF asked
  <2>3. QED
    BY <2>1, <2>2, AskedViewSound
<1>5. IsView(asked)
  BY DEF IsView
<1> HIDE DEF asked
<1>6. QED
  BY <1>1, <1>3, <1>4, <1>5, ReplacedView

LEMMA SameChain == ChainInv /\ UNCHANGED chain => ChainInv'
<1> SUFFICES ASSUME ChainInv, chain' = chain PROVE ChainInv'
  OBVIOUS
<1>1. PICK V : chain \in Seq(V)
  BY DEF ChainInv
<1>2. QED
  BY <1>1, ChainInvAfter DEF ChainInv

LEMMA ChainStep == ChainInv /\ [Step]_vars => ChainInv'
<1> SUFFICES ASSUME ChainInv, [Step]_vars PROVE ChainInv'
  OBVIOUS
<1>1. CASE ConstructInstance
  BY <1>1, SameChain DEF ConstructInstance, subVars
<1>2. CASE SortSubNeighbors
  BY <1>2, SortSubNeighborsInv
<1>3. CASE Decompose
  BY <1>3, DecomposeInv
<1>4. CASE \E k \in 1 .. Depth : \E v \in VerticesOf(k - 1) : get_reverse_mapping(k, v)
  BY <1>4, AskInv
<1>5. CASE serialize
  BY <1>5, SameChain DEF serialize
<1>6. CASE Reopen
  BY <1>6, EmptyChain DEF Reopen
<1>7. CASE UNCHANGED vars
  BY <1>7, SameChain DEF vars, subVars
<1>8. QED
  BY <1>1, <1>2, <1>3, <1>4, <1>5, <1>6, <1>7 DEF Step

-----------------------------------------------------------------------------

\* However often the inverse of a view has been asked, and for whatever vertex, it
\* takes the chunk back and answers the depot for the rest (SubInstance.hpp:87-89).
THEOREM ReverseCorrect == Spec => []ReverseInverse
<1>1. SubInit => ChainInv
  <2> SUFFICES ASSUME SubInit PROVE ChainInv
    OBVIOUS
  <2>1. chain \in Seq({}) /\ Len(chain) = 0
    BY DEF SubInit
  <2>2. QED
    BY <2>1 DEF ChainInv
<1>2. ChainInv => ReverseInverse
  BY DEF ChainInv, InverseSound, ReverseInverse, Depth
<1>3. QED
  BY <1>1, <1>2, ChainStep, PTL DEF Spec

-----------------------------------------------------------------------------
(* The cost matrix.                                                        *)

\* Two cells have two addresses, so that a loop writes what it means to.
LEMMA AddressUnique ==
  ASSUME matrix_size \in Nat,
         NEW i \in AllVertices(matrix_size), NEW j \in AllVertices(matrix_size),
         NEW k \in AllVertices(matrix_size), NEW l \in AllVertices(matrix_size),
         Address(i, j) = Address(k, l)
  PROVE  i = k /\ j = l
<1>1. {i, j, k, l} \subseteq 0 .. matrix_size - 1
  BY DEF AllVertices
<1>2. CellAddress(matrix_size, matrix_size, i, j) = CellAddress(matrix_size, matrix_size, k, l)
  BY DEF Address
<1>3. CellAddress(matrix_size, matrix_size, i, j) \in Int
  BY <1>1, CellNumber, ProductNat, BytesAssumption
<1> SUFFICES ASSUME <<i, j>> # <<k, l>> PROVE FALSE
  OBVIOUS
<1>4. \/ i < k \/ (i = k /\ j < l)
      \/ k < i \/ (k = i /\ l < j)
  BY <1>1
<1>5. \/ CellAddress(matrix_size, matrix_size, i, j) + ElementBytes - 1
           < CellAddress(matrix_size, matrix_size, k, l)
      \/ CellAddress(matrix_size, matrix_size, k, l) + ElementBytes - 1
           < CellAddress(matrix_size, matrix_size, i, j)
  BY <1>1, <1>4, CellsApart
<1>6. QED
  BY <1>2, <1>3, <1>5, BytesAssumption

LEMMA FilledCell ==
  ASSUME matrix_size \in Nat,
         NEW i \in AllVertices(matrix_size), NEW j \in AllVertices(matrix_size)
  PROVE  FilledMatrix[Address(i, j)] = IF i = j THEN 0 ELSE Distance(i, j)
<1> DEFINE V == AllVertices(matrix_size)
           here == {p \in V \X V : p[1] # p[2] /\ Address(p[1], p[2]) = Address(i, j)}
           chosen == CHOOSE p \in here : TRUE
           data == DataAddresses(matrix_size, matrix_size)
<1>1. Address(i, j) \in data
  BY CellsInBlock DEF Address, AllVertices
<1>2. FilledMatrix[Address(i, j)] =
        IF here = {} THEN ZeroedData(matrix_size, matrix_size)[Address(i, j)]
        ELSE Distance(chosen[1], chosen[2])
  BY <1>1 DEF FilledMatrix
<1>3. ZeroedData(matrix_size, matrix_size)[Address(i, j)] = 0
  BY <1>1 DEF ZeroedData
<1>4. \A p \in here : p = <<i, j>>
  <2> SUFFICES ASSUME NEW p \in here PROVE p = <<i, j>>
    OBVIOUS
  <2>1. p[1] \in V /\ p[2] \in V /\ p = <<p[1], p[2]>> /\ Address(p[1], p[2]) = Address(i, j)
    OBVIOUS
  <2>2. QED
    BY <2>1, AddressUnique
<1>5. CASE i = j
  <2>1. here = {}
    BY <1>4, <1>5
  <2>2. QED
    BY <1>2, <1>3, <1>5, <2>1
<1>6. CASE i # j
  <2>1. <<i, j>> \in here
    BY <1>6
  <2>2. chosen = <<i, j>> /\ here # {}
    BY <1>4, <2>1
  <2> HIDE DEF here, chosen
  <2>3. chosen[1] = i /\ chosen[2] = j
    BY <2>2
  <2>4. QED
    BY <1>2, <1>6, <2>2, <2>3
<1>7. QED
  BY <1>5, <1>6

\* What the solution code assumes of costs, and the model of it as CostAssumption: the
\* two loops that fill the block give it a zero diagonal, of which they write all but
\* one cell, and the same cost both ways (Instance.cpp:35-49).
THEOREM CostsSymmetric ==
  ASSUME matrix_size \in Nat,
         \A v \in AllVertices(matrix_size) : x_coordinates[v] \in Nat /\ y_coordinates[v] \in Nat,
         NEW i \in AllVertices(matrix_size), NEW j \in AllVertices(matrix_size)
  PROVE  /\ FilledMatrix[Address(i, i)] = 0
         /\ FilledMatrix[Address(i, j)] = FilledMatrix[Address(j, i)]
<1>1. \A a, b \in Nat : (a - b) * (a - b) = (b - a) * (b - a)
  OBVIOUS
<1>2. Distance(i, j) = Distance(j, i)
  BY <1>1 DEF Distance
<1>3. FilledMatrix[Address(i, i)] = 0
  BY FilledCell
<1>4. FilledMatrix[Address(i, j)] = IF i = j THEN 0 ELSE Distance(i, j)
  BY FilledCell
<1>5. FilledMatrix[Address(j, i)] = IF j = i THEN 0 ELSE Distance(j, i)
  BY FilledCell
<1>6. QED
  BY <1>2, <1>3, <1>4, <1>5

-----------------------------------------------------------------------------
(* Parsing: the types of the fields, whatever the file.  A parser resizes  *)
(* the vectors when it has converted a capacity, and no later line of its  *)
(* format touches the number of vertices, so that a parser that returns    *)
(* leaves vectors of that size behind.                                     *)

\* A number of a set of numbers bounds its least one.
LEMMA Least ==
  ASSUME NEW n \in Nat, NEW S, n \in S
  PROVE  \E m \in 0 .. n : m \in S /\ \A k \in 0 .. m - 1 : k \notin S
<1> SUFFICES ASSUME \A m \in 0 .. n : m \in S => \E k \in 0 .. m - 1 : k \in S
             PROVE  FALSE
  OBVIOUS
<1> DEFINE None == {k \in 1 .. n + 1 : \A j \in 0 .. k - 1 : j \notin S}
<1>1. 1 \in None
  OBVIOUS
<1>2. ASSUME NEW k \in 1 .. n + 1 - 1, k \in None
      PROVE  k + 1 \in None
  <2>1. k \notin S
    BY <1>2
  <2>2. \A j \in 0 .. (k + 1) - 1 : j \in 0 .. k - 1 \/ j = k
    OBVIOUS
  <2>3. QED
    BY <1>2, <2>1, <2>2
<1> HIDE DEF None
<1>3. 1 .. n + 1 \subseteq None
  BY <1>1, <1>2, AllIndices
<1>4. n + 1 \in None
  BY <1>3
<1>5. QED
  BY <1>4 DEF None

\* The numbers at the start of a line are the ones converted.
LEMMA NumbersFacts ==
  ASSUME NEW l \in Seq(Tokens)
  PROVE  /\ Len(l) \in Nat /\ Numbers(l) \in 0 .. Len(l)
         /\ \A i \in 1 .. Numbers(l) : l[i] \in Nat
         /\ Numbers(l) = Len(l) \/ l[Numbers(l) + 1] \notin Nat
<1> DEFINE S == {k \in 0 .. Len(l) : k = Len(l) \/ l[k + 1] \notin Nat}
<1>1. Len(l) \in Nat
  BY LenProperties
<1>2. PICK m \in 0 .. Len(l) : m \in S /\ \A k \in 0 .. m - 1 : k \notin S
  <2>1. Len(l) \in S
    BY <1>1
  <2> HIDE DEF S
  <2>2. QED
    BY <1>1, <2>1, Least
<1>3. ASSUME NEW i \in 1 .. m
      PROVE  l[i] \in Nat
  <2>1. i - 1 \in 0 .. m - 1 /\ i - 1 \in 0 .. Len(l) /\ (i - 1) + 1 = i /\ i - 1 # Len(l)
    BY <1>1
  <2>2. QED
    BY <1>2, <2>1
<1>4. m = Len(l) \/ l[m + 1] \notin Nat
  BY <1>2
<1>5. \E n \in 0 .. Len(l) : (\A i \in 1 .. n : l[i] \in Nat) /\ (n = Len(l) \/ l[n + 1] \notin Nat)
  BY <1>3, <1>4
<1>6. QED
  BY <1>1, <1>5 DEF Numbers

\* What follows the first colon of a line that has one.
LEMMA FirstColon ==
  ASSUME NEW l \in Seq(Tokens), \E i \in DOMAIN l : l[i] = Colon
  PROVE  \E f \in 1 .. Len(l) : l[f] = Colon /\ AfterColon(l) = SubSeq(l, f + 1, Len(l))
<1> DEFINE S == {i \in 1 .. Len(l) : l[i] = Colon}
           first == CHOOSE i \in DOMAIN l : l[i] = Colon /\ \A j \in 1 .. i - 1 : l[j] # Colon
<1>1. Len(l) \in Nat /\ DOMAIN l = 1 .. Len(l)
  BY LenProperties
<1>2. PICK i \in 1 .. Len(l) : i \in S
  BY <1>1
<1>3. PICK m \in 0 .. i : m \in S /\ \A k \in 0 .. m - 1 : k \notin S
  <2> HIDE DEF S
  <2>1. QED
    BY <1>2, Least
<1>4. m \in DOMAIN l /\ l[m] = Colon /\ \A j \in 1 .. m - 1 : l[j] # Colon
  <2>1. m \in 1 .. Len(l) /\ l[m] = Colon
    BY <1>3
  <2>2. ASSUME NEW j \in 1 .. m - 1 PROVE l[j] # Colon
    <3>1. j \in 0 .. m - 1 /\ j \in 1 .. Len(l)
      BY <1>1, <2>1
    <3>2. QED
      BY <1>3, <3>1
  <2>3. QED
    BY <1>1, <2>1, <2>2
<1>5. first \in 1 .. Len(l) /\ l[first] = Colon
  BY <1>1, <1>4
<1>6. AfterColon(l) = SubSeq(l, first + 1, Len(l))
  BY DEF AfterColon
<1>7. QED
  BY <1>5, <1>6

LEMMA AfterColonType == ASSUME NEW l \in Seq(Tokens) PROVE AfterColon(l) \in Seq(Tokens)
<1>1. CASE \E i \in DOMAIN l : l[i] = Colon
  <2>1. PICK f \in 1 .. Len(l) : AfterColon(l) = SubSeq(l, f + 1, Len(l))
    BY <1>1, FirstColon
  <2>2. Len(l) \in Nat /\ \A j \in f + 1 .. Len(l) : l[j] \in Tokens
    BY LenProperties
  <2>3. f + 1 \in Int /\ Len(l) \in Int
    BY <2>2
  <2>4. QED
    BY <2>1, <2>2, <2>3, SubSeqProperties
<1>2. CASE ~ \E i \in DOMAIN l : l[i] = Colon
  BY <1>2 DEF AfterColon
<1>3. QED
  BY <1>1, <1>2

\* The getline before which the vectors have no size yet.
CapacityLine == IF parser = "zk" THEN 1 ELSE IF parser = "golden" THEN 5 ELSE 6

Sized ==
  /\ DOMAIN x_coordinates = AllVertices(matrix_size)
  /\ DOMAIN y_coordinates = AllVertices(matrix_size)
  /\ DOMAIN demands = AllVertices(matrix_size)

Naturals(f) == \A v \in DOMAIN f : f[v] \in Nat

FieldsInv ==
  /\ file \in FileType
  /\ phase \in {"parse", "matrix", "sort", "done"}
  /\ parser \in {"zk", "golden", "x"} /\ pc \in Nat \ {0} /\ cursor \in Nat \ {0}
  /\ line \in Seq(Tokens)
  /\ valid \in BOOLEAN
  /\ matrix_size \in Nat /\ capacity \in Nat
  /\ Naturals(x_coordinates) /\ Naturals(y_coordinates) /\ Naturals(demands)
  /\ phase = "parse" => ~valid /\ (pc > CapacityLine => Sized)
  /\ phase \in {"matrix", "sort"} => valid
  /\ valid => Sized

LEMMA EmptyFields == ASSUME NEW f, f = <<>> PROVE Naturals(f)
BY DEF Naturals

LEMMA InitFields == Init => FieldsInv
<1> SUFFICES ASSUME Init PROVE FieldsInv
  OBVIOUS
<1>1. file \in FileType
  BY FilesAssumption DEF Init
<1>2. Naturals(x_coordinates) /\ Naturals(y_coordinates) /\ Naturals(demands)
  BY EmptyFields DEF Init
<1>3. line \in Seq(Tokens)
  BY DEF Init
<1>4. /\ phase = "parse" /\ parser = "zk" /\ pc = 1 /\ cursor = 1 /\ ~valid /\ valid \in BOOLEAN
      /\ matrix_size = 0 /\ capacity = 0
  BY DEF Init
<1>5. ~(pc > CapacityLine)
  BY <1>4 DEF CapacityLine
<1>6. QED
  BY <1>1, <1>2, <1>3, <1>4, <1>5 DEF FieldsInv

LEMMA OpenedFields == ASSUME NEW f \in FileType, Opened(f) PROVE FieldsInv'
<1>1. (Naturals(x_coordinates) /\ Naturals(y_coordinates) /\ Naturals(demands))'
  BY DEF Opened, Naturals
<1>2. line' \in Seq(Tokens)
  BY DEF Opened
<1>3. /\ phase' = "parse" /\ parser' = "zk" /\ pc' = 1 /\ cursor' = 1 /\ ~valid' /\ valid' \in BOOLEAN
      /\ matrix_size' = 0 /\ capacity' = 0 /\ file' \in FileType
  BY DEF Opened
<1>4. ~(pc' > CapacityLine')
  BY <1>3 DEF CapacityLine
<1>5. QED
  BY <1>1, <1>2, <1>3, <1>4 DEF FieldsInv

LEMMA SameFields ==
  FieldsInv /\ UNCHANGED <<file, phase, parseVars, valid, fieldVars>> => FieldsInv'
<1> SUFFICES ASSUME FieldsInv, UNCHANGED <<file, phase, parseVars, valid, fieldVars>> PROVE FieldsInv'
  OBVIOUS
<1>1. /\ file' = file /\ phase' = phase /\ valid' = valid
      /\ parser' = parser /\ pc' = pc /\ cursor' = cursor /\ line' = line
      /\ matrix_size' = matrix_size /\ capacity' = capacity
      /\ x_coordinates' = x_coordinates /\ y_coordinates' = y_coordinates /\ demands' = demands
  BY DEF parseVars, fieldVars
<1>2. QED
  BY <1>1 DEF FieldsInv, CapacityLine, Sized, Naturals, AllVertices

\* After an exception nothing is claimed of the sizes.
LEMMA NextParserFields ==
  FieldsInv /\ phase = "parse" /\ NextParser /\ UNCHANGED <<file, valid>>
  /\ matrix_size' \in Nat /\ capacity' \in Nat
  /\ Naturals(x_coordinates') /\ Naturals(y_coordinates') /\ Naturals(demands')
    => FieldsInv'
<1> SUFFICES ASSUME FieldsInv, phase = "parse", NextParser, UNCHANGED <<file, valid>>,
                    matrix_size' \in Nat, capacity' \in Nat,
                    Naturals(x_coordinates'), Naturals(y_coordinates'), Naturals(demands')
             PROVE  FieldsInv'
  OBVIOUS
<1>1. file' \in FileType /\ valid' = FALSE
  BY DEF FieldsInv
<1>2. (Naturals(x_coordinates) /\ Naturals(y_coordinates) /\ Naturals(demands))'
  OBVIOUS
<1>3. CASE parser # "x"
  <2>1. /\ parser' \in {"zk", "golden", "x"} /\ pc' = 1 /\ cursor' = 1 /\ line' = <<>>
        /\ phase' = "parse"
    BY <1>3 DEF NextParser, FieldsInv, parseVars
  <2>2. line' \in Seq(Tokens)
    BY <2>1
  <2>3. ~(pc' > CapacityLine')
    BY <2>1 DEF CapacityLine
  <2>4. QED
    BY <1>1, <1>2, <2>1, <2>2, <2>3 DEF FieldsInv
<1>4. CASE parser = "x"
  <2>1. phase' = "done" /\ parser' = parser /\ pc' = pc /\ cursor' = cursor /\ line' = line
    BY <1>4 DEF NextParser, parseVars
  <2>2. QED
    BY <1>1, <1>2, <2>1 DEF FieldsInv
<1>5. QED
  BY <1>3, <1>4

LEMMA OpenFailsFields == FieldsInv /\ OpenFails => FieldsInv'
<1> SUFFICES ASSUME FieldsInv, OpenFails PROVE FieldsInv'
  OBVIOUS
<1>1. /\ phase = "parse" /\ NextParser /\ UNCHANGED <<file, valid>>
      /\ matrix_size' = matrix_size /\ capacity' = capacity
      /\ x_coordinates' = x_coordinates /\ y_coordinates' = y_coordinates /\ demands' = demands
  BY DEF OpenFails, fieldVars
<1>2. QED
  BY <1>1, NextParserFields DEF FieldsInv

LEMMA ParsedFields == FieldsInv /\ Parsed => FieldsInv'
<1> SUFFICES ASSUME FieldsInv, Parsed PROVE FieldsInv'
  OBVIOUS
<1>1. /\ phase = "parse" /\ pc > ProgramLength /\ valid' = TRUE /\ phase' = "matrix"
      /\ demands' = IF parser = "golden" THEN [demands EXCEPT ![0] = 0] ELSE demands
      /\ file' = file /\ parser' = parser /\ pc' = pc /\ cursor' = cursor /\ line' = line
      /\ matrix_size' = matrix_size /\ capacity' = capacity
      /\ x_coordinates' = x_coordinates /\ y_coordinates' = y_coordinates
  BY DEF Parsed, parseVars
<1>2. ProgramLength >= CapacityLine /\ ProgramLength \in Nat /\ CapacityLine \in Nat
  <2>1. matrix_size \in Nat /\ parser \in {"zk", "golden", "x"}
    BY DEF FieldsInv
  <2>2. CASE parser = "zk"
    BY <2>1, <2>2 DEF ProgramLength, ZkLength, CapacityLine
  <2>3. CASE parser = "golden"
    BY <2>1, <2>3 DEF ProgramLength, GoldenLength, CapacityLine
  <2>4. CASE parser = "x"
    BY <2>1, <2>4 DEF ProgramLength, XLength, CapacityLine
  <2>5. QED
    BY <2>1, <2>2, <2>3, <2>4
<1>3. pc > CapacityLine
  BY <1>1, <1>2 DEF FieldsInv
<1>4. Sized
  BY <1>1, <1>3 DEF FieldsInv
<1>5. DOMAIN demands' = DOMAIN demands /\ Naturals(demands')
  BY <1>1 DEF FieldsInv, Naturals
<1>6. Sized'
  BY <1>1, <1>4, <1>5 DEF Sized, AllVertices
<1>7. (Naturals(x_coordinates) /\ Naturals(y_coordinates) /\ Naturals(demands))'
  BY <1>1, <1>5 DEF FieldsInv, Naturals
<1>8. QED
  BY <1>1, <1>6, <1>7 DEF FieldsInv

LEMMA GetLineType == FieldsInv => GetLine \in Seq(Tokens)
<1> SUFFICES ASSUME FieldsInv PROVE GetLine \in Seq(Tokens)
  OBVIOUS
<1>1. file.lines \in Seq(Seq(Tokens)) /\ cursor \in Nat \ {0} /\ line \in Seq(Tokens)
  <2>1. file \in FileType
    BY DEF FieldsInv
  <2>2. QED
    BY <2>1 DEF FieldsInv, FileType
<1>2. <<>> \in Seq(Tokens)
  OBVIOUS
<1>3. CASE cursor <= Len(file.lines)
  <2> DEFINE Line == Seq(Tokens)
             lines == file.lines
  <2>1. lines \in Seq(Line)
    BY <1>1
  <2> HIDE DEF Line, lines
  <2>2. Len(lines) \in Nat /\ \A i \in 1 .. Len(lines) : lines[i] \in Line
    BY <2>1
  <2>3. lines[cursor] \in Line
    BY <1>1, <1>3, <2>2 DEF lines
  <2>4. QED
    BY <1>3, <2>3 DEF GetLine, Line, lines
<1>4. CASE ~(cursor <= Len(file.lines))
  BY <1>1, <1>2, <1>4 DEF GetLine
<1>5. QED
  BY <1>3, <1>4

\* What a getline reads for, by the fields it may touch.
LEMMA InstructionFields ==
  FieldsInv =>
    /\ pc > CapacityLine =>
         \A i \in DOMAIN Instruction.targets :
           Instruction.targets[i].field \in {"none", "x", "y", "demand"}
    /\ pc = CapacityLine =>
         \E i \in 1 .. Len(Instruction.targets) : Instruction.targets[i].field = "capacity"
    /\ Len(Instruction.targets) \in Nat
<1> SUFFICES ASSUME FieldsInv
             PROVE  /\ pc > CapacityLine =>
                         \A i \in DOMAIN Instruction.targets :
                           Instruction.targets[i].field \in {"none", "x", "y", "demand"}
                    /\ pc = CapacityLine =>
                         \E i \in 1 .. Len(Instruction.targets) : Instruction.targets[i].field = "capacity"
                    /\ Len(Instruction.targets) \in Nat
  OBVIOUS
<1>1. pc \in Nat \ {0} /\ parser \in {"zk", "golden", "x"} /\ matrix_size \in Nat
  BY DEF FieldsInv
<1>2. \A n : /\ Len(Coordinates(n).targets) = 3
             /\ \A i \in DOMAIN Coordinates(n).targets :
                  Coordinates(n).targets[i].field \in {"none", "x", "y", "demand"}
  BY DEF Coordinates, Reads, To, Index
<1>3. \A n : /\ Len(DemandOf(n).targets) = 2
             /\ \A i \in DOMAIN DemandOf(n).targets :
                  DemandOf(n).targets[i].field \in {"none", "x", "y", "demand"}
  BY DEF DemandOf, Reads, To, Index
<1>4. Len(Skip.targets) = 0 /\ DOMAIN Skip.targets = {}
  BY DEF Skip, Reads
<1>5. \A f : Len(Keyed(f).targets) = 1 /\ Keyed(f).targets[1].field = f
  BY DEF Keyed, To
<1>6. CASE parser = "zk"
  <2>1. Instruction = ZkLine(pc) /\ CapacityLine = 1
    BY <1>6 DEF Instruction, CapacityLine
  <2>2. CASE pc = 1
    <3>1. Instruction.targets = <<To("customers", 0), To("capacity", 0)>>
      BY <2>1, <2>2 DEF ZkLine, Reads
    <3>2. Len(Instruction.targets) = 2 /\ Instruction.targets[2].field = "capacity"
      BY <3>1 DEF To
    <3>3. QED
      BY <2>1, <2>2, <3>2
  <2>3. CASE pc # 1
    <3>1. Instruction.targets = <<Index, To("x", pc - 2), To("y", pc - 2), To("demand", pc - 2)>>
      BY <2>1, <2>3 DEF ZkLine, Reads
    <3>2. /\ Len(Instruction.targets) = 4
          /\ \A i \in DOMAIN Instruction.targets :
               Instruction.targets[i].field \in {"none", "x", "y", "demand"}
      BY <3>1 DEF To, Index
    <3>3. QED
      BY <2>1, <2>3, <3>2
  <2>4. QED
    BY <2>2, <2>3
<1>7. CASE parser = "golden"
  <2>1. Instruction = GoldenLine(pc) /\ CapacityLine = 5
    BY <1>7 DEF Instruction, CapacityLine
  <2>2. CASE pc = 4 \/ pc = 5
    <3>1. CASE pc = 4
      <4>1. Instruction = Keyed("size")
        BY <1>1, <2>1, <3>1 DEF GoldenLine
      <4>2. QED
        BY <1>5, <2>1, <3>1, <4>1
    <3>2. CASE pc = 5
      <4>1. Instruction = Keyed("capacity")
        BY <1>1, <2>1, <3>2 DEF GoldenLine
      <4>2. QED
        BY <1>5, <2>1, <3>2, <4>1
    <3>3. QED
      BY <2>2, <3>1, <3>2
  <2>3. CASE pc \notin {4, 5}
    <3>1. \/ \E n : Instruction = Coordinates(n) \/ Instruction = DemandOf(n)
          \/ Instruction = Reads(<<To("x", 0), To("y", 0)>>)
          \/ Instruction = Skip
      BY <2>1, <2>3 DEF GoldenLine
    <3>2. CASE Instruction = Reads(<<To("x", 0), To("y", 0)>>)
      <4>1. Instruction.targets = <<To("x", 0), To("y", 0)>>
        BY <3>2 DEF Reads
      <4>2. /\ Len(Instruction.targets) = 2
            /\ \A i \in DOMAIN Instruction.targets :
                 Instruction.targets[i].field \in {"none", "x", "y", "demand"}
        BY <4>1 DEF To
      <4>3. QED
        BY <2>1, <2>3, <4>2
    <3>3. CASE \E n : Instruction = Coordinates(n) \/ Instruction = DemandOf(n)
      BY <1>2, <1>3, <2>1, <2>3, <3>3
    <3>4. CASE Instruction = Skip
      BY <1>4, <2>1, <2>3, <3>4
    <3>5. QED
      BY <3>1, <3>2, <3>3, <3>4
  <2>4. QED
    BY <2>2, <2>3
<1>8. CASE parser = "x"
  <2>1. Instruction = XLine(pc) /\ CapacityLine = 6
    BY <1>8 DEF Instruction, CapacityLine
  <2>2. CASE pc = 4 \/ pc = 6
    <3>1. CASE pc = 4
      <4>1. Instruction = Keyed("size")
        BY <1>1, <2>1, <3>1 DEF XLine
      <4>2. QED
        BY <1>5, <2>1, <3>1, <4>1
    <3>2. CASE pc = 6
      <4>1. Instruction = Keyed("capacity")
        BY <1>1, <2>1, <3>2 DEF XLine
      <4>2. QED
        BY <1>5, <2>1, <3>2, <4>1
    <3>3. QED
      BY <2>2, <3>1, <3>2
  <2>3. CASE pc \notin {4, 6}
    <3>1. \/ \E n : Instruction = Coordinates(n) \/ Instruction = DemandOf(n)
          \/ Instruction = Skip
      BY <2>1, <2>3 DEF XLine
    <3>2. CASE \E n : Instruction = Coordinates(n) \/ Instruction = DemandOf(n)
      BY <1>2, <1>3, <2>1, <2>3, <3>2
    <3>3. CASE Instruction = Skip
      BY <1>4, <2>1, <2>3, <3>3
    <3>4. QED
      BY <3>1, <3>2, <3>3
  <2>4. QED
    BY <2>2, <2>3
<1>9. QED
  BY <1>1, <1>6, <1>7, <1>8

\* The targets are a sequence.
LEMMA TargetsDomain == FieldsInv => DOMAIN Instruction.targets = 1 .. Len(Instruction.targets)
<1> SUFFICES ASSUME FieldsInv PROVE DOMAIN Instruction.targets = 1 .. Len(Instruction.targets)
  OBVIOUS
<1>1. parser \in {"zk", "golden", "x"}
  BY DEF FieldsInv
<1>2. \A n : DOMAIN Coordinates(n).targets = 1 .. Len(Coordinates(n).targets)
  BY DEF Coordinates, Reads
<1>3. \A n : DOMAIN DemandOf(n).targets = 1 .. Len(DemandOf(n).targets)
  BY DEF DemandOf, Reads
<1>4. DOMAIN Skip.targets = 1 .. Len(Skip.targets)
  BY DEF Skip, Reads
<1>5. \A f : DOMAIN Keyed(f).targets = 1 .. Len(Keyed(f).targets)
  BY DEF Keyed
<1>6. CASE parser = "zk"
  <2>1. Instruction = ZkLine(pc)
    BY <1>6 DEF Instruction
  <2>2. CASE pc = 1
    <3>1. Instruction.targets = <<To("customers", 0), To("capacity", 0)>>
      BY <2>1, <2>2 DEF ZkLine, Reads
    <3>2. QED
      BY <3>1
  <2>3. CASE pc # 1
    <3>1. Instruction.targets = <<Index, To("x", pc - 2), To("y", pc - 2), To("demand", pc - 2)>>
      BY <2>1, <2>3 DEF ZkLine, Reads
    <3>2. QED
      BY <3>1
  <2>4. QED
    BY <2>2, <2>3
<1>7. CASE parser = "golden"
  <2>1. \/ \E n : Instruction = Coordinates(n) \/ Instruction = DemandOf(n) \/ Instruction = Keyed(n)
        \/ Instruction = Reads(<<To("x", 0), To("y", 0)>>)
        \/ Instruction = Skip
    BY <1>7 DEF Instruction, GoldenLine
  <2>2. CASE Instruction = Reads(<<To("x", 0), To("y", 0)>>)
    BY <2>2 DEF Reads
  <2>3. QED
    BY <1>2, <1>3, <1>4, <1>5, <2>1, <2>2
<1>8. CASE parser = "x"
  <2>1. \/ \E n : Instruction = Coordinates(n) \/ Instruction = DemandOf(n) \/ Instruction = Keyed(n)
        \/ Instruction = Skip
    BY <1>8 DEF Instruction, XLine
  <2>2. QED
    BY <1>2, <1>3, <1>4, <1>5, <2>1
<1>9. QED
  BY <1>1, <1>6, <1>7, <1>8

LEMMA ReadLineFields == FieldsInv /\ ReadLine => FieldsInv'
<1> SUFFICES ASSUME FieldsInv, ReadLine PROVE FieldsInv'
  OBVIOUS
<1> DEFINE targets == Instruction.targets
           l == IF Instruction.keyed THEN AfterColon(GetLine) ELSE GetLine
           converted == IF Numbers(l) < Len(targets) THEN Numbers(l) ELSE Len(targets)
           Value(field, at, old) ==
             IF \E i \in 1 .. converted : targets[i] = To(field, at)
             THEN l[CHOOSE i \in 1 .. converted : targets[i] = To(field, at)]
             ELSE old
           Written(f, field) == [v \in DOMAIN f |-> Value(field, v, f[v])]
           allocate == \E i \in 1 .. converted : targets[i].field = "capacity"
           Sized2(f) == IF allocate THEN Resized(f, matrix_size') ELSE f
<1>1. /\ matrix_size' = Value("size", 0, Value("customers", 0, matrix_size - 1) + 1)
      /\ capacity' = Value("capacity", 0, capacity)
      /\ x_coordinates' = Sized2(Written(x_coordinates, "x"))
      /\ y_coordinates' = Sized2(Written(y_coordinates, "y"))
      /\ demands' = Sized2(Written(demands, "demand"))
      /\ \/ /\ converted = Len(targets)
            /\ line' = SubSeq(l, converted + 1, Len(l))
            /\ cursor' = cursor + 1
            /\ pc' = pc + 1
            /\ UNCHANGED <<parser, phase>>
         \/ /\ converted < Len(targets)
            /\ NextParser
      /\ phase = "parse"
      /\ UNCHANGED <<file, valid>>
  BY DEF ReadLine
<1>2. l \in Seq(Tokens) /\ Len(l) \in Nat
  <2>1. GetLine \in Seq(Tokens) /\ AfterColon(GetLine) \in Seq(Tokens)
    BY GetLineType, AfterColonType
  <2>2. QED
    BY <2>1
<1> HIDE DEF l
<1>3. /\ Len(targets) \in Nat /\ converted \in Nat /\ converted <= Len(targets)
      /\ converted <= Len(l)
      /\ \A i \in 1 .. converted : l[i] \in Nat
  <2>1. /\ Numbers(l) \in 0 .. Len(l) /\ Len(targets) \in Nat
        /\ \A i \in 1 .. Numbers(l) : l[i] \in Nat
    BY <1>2, NumbersFacts, InstructionFields
  <2>2. QED
    BY <1>2, <2>1
<1> HIDE DEF converted, targets
<1>4. ASSUME NEW field, NEW at, NEW old
      PROVE  \/ Value(field, at, old) \in Nat
             \/ Value(field, at, old) = old
  <2>1. CASE \E i \in 1 .. converted : targets[i] = To(field, at)
    <3>1. PICK i \in 1 .. converted : i = CHOOSE j \in 1 .. converted : targets[j] = To(field, at)
      BY <2>1
    <3>2. QED
      BY <1>3, <2>1, <3>1
  <2>2. CASE ~ \E i \in 1 .. converted : targets[i] = To(field, at)
    BY <2>2
  <2>3. QED
    BY <2>1, <2>2
<1>5. matrix_size \in Nat /\ capacity \in Nat
      /\ Naturals(x_coordinates) /\ Naturals(y_coordinates) /\ Naturals(demands)
  BY DEF FieldsInv
<1>6. ASSUME NEW f, NEW field, Naturals(f)
      PROVE  DOMAIN Written(f, field) = DOMAIN f /\ Naturals(Written(f, field))
  <2>1. ASSUME NEW v \in DOMAIN f PROVE Value(field, v, f[v]) \in Nat
    <3>1. f[v] \in Nat
      BY <1>6 DEF Naturals
    <3> HIDE DEF Value
    <3>2. QED
      BY <1>4, <3>1
  <2> HIDE DEF Value
  <2>2. QED
    BY <2>1 DEF Naturals
<1>7. matrix_size' \in Nat /\ capacity' \in Nat
  <2> DEFINE c == Value("customers", 0, matrix_size - 1)
  <2> HIDE DEF Value
  <2>1. c + 1 \in Nat
    <3>1. c \in Nat \/ c = matrix_size - 1
      BY <1>4
    <3> HIDE DEF c
    <3>2. QED
      BY <1>5, <3>1
  <2> HIDE DEF c
  <2>2. Value("size", 0, c + 1) \in Nat
    BY <1>4, <2>1
  <2>3. Value("capacity", 0, capacity) \in Nat
    BY <1>4, <1>5
  <2>4. QED
    BY <1>1, <2>2, <2>3 DEF c
<1> HIDE DEF Written
<1>8. ASSUME NEW f, Naturals(f)
      PROVE  /\ Naturals(Sized2(f))
             /\ DOMAIN Sized2(f) = IF allocate THEN 0 .. matrix_size' - 1 ELSE DOMAIN f
  <2>1. Naturals(Resized(f, matrix_size')) /\ DOMAIN Resized(f, matrix_size') = 0 .. matrix_size' - 1
    BY <1>8 DEF Naturals, Resized
  <2>2. QED
    BY <1>8, <2>1
<1> HIDE DEF Sized2
<1>9. /\ Naturals(x_coordinates') /\ Naturals(y_coordinates') /\ Naturals(demands')
      /\ DOMAIN x_coordinates' = IF allocate THEN 0 .. matrix_size' - 1 ELSE DOMAIN x_coordinates
      /\ DOMAIN y_coordinates' = IF allocate THEN 0 .. matrix_size' - 1 ELSE DOMAIN y_coordinates
      /\ DOMAIN demands' = IF allocate THEN 0 .. matrix_size' - 1 ELSE DOMAIN demands
  <2> HIDE DEF allocate
  <2>1. /\ Naturals(Written(x_coordinates, "x")) /\ DOMAIN Written(x_coordinates, "x") = DOMAIN x_coordinates
        /\ Naturals(Written(y_coordinates, "y")) /\ DOMAIN Written(y_coordinates, "y") = DOMAIN y_coordinates
        /\ Naturals(Written(demands, "demand")) /\ DOMAIN Written(demands, "demand") = DOMAIN demands
    BY <1>5, <1>6
  <2>2. QED
    BY <1>1, <1>8, <2>1
<1>10. CASE converted < Len(targets)
  <2>1. NextParser
    BY <1>1, <1>3, <1>10
  <2>2. QED
    BY <1>1, <1>7, <1>9, <2>1, NextParserFields
<1>11. CASE converted = Len(targets)
  <2>1. /\ line' = SubSeq(l, converted + 1, Len(l)) /\ cursor' = cursor + 1 /\ pc' = pc + 1
        /\ parser' = parser /\ phase' = "parse" /\ file' = file /\ valid' = valid
    BY <1>1, <1>3, <1>11
  <2>2. line' \in Seq(Tokens)
    <3>1. \A j \in converted + 1 .. Len(l) : l[j] \in Tokens
      BY <1>2, <1>3
    <3>2. converted + 1 \in Int /\ Len(l) \in Int
      BY <1>2, <1>3
    <3>3. QED
      BY <2>1, <3>1, <3>2, SubSeqProperties
  <2>3. ASSUME pc' > CapacityLine' PROVE Sized'
    <3>1. CapacityLine' = CapacityLine /\ CapacityLine \in Nat /\ pc \in Nat /\ pc >= CapacityLine
      BY <2>1, <2>3 DEF CapacityLine, FieldsInv
    <3>2. CASE pc = CapacityLine
      <4>1. allocate
        BY <1>11, <3>2, InstructionFields DEF targets
      <4> HIDE DEF allocate
      <4>2. QED
        BY <1>9, <4>1 DEF Sized, AllVertices
    <3>3. CASE pc > CapacityLine
      <4>1. \A i \in 1 .. converted : targets[i].field \in {"none", "x", "y", "demand"}
        <5>1. \A i \in DOMAIN targets : targets[i].field \in {"none", "x", "y", "demand"}
          BY <3>3, InstructionFields DEF targets
        <5>2. DOMAIN targets = 1 .. Len(targets)
          BY TargetsDomain DEF targets
        <5>3. QED
          BY <1>3, <5>1, <5>2
      <4>2. /\ ~allocate
            /\ \A i \in 1 .. converted : \A at :
                 targets[i] # To("size", at) /\ targets[i] # To("customers", at)
        BY <4>1 DEF To
      <4>3. Value("size", 0, Value("customers", 0, matrix_size - 1) + 1) = (matrix_size - 1) + 1
        BY <4>2
      <4> HIDE DEF allocate, Value
      <4>4. matrix_size' = matrix_size
        BY <1>1, <1>5, <4>3
      <4>5. Sized
        BY <1>1, <3>3 DEF FieldsInv
      <4>6. QED
        BY <1>9, <4>2, <4>4, <4>5 DEF Sized, AllVertices
    <3>4. QED
      BY <3>1, <3>2, <3>3
  <2>4. (Naturals(x_coordinates) /\ Naturals(y_coordinates) /\ Naturals(demands))'
    BY <1>9
  <2>5. cursor' \in Nat \ {0} /\ pc' \in Nat \ {0} /\ ~valid'
    BY <1>1, <2>1 DEF FieldsInv
  <2>6. QED
    BY <1>7, <2>1, <2>2, <2>3, <2>4, <2>5 DEF FieldsInv
<1>12. QED
  BY <1>3, <1>10, <1>11

-----------------------------------------------------------------------------
(* Costs.                                                                  *)

LEMMA SquareNat == ASSUME NEW d \in Int PROVE d * d \in Nat
<1>1. CASE d >= 0
  BY <1>1, ProductNat
<1>2. CASE d < 0
  <2>1. 0 - d \in Nat /\ (0 - d) * (0 - d) = d * d
    BY <1>2
  <2>2. QED
    BY <2>1, ProductNat
<1>3. QED
  BY <1>1, <1>2

\* An integer has a rounded root.
LEMMA RootFound == ASSUME NEW s \in Nat PROVE RoundedRoot(s) \in Nat
<1> DEFINE S == {d \in 0 .. s : 4 * s < (2 * d + 1) * (2 * d + 1)}
<1>1. s \in S
  <2>1. (2 * s + 1) * (2 * s + 1) = 4 * (s * s) + 4 * s + 1 /\ s * s \in Nat
    BY ProductNat
  <2>2. QED
    BY <2>1
<1>2. PICK d \in 0 .. s : d \in S /\ \A k \in 0 .. d - 1 : k \notin S
  <2> HIDE DEF S
  <2>1. QED
    BY <1>1, Least
<1>3. d = 0 \/ (2 * d - 1) * (2 * d - 1) <= 4 * s
  <2>1. CASE d # 0
    <3>1. d - 1 \in 0 .. d - 1 /\ d - 1 \in 0 .. s
      BY <2>1
    <3>2. ~(4 * s < (2 * (d - 1) + 1) * (2 * (d - 1) + 1))
      BY <1>2, <3>1
    <3>3. 2 * (d - 1) + 1 = 2 * d - 1
      OBVIOUS
    <3>4. (2 * d - 1) * (2 * d - 1) \in Nat /\ 4 * s \in Nat
      BY SquareNat
    <3>5. QED
      BY <3>2, <3>3, <3>4
  <2>2. QED
    BY <2>1
<1>4. \E e \in 0 .. s : (e = 0 \/ (2 * e - 1) * (2 * e - 1) <= 4 * s) /\ 4 * s < (2 * e + 1) * (2 * e + 1)
  BY <1>2, <1>3
<1>5. RoundedRoot(s) \in 0 .. s
  BY <1>4 DEF RoundedRoot
<1>6. QED
  BY <1>5

\* A cell of a cost matrix of n vertices.
CellCost(C, n, i, j) == C[CellAddress(n, n, i, j)]

CostsSound(C, n) ==
  \A i, j \in AllVertices(n) :
    /\ CellCost(C, n, i, j) \in Nat
    /\ CellCost(C, n, i, j) = CellCost(C, n, j, i)
    /\ CellCost(C, n, i, i) = 0

LEMMA FilledSound == FieldsInv /\ Sized => CostsSound(FilledMatrix, matrix_size)
<1> SUFFICES ASSUME FieldsInv, Sized,
                    NEW i \in AllVertices(matrix_size), NEW j \in AllVertices(matrix_size)
             PROVE  /\ FilledMatrix[Address(i, j)] \in Nat
                    /\ FilledMatrix[Address(i, j)] = FilledMatrix[Address(j, i)]
                    /\ FilledMatrix[Address(i, i)] = 0
  BY DEF CostsSound, CellCost, Address
<1>1. matrix_size \in Nat
  BY DEF FieldsInv
<1>2. \A v \in AllVertices(matrix_size) : x_coordinates[v] \in Nat /\ y_coordinates[v] \in Nat
  BY DEF FieldsInv, Sized, Naturals
<1>3. Distance(i, j) \in Nat
  <2> DEFINE dx == x_coordinates[i] - x_coordinates[j]
             dy == y_coordinates[i] - y_coordinates[j]
  <2>1. dx \in Int /\ dy \in Int
    BY <1>2
  <2> HIDE DEF dx, dy
  <2>2. dx * dx \in Nat /\ dy * dy \in Nat
    BY <2>1, SquareNat
  <2>3. dx * dx + dy * dy \in Nat
    BY <2>2
  <2>4. Distance(i, j) = RoundedRoot(dx * dx + dy * dy)
    BY DEF Distance, dx, dy
  <2>5. QED
    BY <2>3, <2>4, RootFound
<1>4. FilledMatrix[Address(i, j)] \in Nat
  BY <1>1, <1>3, FilledCell
<1>5. QED
  BY <1>1, <1>2, <1>4, CostsSymmetric

-----------------------------------------------------------------------------
(* Neighbour lists.                                                        *)

\* A list of all n vertices, the vertex itself first, by ascending cost.
NearSound(near, i, n, cost) ==
  /\ near \in [1 .. n -> AllVertices(n)]
  /\ near[1] = i
  /\ \A w \in AllVertices(n) : \E k \in 1 .. n : near[k] = w
  /\ \A k \in 1 .. n - 1 : cost[near[k]] <= cost[near[k + 1]]

\* Neighbours in order are all in order.
LEMMA SortedAscends ==
  ASSUME NEW n \in Nat, NEW c \in [1 .. n -> Nat], \A k \in 1 .. n - 1 : c[k] <= c[k + 1],
         NEW m \in 1 .. n
  PROVE  \A k \in 1 .. m : c[k] <= c[m]
<1> DEFINE Below == {j \in 1 .. n : \A k \in 1 .. j : c[k] <= c[j]}
<1>1. 1 .. n # {} => 1 \in Below
  OBVIOUS
<1>2. ASSUME NEW j \in 1 .. n - 1, j \in Below
      PROVE  j + 1 \in Below
  <2>1. j + 1 \in 1 .. n /\ j \in 1 .. n
    OBVIOUS
  <2>2. ASSUME NEW k \in 1 .. j + 1
        PROVE  c[k] <= c[j + 1]
    <3>1. CASE k = j + 1
      BY <2>1, <3>1
    <3>2. CASE k # j + 1
      <4>1. k \in 1 .. j /\ k \in 1 .. n
        BY <3>2
      <4>2. c[k] <= c[j] /\ c[j] <= c[j + 1]
        BY <1>2, <4>1
      <4>3. c[k] \in Nat /\ c[j] \in Nat /\ c[j + 1] \in Nat
        BY <2>1, <4>1
      <4>4. QED
        BY <4>2, <4>3
    <3>3. QED
      BY <3>1, <3>2
  <2>3. QED
    BY <2>1, <2>2
<1> HIDE DEF Below
<1>3. 1 .. n \subseteq Below
  BY <1>1, <1>2, AllIndices
<1>4. QED
  BY <1>3 DEF Below

\* All that comes before the vertex in the sorted order is as near as itself.
LEMMA NearSorted ==
  ASSUME NEW n \in Nat, NEW i \in AllVertices(n), NEW cost \in [AllVertices(n) -> Nat],
         cost[i] = 0, NEW p \in SortedOrders(n, cost)
  PROVE  NearSound(WithItselfFirst(p, i), i, n, cost)
<1> DEFINE q == WithItselfFirst(p, i)
           c == [k \in 1 .. n |-> cost[p[k]]]
           m == CHOOSE k \in DOMAIN p : p[k] = i
<1>1. /\ p \in [1 .. n -> AllVertices(n)] /\ DOMAIN p = 1 .. n
      /\ \A v \in AllVertices(n) : \E k \in 1 .. n : p[k] = v
      /\ \A k \in 1 .. n - 1 : cost[p[k]] <= cost[p[k + 1]]
  BY DEF SortedOrders
<1>2. m \in 1 .. n /\ p[m] = i
  BY <1>1
<1>3. q = [p EXCEPT ![1] = i, ![m] = p[1]]
  BY DEF WithItselfFirst
<1> HIDE DEF m, q
<1>4. 1 \in 1 .. n
  BY <1>2
<1>5. /\ q \in [1 .. n -> AllVertices(n)]
      /\ q[1] = i /\ q[m] = p[1]
      /\ \A k \in 1 .. n : k # 1 /\ k # m => q[k] = p[k]
  BY <1>1, <1>2, <1>3, <1>4
<1>6. c \in [1 .. n -> Nat] /\ \A k \in 1 .. n : c[k] = cost[p[k]]
  BY <1>1
<1>7. \A k \in 1 .. n - 1 : c[k] <= c[k + 1]
  BY <1>1
<1> HIDE DEF c
<1>8. c[m] = 0 /\ c[1] \in Nat /\ 1 \in 1 .. m
  BY <1>2, <1>4, <1>6
<1>9. c[1] <= c[m]
  BY <1>2, <1>6, <1>7, <1>8, SortedAscends
<1>10. cost[p[1]] = 0
  BY <1>4, <1>6, <1>8, <1>9
<1>11. ASSUME NEW k \in 1 .. n
       PROVE  cost[q[k]] = cost[p[k]]
  BY <1>2, <1>5, <1>10
<1>12. ASSUME NEW k \in 1 .. n - 1
       PROVE  cost[q[k]] <= cost[q[k + 1]]
  <2>1. k \in 1 .. n /\ k + 1 \in 1 .. n
    OBVIOUS
  <2>2. QED
    BY <1>1, <1>11, <2>1
<1>13. ASSUME NEW w \in AllVertices(n)
       PROVE  \E k \in 1 .. n : q[k] = w
  <2>1. PICK k \in 1 .. n : p[k] = w
    BY <1>1
  <2>2. QED
    BY <1>2, <1>4, <1>5, <2>1
<1>14. QED
  BY <1>5, <1>12, <1>13 DEF NearSound, q

-----------------------------------------------------------------------------
(* The vertices of the instance behind those of the views.                 *)

Identity(n) == [v \in AllVertices(n) |-> v]

\* R gives for each of the levels 0 .. N over n vertices the root of its vertices.
RootsUpTo(R, c, N, n) ==
  R = [k \in 0 .. N |->
         IF k = 0 THEN Identity(n)
         ELSE [v \in DOMAIN c[k].mapping |-> R[k - 1][c[k].mapping[v]]]]

RootsByLevel(R, c, N, n) ==
  /\ DOMAIN R = 0 .. N /\ R[0] = Identity(n)
  /\ \A k \in 1 .. N : R[k] = [v \in DOMAIN c[k].mapping |-> R[k - 1][c[k].mapping[v]]]

LEMMA RootsCells ==
  ASSUME NEW R, NEW c, NEW N \in Nat, NEW n, RootsUpTo(R, c, N, n)
  PROVE  RootsByLevel(R, c, N, n)
<1>1. DOMAIN R = 0 .. N
  BY DEF RootsUpTo
<1>2. \A k \in 0 .. N : R[k] = IF k = 0 THEN Identity(n)
                               ELSE [v \in DOMAIN c[k].mapping |-> R[k - 1][c[k].mapping[v]]]
  BY DEF RootsUpTo
<1>3. 0 \in 0 .. N /\ \A k \in 1 .. N : k \in 0 .. N /\ k # 0
  OBVIOUS
<1>4. QED
  BY <1>1, <1>2, <1>3 DEF RootsByLevel

LEMMA RootsOfCells ==
  ASSUME NEW R, NEW c, NEW N \in Nat, NEW n,
         R = [k \in 0 .. N |-> R[k]], R[0] = Identity(n),
         \A k \in 1 .. N : R[k] = [v \in DOMAIN c[k].mapping |-> R[k - 1][c[k].mapping[v]]]
  PROVE  RootsUpTo(R, c, N, n)
<1> DEFINE G == [k \in 0 .. N |->
                   IF k = 0 THEN Identity(n)
                   ELSE [v \in DOMAIN c[k].mapping |-> R[k - 1][c[k].mapping[v]]]]
<1>1. \A k \in 0 .. N : G[k] = R[k]
  <2> SUFFICES ASSUME NEW k \in 0 .. N PROVE G[k] = R[k]
    OBVIOUS
  <2>1. k = 0 \/ k \in 1 .. N
    OBVIOUS
  <2>2. QED
    BY <2>1
<1>2. G = [k \in 0 .. N |-> G[k]]
  OBVIOUS
<1> HIDE DEF G
<1>3. R = G
  BY <1>1, <1>2
<1>4. QED
  BY <1>3 DEF G, RootsUpTo

\* One level more.
LEMMA RootsExtended ==
  ASSUME NEW R, NEW c, NEW d, NEW N \in Nat, NEW n, RootsUpTo(R, c, N, n),
         \A k \in 1 .. N : d[k].mapping = c[k].mapping
  PROVE  LET top == [v \in DOMAIN d[N + 1].mapping |-> R[N][d[N + 1].mapping[v]]]
             S == [k \in 0 .. N + 1 |-> IF k = N + 1 THEN top ELSE R[k]]
         IN  RootsUpTo(S, d, N + 1, n)
<1> DEFINE top == [v \in DOMAIN d[N + 1].mapping |-> R[N][d[N + 1].mapping[v]]]
           S == [k \in 0 .. N + 1 |-> IF k = N + 1 THEN top ELSE R[k]]
<1>1. /\ R[0] = Identity(n)
      /\ \A k \in 1 .. N : R[k] = [v \in DOMAIN c[k].mapping |-> R[k - 1][c[k].mapping[v]]]
  BY RootsCells DEF RootsByLevel
<1>2. \A k \in 0 .. N : S[k] = R[k]
  <2>1. \A k \in 0 .. N : k \in 0 .. N + 1 /\ k # N + 1
    OBVIOUS
  <2>2. QED
    BY <2>1
<1>3. S[N + 1] = top
  <2>1. N + 1 \in 0 .. N + 1
    OBVIOUS
  <2>2. QED
    BY <2>1
<1>4. S = [k \in 0 .. N + 1 |-> S[k]]
  OBVIOUS
<1> HIDE DEF S
<1>5. S[0] = Identity(n)
  BY <1>1, <1>2
<1>6. ASSUME NEW k \in 1 .. N + 1
      PROVE  S[k] = [v \in DOMAIN d[k].mapping |-> S[k - 1][d[k].mapping[v]]]
  <2>1. CASE k = N + 1
    <3>1. k - 1 = N /\ N \in 0 .. N
      BY <2>1
    <3>2. QED
      BY <1>2, <1>3, <2>1, <3>1
  <2>2. CASE k # N + 1
    <3>1. k \in 1 .. N /\ k \in 0 .. N /\ k - 1 \in 0 .. N
      BY <2>2
    <3>2. S[k] = R[k] /\ S[k - 1] = R[k - 1] /\ d[k].mapping = c[k].mapping
      BY <1>2, <3>1
    <3>3. QED
      BY <1>1, <3>1, <3>2
  <2>3. QED
    BY <2>1, <2>2
<1>7. N + 1 \in Nat
  OBVIOUS
<1> HIDE DEF top
<1>8. RootsUpTo(S, d, N + 1, n)
  BY <1>4, <1>5, <1>6, <1>7, RootsOfCells
<1>9. QED
  BY <1>8 DEF S, top

\* The same views, other fields of theirs aside.
LEMMA RootsSame ==
  ASSUME NEW R, NEW c, NEW d, NEW N \in Nat, NEW n, RootsUpTo(R, c, N, n),
         \A k \in 1 .. N : d[k].mapping = c[k].mapping
  PROVE  RootsUpTo(R, d, N, n)
<1>1. /\ R[0] = Identity(n)
      /\ \A k \in 1 .. N : R[k] = [v \in DOMAIN c[k].mapping |-> R[k - 1][c[k].mapping[v]]]
  BY RootsCells DEF RootsByLevel
<1>2. R = [k \in 0 .. N |-> R[k]]
  BY DEF RootsUpTo
<1>3. \A k \in 1 .. N : R[k] = [v \in DOMAIN d[k].mapping |-> R[k - 1][d[k].mapping[v]]]
  BY <1>1
<1>4. QED
  BY <1>1, <1>2, <1>3, RootsOfCells

LEMMA RootsUnique ==
  ASSUME NEW R, NEW S, NEW c, NEW N \in Nat, NEW n, RootsUpTo(R, c, N, n), RootsUpTo(S, c, N, n)
  PROVE  R = S
<1>0. RootsByLevel(R, c, N, n) /\ RootsByLevel(S, c, N, n)
  BY RootsCells
<1>1. /\ DOMAIN R = 0 .. N /\ R[0] = Identity(n)
      /\ \A k \in 1 .. N : R[k] = [v \in DOMAIN c[k].mapping |-> R[k - 1][c[k].mapping[v]]]
  BY <1>0 DEF RootsByLevel
<1>2. /\ DOMAIN S = 0 .. N /\ S[0] = Identity(n)
      /\ \A k \in 1 .. N : S[k] = [v \in DOMAIN c[k].mapping |-> S[k - 1][c[k].mapping[v]]]
  BY <1>0 DEF RootsByLevel
<1> DEFINE Same == {k \in 1 .. N + 1 : R[k - 1] = S[k - 1]}
<1>3. 1 \in Same
  BY <1>1, <1>2
<1>4. ASSUME NEW k \in 1 .. (N + 1) - 1, k \in Same
      PROVE  k + 1 \in Same
  <2>1. k \in 1 .. N /\ k + 1 \in 1 .. N + 1 /\ (k + 1) - 1 = k
    OBVIOUS
  <2>2. R[k - 1] = S[k - 1]
    BY <1>4
  <2>3. R[k] = [v \in DOMAIN c[k].mapping |-> R[k - 1][c[k].mapping[v]]]
    BY <1>1, <2>1
  <2>4. S[k] = [v \in DOMAIN c[k].mapping |-> S[k - 1][c[k].mapping[v]]]
    BY <1>2, <2>1
  <2>5. R[k] = S[k]
    BY <2>2, <2>3, <2>4
  <2>6. QED
    BY <2>1, <2>5
<1> HIDE DEF Same
<1>5. 1 .. N + 1 \subseteq Same
  BY <1>3, <1>4, AllIndices
<1>6. \A k \in 0 .. N : R[k] = S[k]
  <2> SUFFICES ASSUME NEW k \in 0 .. N PROVE R[k] = S[k]
    OBVIOUS
  <2>1. k + 1 \in Same /\ (k + 1) - 1 = k
    BY <1>5
  <2>2. QED
    BY <2>1 DEF Same
<1>7. R = [k \in 0 .. N |-> R[k]] /\ S = [k \in 0 .. N |-> S[k]]
  BY DEF RootsUpTo
<1>8. QED
  BY <1>6, <1>7

\* A recursive definition is a choice: what satisfies its equation is the function.
LEMMA RootVertexIs ==
  ASSUME NEW R, RootsUpTo(R, chain, Depth, matrix_size), Depth \in Nat
  PROVE  RootVertex = R
<1> DEFINE Is(f) == f = [k \in 0 .. Depth |->
                       IF k = 0 THEN [v \in AllVertices(matrix_size) |-> v]
                       ELSE [v \in DOMAIN chain[k].mapping |-> f[k - 1][chain[k].mapping[v]]]]
<1>1. Is(R)
  BY DEF RootsUpTo, Identity
<1>2. \E f : Is(f)
  BY <1>1
<1>3. RootVertex = CHOOSE f : Is(f)
  BY DEF RootVertex
<1>4. Is(RootVertex)
  <2> HIDE DEF Is
  <2>1. QED
    BY <1>2, <1>3
<1>5. RootsUpTo(RootVertex, chain, Depth, matrix_size)
  BY <1>4 DEF RootsUpTo, Identity
<1>6. QED
  BY <1>5, RootsUnique

-----------------------------------------------------------------------------
(* The invariant.                                                          *)

\* A level over an instance of n vertices: the depot first, the customers customers.
LevelSound(root, n) ==
  \E m \in Nat :
    /\ root \in [0 .. m -> AllVertices(n)]
    /\ root[0] = 0
    /\ \A v \in 1 .. m : root[v] # 0

\* The costs from vertex i of a level to each other one.
CostsFrom(C, n, root, i) == [j \in DOMAIN root |-> CellCost(C, n, root[i], root[j])]

\* The neighbour lists of the first vertices of a level.
ListsSound(lists, C, n, root) ==
  /\ \E S : lists \in Seq(S)
  /\ Len(lists) <= Cardinality(DOMAIN root)
  /\ \A i \in 1 .. Len(lists) :
       NearSound(lists[i], i - 1, Cardinality(DOMAIN root), CostsFrom(C, n, root, i - 1))

\* The values are named, so that their primes are those of variables only.
MatrixInv ==
  \E n, C, lists :
    /\ n = matrix_size /\ C = costs_matrix /\ lists = neighbors
    /\ \E S : lists \in Seq(S)
    /\ Len(lists) <= n
    /\ phase \in {"parse", "matrix"} => lists = <<>>
    /\ phase \in {"sort", "done"} /\ valid =>
         CostsSound(C, n) /\ ListsSound(lists, C, n, Identity(n))
    /\ phase = "done" /\ valid =>
         Len(lists) = n /\ \A c \in 1 .. n - 1 : demands[c] # 0

ViewsSound(c, R, C, n) ==
  /\ RootsUpTo(R, c, Len(c), n)
  /\ \A k \in 0 .. Len(c) : LevelSound(R[k], n)
  /\ \A k \in 1 .. Len(c) : ListsSound(c[k].neighbors, C, n, R[k])

ViewsInv ==
  \E c, C, n :
    /\ c = chain /\ C = costs_matrix /\ n = matrix_size
    /\ c # <<>> => phase = "done" /\ valid
    /\ phase = "done" /\ valid /\ n > 0 => \E R : ViewsSound(c, R, C, n)

CallsInv == calls \in Nat /\ calls <= MaxCalls /\ Len(chain) <= calls

SavedInv == saved.exists => saved \in FileType

SubInv == FieldsInv /\ ChainInv /\ MatrixInv /\ ViewsInv /\ CallsInv /\ SavedInv

\* The hypothesis of the theorems: what calls itself valid has a depot.  A golden or X
\* file of dimension 0 would give an instance without one, on which the code reads and
\* writes the first cells of empty vectors (Instance_parsers.cpp:95).
HasDepot == valid => matrix_size > 0

-----------------------------------------------------------------------------

LEMMA LevelCount ==
  ASSUME NEW root, NEW m \in Nat, DOMAIN root = 0 .. m
  PROVE  Cardinality(DOMAIN root) = m + 1 /\ AllVertices(m + 1) = 0 .. m
<1>1. Cardinality(0 .. m) = m - 0 + 1
  BY FS_Interval
<1>2. QED
  BY <1>1 DEF AllVertices

LEMMA NoLists == ASSUME NEW C, NEW n, NEW root, IsFiniteSet(DOMAIN root) PROVE ListsSound(<<>>, C, n, root)
<1>1. <<>> \in Seq({}) /\ Len(<<>>) = 0 /\ Cardinality(DOMAIN root) \in Nat
  BY FS_CardinalityType
<1>2. QED
  BY <1>1 DEF ListsSound

\* A step of the two loops that fill neighbors.
LEMMA ListsAppended ==
  ASSUME NEW lists, NEW C, NEW n, NEW root, NEW m \in Nat,
         root \in [0 .. m -> AllVertices(n)], CostsSound(C, n),
         ListsSound(lists, C, n, root), Len(lists) < m + 1,
         NEW p \in SortedOrders(m + 1,
                     [j \in AllVertices(m + 1) |-> CellCost(C, n, root[Len(lists)], root[j])])
  PROVE  ListsSound(Append(lists, WithItselfFirst(p, Len(lists))), C, n, root)
<1> DEFINE i == Len(lists)
           cost == [j \in AllVertices(m + 1) |-> CellCost(C, n, root[Len(lists)], root[j])]
           near == WithItselfFirst(p, i)
<1>1. DOMAIN root = 0 .. m /\ Cardinality(DOMAIN root) = m + 1 /\ AllVertices(m + 1) = 0 .. m
  BY LevelCount
<1>2. PICK S : lists \in Seq(S)
  BY DEF ListsSound
<1>3. i \in 0 .. m
  BY <1>2, LenProperties
<1>4. cost \in [AllVertices(m + 1) -> Nat] /\ cost[i] = 0 /\ cost = CostsFrom(C, n, root, i)
  <2>1. ASSUME NEW j \in 0 .. m PROVE CellCost(C, n, root[i], root[j]) \in Nat
    <3>1. root[i] \in AllVertices(n) /\ root[j] \in AllVertices(n)
      BY <1>3
    <3> HIDE DEF i
    <3>2. QED
      BY <3>1 DEF CostsSound
  <2>2. CellCost(C, n, root[i], root[i]) = 0
    <3>1. root[i] \in AllVertices(n)
      BY <1>3
    <3> HIDE DEF i
    <3>2. QED
      BY <3>1 DEF CostsSound
  <2>3. QED
    BY <1>1, <1>3, <2>1, <2>2 DEF CostsFrom
<1>5. NearSound(near, i, m + 1, cost)
  <2>1. m + 1 \in Nat /\ i \in AllVertices(m + 1)
    BY <1>1, <1>3
  <2> HIDE DEF cost
  <2>2. p \in SortedOrders(m + 1, cost)
    BY DEF cost
  <2>3. QED
    BY <1>4, <2>1, <2>2, NearSorted
<1> HIDE DEF near, cost
<1> DEFINE more == Append(lists, near)
<1>6. /\ more \in Seq(S \cup {near}) /\ Len(more) = i + 1
      /\ \A k \in 1 .. i : more[k] = lists[k]
      /\ more[i + 1] = near
  <2>1. lists \in Seq(S \cup {near}) /\ near \in S \cup {near}
    BY <1>2
  <2>2. QED
    BY <2>1, AppendProperties
<1> HIDE DEF more
<1>7. ASSUME NEW k \in 1 .. Len(more)
      PROVE  NearSound(more[k], k - 1, m + 1, CostsFrom(C, n, root, k - 1))
  <2>1. CASE k = i + 1
    <3>1. k - 1 = i
      BY <1>3, <2>1
    <3>2. QED
      BY <1>4, <1>5, <1>6, <2>1, <3>1
  <2>2. CASE k # i + 1
    <3>1. k \in 1 .. i
      BY <1>3, <1>6, <2>2
    <3> HIDE DEF i
    <3>2. NearSound(lists[k], k - 1, m + 1, CostsFrom(C, n, root, k - 1))
      BY <1>1, <3>1 DEF ListsSound, i
    <3>3. QED
      BY <1>6, <3>1, <3>2
  <2>3. QED
    BY <2>1, <2>2
<1>8. Len(more) <= m + 1
  BY <1>3, <1>6
<1>9. QED
  BY <1>1, <1>6, <1>7, <1>8 DEF ListsSound, more, near, i

LEMMA MatrixKept ==
  MatrixInv /\ UNCHANGED <<phase, valid, fieldVars, costs_matrix, neighbors>> => MatrixInv'
<1> SUFFICES ASSUME MatrixInv, UNCHANGED <<phase, valid, fieldVars, costs_matrix, neighbors>>
             PROVE  MatrixInv'
  OBVIOUS
<1>1. /\ phase' = phase /\ valid' = valid /\ matrix_size' = matrix_size /\ demands' = demands
      /\ costs_matrix' = costs_matrix /\ neighbors' = neighbors
  BY DEF fieldVars
<1>2. QED
  BY <1>1 DEF MatrixInv

LEMMA ViewsKept ==
  ViewsInv /\ UNCHANGED <<phase, valid, fieldVars, costs_matrix, chain>> => ViewsInv'
<1> SUFFICES ASSUME ViewsInv, UNCHANGED <<phase, valid, fieldVars, costs_matrix, chain>>
             PROVE  ViewsInv'
  OBVIOUS
<1>1. /\ phase' = phase /\ valid' = valid /\ matrix_size' = matrix_size
      /\ costs_matrix' = costs_matrix /\ chain' = chain
  BY DEF fieldVars
<1>2. QED
  BY <1>1 DEF ViewsInv

\* While the instance is not there: no lists and no views.
LEMMA NothingYet ==
  ASSUME FieldsInv', neighbors' = <<>>, chain' = <<>>, ~(phase' \in {"sort", "done"} /\ valid')
  PROVE  MatrixInv' /\ ViewsInv'
<1>1. PICK n \in Nat : n = matrix_size'
  BY DEF FieldsInv
<1>2. <<>> \in Seq({}) /\ Len(<<>>) <= n
  OBVIOUS
<1>3. MatrixInv'
  BY <1>1, <1>2 DEF MatrixInv
<1>4. ViewsInv'
  BY DEF ViewsInv
<1>5. QED
  BY <1>3, <1>4

\* A step of the constructor of the instance.
LEMMA ConstructFields == FieldsInv /\ Construct => FieldsInv'
<1> SUFFICES ASSUME FieldsInv, Construct PROVE FieldsInv'
  OBVIOUS
<1>1. CASE FillMatrix \/ SortNeighbors
  <2>1. CASE FillMatrix
    <3>1. /\ phase = "matrix" /\ phase' = "sort" /\ file' = file /\ valid' = valid
          /\ parser' = parser /\ pc' = pc /\ cursor' = cursor /\ line' = line
          /\ matrix_size' = matrix_size /\ capacity' = capacity
          /\ x_coordinates' = x_coordinates /\ y_coordinates' = y_coordinates /\ demands' = demands
      BY <2>1 DEF FillMatrix, parseVars, fieldVars
    <3>2. QED
      BY <3>1 DEF FieldsInv, CapacityLine, Sized, Naturals, AllVertices
  <2>2. CASE SortNeighbors
    BY <2>2, SameFields DEF SortNeighbors
  <2>3. QED
    BY <1>1, <2>1, <2>2
<1>2. CASE CheckDemands
  <2>1. /\ phase = "sort" /\ phase' = "done" /\ file' = file /\ valid' \in BOOLEAN
        /\ parser' = parser /\ pc' = pc /\ cursor' = cursor /\ line' = line
        /\ matrix_size' = matrix_size /\ capacity' = capacity
        /\ x_coordinates' = x_coordinates /\ y_coordinates' = y_coordinates /\ demands' = demands
    BY <1>2 DEF CheckDemands, parseVars, fieldVars
  <2>2. Sized
    BY <2>1 DEF FieldsInv
  <2>3. QED
    BY <2>1, <2>2 DEF FieldsInv, CapacityLine, Sized, Naturals, AllVertices
<1>3. QED
  BY <1>1, <1>2, OpenFailsFields, ReadLineFields, ParsedFields DEF Construct

LEMMA ParsingKeeps ==
  ASSUME FieldsInv, MatrixInv, ViewsInv, FieldsInv', UNCHANGED subVars, OpenFails \/ ReadLine \/ Parsed
  PROVE  MatrixInv' /\ ViewsInv'
<1>1. phase = "parse" /\ neighbors' = neighbors /\ chain' = chain
  BY DEF OpenFails, ReadLine, Parsed, subVars
<1>2. neighbors = <<>>
  BY <1>1 DEF MatrixInv
<1>3. chain = <<>>
  BY <1>1 DEF ViewsInv
<1>4. ~(phase' \in {"sort", "done"} /\ valid')
  <2>1. CASE OpenFails \/ ReadLine
    BY <1>1, <2>1 DEF FieldsInv, OpenFails, ReadLine
  <2>2. CASE Parsed
    BY <2>2 DEF Parsed
  <2>3. QED
    BY <2>1, <2>2
<1>5. QED
  BY <1>1, <1>2, <1>3, <1>4, NothingYet

LEMMA IdentityLevel ==
  ASSUME NEW n \in Nat
  PROVE  /\ IsFiniteSet(DOMAIN Identity(n)) /\ Cardinality(DOMAIN Identity(n)) = n
         /\ n > 0 => LevelSound(Identity(n), n)
<1>1. DOMAIN Identity(n) = 0 .. n - 1
  BY DEF Identity, AllVertices
<1>2. IsFiniteSet(0 .. n - 1) /\ Cardinality(0 .. n - 1) = n
  BY FS_Interval
<1>3. ASSUME n > 0 PROVE LevelSound(Identity(n), n)
  <2>1. n - 1 \in Nat /\ Identity(n) \in [0 .. n - 1 -> AllVertices(n)] /\ Identity(n)[0] = 0
    BY <1>3 DEF Identity, AllVertices
  <2>2. \A v \in 1 .. n - 1 : Identity(n)[v] # 0
    BY DEF Identity, AllVertices
  <2>3. QED
    BY <2>1, <2>2 DEF LevelSound
<1>4. QED
  BY <1>1, <1>2, <1>3

LEMMA FillKeeps ==
  ASSUME FieldsInv, MatrixInv, ViewsInv, UNCHANGED subVars, FillMatrix
  PROVE  MatrixInv' /\ ViewsInv'
<1>1. /\ phase = "matrix" /\ phase' = "sort" /\ costs_matrix' = FilledMatrix /\ neighbors' = neighbors
      /\ matrix_size' = matrix_size /\ valid' = valid /\ chain' = chain
  BY DEF FillMatrix, fieldVars, subVars
<1>2. neighbors = <<>> /\ chain = <<>>
  BY <1>1 DEF MatrixInv, ViewsInv
<1>3. valid /\ Sized /\ matrix_size \in Nat
  BY <1>1 DEF FieldsInv
<1> DEFINE n == matrix_size
           C == FilledMatrix
<1>4. CostsSound(C, n)
  BY <1>3, FilledSound
<1> HIDE DEF C, n
<1>5. n \in Nat /\ ListsSound(<<>>, C, n, Identity(n))
  BY <1>3, IdentityLevel, NoLists DEF n
<1>6. <<>> \in Seq({}) /\ Len(<<>>) <= n
  BY <1>5
<1>7. costs_matrix' = C /\ matrix_size' = n /\ neighbors' = <<>> /\ chain' = <<>> /\ phase' = "sort"
  BY <1>1, <1>2 DEF C, n
<1>8. MatrixInv'
  BY <1>4, <1>5, <1>6, <1>7 DEF MatrixInv
<1>9. ViewsInv'
  BY <1>7 DEF ViewsInv
<1>10. QED
  BY <1>8, <1>9

LEMMA SortKeeps ==
  ASSUME FieldsInv, MatrixInv, ViewsInv, UNCHANGED subVars, SortNeighbors
  PROVE  MatrixInv' /\ ViewsInv'
<1>1. /\ phase = "sort" /\ phase' = phase /\ valid' = valid /\ costs_matrix' = costs_matrix
      /\ matrix_size' = matrix_size /\ demands' = demands /\ Len(neighbors) < matrix_size /\ chain' = chain
  BY DEF SortNeighbors, fieldVars, subVars
<1>2. PICK p \in SortedOrders(matrix_size, [j \in AllVertices(matrix_size) |-> RootCost(Len(neighbors), j)]) :
        neighbors' = Append(neighbors, WithItselfFirst(p, Len(neighbors)))
  BY DEF SortNeighbors
<1>3. valid /\ matrix_size \in Nat
  BY <1>1 DEF FieldsInv
<1>4. PICK n, C, lists :
        /\ n = matrix_size /\ C = costs_matrix /\ lists = neighbors
        /\ \E S : lists \in Seq(S)
        /\ CostsSound(C, n) /\ ListsSound(lists, C, n, Identity(n))
  BY <1>1, <1>3 DEF MatrixInv
<1>5. n \in Nat /\ Len(lists) \in Nat /\ Len(lists) < n /\ n - 1 \in Nat /\ (n - 1) + 1 = n
  BY <1>1, <1>3, <1>4, LenProperties
<1>6. Identity(n) \in [0 .. n - 1 -> AllVertices(n)]
  BY <1>5 DEF Identity, AllVertices
<1>7. [j \in AllVertices(n) |-> RootCost(Len(neighbors), j)]
        = [j \in AllVertices((n - 1) + 1) |-> CellCost(C, n, Identity(n)[Len(lists)], Identity(n)[j])]
  <2>1. Len(lists) \in AllVertices(n)
    BY <1>5 DEF AllVertices
  <2>2. QED
    BY <1>4, <1>5, <2>1 DEF Identity, RootCost, CellCost, Address
<1> DEFINE near == WithItselfFirst(p, Len(lists))
           more == Append(lists, near)
<1>8. ListsSound(more, C, n, Identity(n))
  <2>1. p \in SortedOrders((n - 1) + 1,
               [j \in AllVertices((n - 1) + 1) |-> CellCost(C, n, Identity(n)[Len(lists)], Identity(n)[j])])
    BY <1>2, <1>4, <1>5, <1>7
  <2>2. QED
    BY <1>4, <1>5, <1>6, <2>1, ListsAppended
<1>9. (\E S : more \in Seq(S)) /\ Len(more) <= n
  <2>1. PICK S : lists \in Seq(S)
    BY <1>4
  <2>2. lists \in Seq(S \cup {near}) /\ near \in S \cup {near}
    BY <2>1
  <2>3. more \in Seq(S \cup {near}) /\ Len(more) = Len(lists) + 1
    BY <2>2, AppendProperties
  <2>4. QED
    BY <1>5, <2>3
<1>10. neighbors' = more
  BY <1>2, <1>4
<1> HIDE DEF more
<1>11. MatrixInv'
  BY <1>1, <1>4, <1>8, <1>9, <1>10 DEF MatrixInv
<1>12. ViewsInv'
  BY <1>1, ViewsKept DEF ViewsInv
<1>13. QED
  BY <1>11, <1>12

\* When the constructor returns, the only level is the instance.
LEMMA CheckKeeps ==
  ASSUME FieldsInv, MatrixInv, ViewsInv, UNCHANGED subVars, CheckDemands
  PROVE  MatrixInv' /\ ViewsInv'
<1>1. /\ phase = "sort" /\ phase' = "done" /\ costs_matrix' = costs_matrix /\ neighbors' = neighbors
      /\ matrix_size' = matrix_size /\ demands' = demands /\ Len(neighbors) = matrix_size /\ chain' = chain
      /\ valid' = (\A c \in 1 .. matrix_size - 1 : demands[c] # 0)
  BY DEF CheckDemands, fieldVars, subVars
<1>2. valid /\ matrix_size \in Nat
  BY <1>1 DEF FieldsInv
<1>3. MatrixInv'
  BY <1>1, <1>2 DEF MatrixInv
<1>4. chain = <<>>
  BY <1>1 DEF ViewsInv
<1>5. ASSUME NEW C, NEW n \in Nat, n > 0 PROVE ViewsSound(<<>>, [k \in 0 .. 0 |-> Identity(n)], C, n)
  <2> DEFINE R == [k \in 0 .. 0 |-> Identity(n)]
  <2>1. R[0] = Identity(n) /\ Len(<<>>) = 0
    OBVIOUS
  <2>2. RootsUpTo(R, <<>>, 0, n)
    BY DEF RootsUpTo
  <2>3. LevelSound(R[0], n)
    BY <1>5, <2>1, IdentityLevel
  <2> HIDE DEF R
  <2>4. QED
    BY <2>1, <2>2, <2>3 DEF ViewsSound, R
<1>6. ViewsInv'
  BY <1>1, <1>2, <1>4, <1>5 DEF ViewsInv
<1>7. QED
  BY <1>3, <1>6

LEMMA DepthNat == ChainInv => Depth \in Nat /\ Depth = Len(chain)
<1> SUFFICES ASSUME ChainInv PROVE Depth \in Nat
  BY DEF Depth
<1>1. PICK V : chain \in Seq(V)
  BY DEF ChainInv
<1>2. QED
  BY <1>1, LenProperties DEF Depth

\* What a client finds in a valid instance and its views.
Levels(c, R, C, n) ==
  /\ c = chain /\ R = RootVertex /\ C = costs_matrix /\ n = matrix_size
  /\ n \in Nat /\ n > 0
  /\ ViewsSound(c, R, C, n)
  /\ CostsSound(C, n)

LEMMA ValidLevels ==
  ASSUME FieldsInv, ChainInv, MatrixInv, ViewsInv, HasDepot, phase = "done", valid
  PROVE  \E c, R, C, n : Levels(c, R, C, n)
<1>1. PICK c, C, n : /\ c = chain /\ C = costs_matrix /\ n = matrix_size
                     /\ n > 0 => \E R : ViewsSound(c, R, C, n)
  BY DEF ViewsInv
<1>2. n \in Nat /\ n > 0
  BY <1>1 DEF HasDepot, FieldsInv
<1>3. PICK R : ViewsSound(c, R, C, n)
  BY <1>1, <1>2
<1>4. Depth \in Nat /\ Depth = Len(chain)
  BY DepthNat
<1>5. RootsUpTo(R, chain, Depth, matrix_size)
  BY <1>1, <1>3, <1>4 DEF ViewsSound
<1>6. R = RootVertex
  BY <1>4, <1>5, RootVertexIs
<1>7. CostsSound(C, n)
  BY <1>1 DEF MatrixInv
<1>8. QED
  BY <1>1, <1>2, <1>3, <1>6, <1>7 DEF Levels

\* The same views, with more neighbours or other inverse mappings.
LEMMA ViewsReplaced ==
  ASSUME NEW c, NEW d, NEW R, NEW C, NEW n, ViewsSound(c, R, C, n), Len(c) \in Nat, Len(d) = Len(c),
         \A k \in 1 .. Len(c) : d[k].mapping = c[k].mapping /\ ListsSound(d[k].neighbors, C, n, R[k])
  PROVE  ViewsSound(d, R, C, n)
<1>1. RootsUpTo(R, d, Len(d), n)
  BY RootsSame DEF ViewsSound
<1>2. QED
  BY <1>1 DEF ViewsSound

LEMMA ViewsAfter ==
  ASSUME NEW d, NEW R, NEW C, NEW n, ViewsSound(d, R, C, n),
         chain' = d, costs_matrix' = C, matrix_size' = n, phase' = "done", valid'
  PROVE  ViewsInv'
BY DEF ViewsInv

-----------------------------------------------------------------------------

\* The level of a new view.
LEMMA ExtendedLevel ==
  ASSUME NEW n, NEW root, LevelSound(root, n), NEW q \in Nat,
         NEW customers \in [1 .. q -> DOMAIN root \ {0}]
  PROVE  LevelSound([v \in DOMAIN MappingOf(customers) |-> root[MappingOf(customers)[v]]], n)
<1> DEFINE map == MappingOf(customers)
           top == [v \in DOMAIN map |-> root[map[v]]]
<1>1. PICK m \in Nat : /\ root \in [0 .. m -> AllVertices(n)] /\ root[0] = 0
                       /\ \A v \in 1 .. m : root[v] # 0
  BY DEF LevelSound
<1>2. Len(customers) = q
  OBVIOUS
<1>3. DOMAIN map = 0 .. q /\ map[0] = 0 /\ \A i \in 1 .. q : map[i] = customers[i]
  BY <1>2 DEF MappingOf
<1> HIDE DEF map
<1>4. DOMAIN root = 0 .. m /\ 0 \in 0 .. m
  BY <1>1
<1>5. \A i \in 1 .. q : map[i] \in 1 .. m
  <2> SUFFICES ASSUME NEW i \in 1 .. q PROVE map[i] \in 1 .. m
    OBVIOUS
  <2>1. customers[i] \in DOMAIN root \ {0}
    OBVIOUS
  <2>2. QED
    BY <1>3, <1>4, <2>1
<1>6. \A i \in 0 .. q : map[i] \in 0 .. m
  <2> SUFFICES ASSUME NEW i \in 0 .. q PROVE map[i] \in 0 .. m
    OBVIOUS
  <2>1. i = 0 \/ i \in 1 .. q
    OBVIOUS
  <2>2. QED
    BY <1>3, <1>5, <2>1
<1>7. top \in [0 .. q -> AllVertices(n)]
  BY <1>1, <1>3, <1>6
<1>8. top[0] = 0
  BY <1>1, <1>3
<1>9. ASSUME NEW v \in 1 .. q PROVE top[v] # 0
  <2>1. v \in DOMAIN map
    BY <1>3
  <2>2. top[v] = root[map[v]]
    BY <2>1
  <2>3. QED
    BY <1>1, <1>5, <2>2
<1> HIDE DEF top
<1>10. LevelSound(top, n)
  BY <1>7, <1>8, <1>9 DEF LevelSound
<1>11. QED
  BY <1>10 DEF top, map

LEMMA DecomposeKeeps ==
  ASSUME FieldsInv, ChainInv, MatrixInv, ViewsInv, HasDepot, Decompose
  PROVE  ViewsInv'
<1>1. phase = "done" /\ valid /\ UNCHANGED instanceVars
  BY DEF Decompose, Usable
<1>2. PICK c, R, C, n : Levels(c, R, C, n)
  BY <1>1, ValidLevels
<1>3. PICK customers \in Chunks(Depth) :
        chain' = Append(chain, [mapping |-> MappingOf(customers),
                                reverse |-> ReverseOf(customers), neighbors |-> <<>>])
  BY DEF Decompose
<1> DEFINE N == Len(c)
           view == [mapping |-> MappingOf(customers), reverse |-> ReverseOf(customers), neighbors |-> <<>>]
           d == Append(c, view)
           top == [v \in DOMAIN d[N + 1].mapping |-> R[N][d[N + 1].mapping[v]]]
           S == [k \in 0 .. N + 1 |-> IF k = N + 1 THEN top ELSE R[k]]
<1>4. N \in Nat /\ N = Depth
  BY <1>2, DepthNat DEF Levels
<1>5. /\ Len(d) = N + 1 /\ d[N + 1] = view
      /\ \A k \in 1 .. N : d[k] = c[k]
  <2>1. PICK V : c \in Seq(V)
    BY <1>2 DEF Levels, ChainInv
  <2>2. c \in Seq(V \cup {view}) /\ view \in V \cup {view}
    BY <2>1
  <2>3. QED
    BY <2>2, AppendProperties
<1>6. chain' = d
  BY <1>2, <1>3 DEF Levels
<1>7. /\ RootsUpTo(R, c, N, n)
      /\ \A k \in 0 .. N : LevelSound(R[k], n)
      /\ \A k \in 1 .. N : ListsSound(c[k].neighbors, C, n, R[k])
  BY <1>2 DEF Levels, ViewsSound
<1>8. PICK q \in Nat : customers \in [1 .. q -> DOMAIN R[N] \ {0}]
  <2>1. VerticesOf(Depth) = DOMAIN R[N]
    BY <1>2, <1>4 DEF VerticesOf, Levels
  <2>2. QED
    BY <1>3, <2>1 DEF Chunks
<1>9. LevelSound(top, n)
  <2>1. d[N + 1].mapping = MappingOf(customers)
    BY <1>5
  <2>2. LevelSound(R[N], n)
    BY <1>4, <1>7
  <2> HIDE DEF d, N
  <2>3. LevelSound([v \in DOMAIN MappingOf(customers) |-> R[N][MappingOf(customers)[v]]], n)
    BY <1>8, <2>2, ExtendedLevel
  <2>4. QED
    BY <2>1, <2>3
<1>10. RootsUpTo(S, d, N + 1, n)
  <2>1. \A k \in 1 .. N : d[k].mapping = c[k].mapping
    BY <1>5
  <2> HIDE DEF d, N
  <2>2. QED
    BY <1>4, <1>7, <2>1, RootsExtended
<1>11. (\A k \in 0 .. N : S[k] = R[k]) /\ S[N + 1] = top
  <2>1. N + 1 \in 0 .. N + 1 /\ \A k \in 0 .. N : k \in 0 .. N + 1 /\ k # N + 1
    BY <1>4
  <2> HIDE DEF top, N
  <2>2. QED
    BY <2>1
<1>12. ListsSound(<<>>, C, n, top)
  <2>1. PICK m \in Nat : DOMAIN top = 0 .. m
    BY <1>9 DEF LevelSound
  <2>2. IsFiniteSet(DOMAIN top)
    BY <2>1, FS_Interval
  <2> HIDE DEF top
  <2>3. QED
    BY <2>2, NoLists
<1> HIDE DEF N, S, top, d
<1>13. ASSUME NEW k \in 0 .. N + 1 PROVE LevelSound(S[k], n)
  <2>1. k \in 0 .. N \/ k = N + 1
    BY <1>4
  <2>2. QED
    BY <1>7, <1>9, <1>11, <2>1
<1>14. ASSUME NEW k \in 1 .. N + 1 PROVE ListsSound(d[k].neighbors, C, n, S[k])
  <2>1. CASE k = N + 1
    <3>1. d[k].neighbors = <<>>
      BY <1>5, <2>1
    <3>2. QED
      BY <1>11, <1>12, <2>1, <3>1
  <2>2. CASE k # N + 1
    <3>1. k \in 1 .. N /\ k \in 0 .. N
      BY <1>4, <2>2
    <3>2. QED
      BY <1>5, <1>7, <1>11, <3>1
  <2>3. QED
    BY <2>1, <2>2
<1>15. ViewsSound(d, S, C, n)
  BY <1>5, <1>10, <1>13, <1>14 DEF ViewsSound
<1>16. phase' = "done" /\ valid' /\ costs_matrix' = C /\ matrix_size' = n
  BY <1>1, <1>2 DEF Levels, instanceVars, fieldVars
<1>17. QED
  BY <1>6, <1>15, <1>16, ViewsAfter

LEMMA SortSubKeeps ==
  ASSUME FieldsInv, ChainInv, MatrixInv, ViewsInv, HasDepot, SortSubNeighbors
  PROVE  ViewsInv'
<1>1. phase = "done" /\ Depth > 0 /\ ~Constructed(Depth) /\ UNCHANGED instanceVars
  BY DEF SortSubNeighbors
<1>2. valid
  <2>1. chain # <<>>
    BY <1>1 DEF Depth
  <2>2. QED
    BY <2>1 DEF ViewsInv
<1>3. PICK c, R, C, n : Levels(c, R, C, n)
  BY <1>1, <1>2, ValidLevels
<1> DEFINE N == Len(c)
           lists == c[N].neighbors
           root == R[N]
<1>4. N \in Nat /\ N = Depth /\ N \in 1 .. N /\ N \in 0 .. N
  BY <1>1, <1>3, DepthNat DEF Levels
<1>5. /\ LevelSound(root, n)
      /\ ListsSound(lists, C, n, root)
      /\ \A k \in 1 .. N : ListsSound(c[k].neighbors, C, n, R[k])
      /\ CostsSound(C, n)
  BY <1>3, <1>4 DEF Levels, ViewsSound
<1>6. PICK m \in Nat : root \in [0 .. m -> AllVertices(n)]
  BY <1>5 DEF LevelSound
<1>7. VerticesOf(Depth) = DOMAIN root /\ NeighborsOf(Depth) = lists /\ chain = c
      /\ RootVertex[Depth] = root
  BY <1>1, <1>3, <1>4 DEF Levels, VerticesOf, NeighborsOf
<1>8. Cardinality(DOMAIN root) = m + 1 /\ DOMAIN root = 0 .. m /\ AllVertices(m + 1) = 0 .. m
  BY <1>6, LevelCount
<1>9. Len(lists) \in Nat /\ Len(lists) < m + 1
  <2>1. Len(lists) # m + 1 /\ Len(lists) <= m + 1
    BY <1>1, <1>5, <1>7, <1>8 DEF Constructed, ListsSound
  <2>2. Len(lists) \in Nat
    BY <1>5, LenProperties DEF ListsSound
  <2>3. QED
    BY <2>1, <2>2
<1>10. PICK p \in SortedOrders(m + 1, CostsOf(Depth)[Len(lists)]) :
         chain' = [chain EXCEPT ![Depth].neighbors = Append(@, WithItselfFirst(p, Len(lists)))]
  <2>1. chain[Depth].neighbors = lists /\ Cardinality(VerticesOf(Depth)) = m + 1
    BY <1>4, <1>7, <1>8
  <2> HIDE DEF lists
  <2>2. QED
    BY <2>1 DEF SortSubNeighbors
<1>11. CostsOf(Depth)[Len(lists)] = [j \in AllVertices(m + 1) |-> CellCost(C, n, root[Len(lists)], root[j])]
  <2>1. Len(lists) \in DOMAIN root
    <3> HIDE DEF lists, root
    <3>1. QED
      BY <1>6, <1>8, <1>9
  <2>2. CostsOf(Depth) = [i \in DOMAIN root |-> [j \in DOMAIN root |-> CellCost(C, n, root[i], root[j])]]
    BY <1>3, <1>7 DEF CostsOf, RootCost, Address, CellCost, Levels
  <2> HIDE DEF lists, root
  <2>3. QED
    BY <1>8, <2>1, <2>2
<1>12. ListsSound(Append(lists, WithItselfFirst(p, Len(lists))), C, n, root)
  <2>1. p \in SortedOrders(m + 1, [j \in AllVertices(m + 1) |-> CellCost(C, n, root[Len(lists)], root[j])])
    BY <1>10, <1>11
  <2> HIDE DEF lists, root
  <2>2. QED
    BY <1>5, <1>6, <1>9, <2>1, ListsAppended
<1> DEFINE more == Append(lists, WithItselfFirst(p, Len(lists)))
           view == [c[N] EXCEPT !.neighbors = more]
           d == [c EXCEPT ![N] = view]
<1>13. chain' = d
  BY <1>4, <1>7, <1>10
<1>14. view.mapping = c[N].mapping /\ view.neighbors = more
  <2>1. PICK x, y, z : c[N] = [mapping |-> x, reverse |-> y, neighbors |-> z]
    BY <1>3, <1>4 DEF Levels, ChainInv, IsView
  <2> HIDE DEF more
  <2>2. QED
    BY <2>1
<1> HIDE DEF view
<1>15. /\ Len(d) = N
       /\ \A k \in 1 .. N : d[k] = IF k = N THEN view ELSE c[k]
  <2>1. PICK V : c \in Seq(V)
    BY <1>3 DEF Levels, ChainInv
  <2> HIDE DEF N
  <2>2. c \in Seq(V \cup {view}) /\ view \in V \cup {view}
    BY <2>1
  <2>3. N \in 1 .. Len(c) /\ Len(c) = N
    BY <1>4 DEF N
  <2>4. QED
    BY <2>2, <2>3, ExceptSeq
<1> HIDE DEF d
<1>16. \A k \in 1 .. N : d[k].mapping = c[k].mapping /\ ListsSound(d[k].neighbors, C, n, R[k])
  BY <1>5, <1>12, <1>14, <1>15
<1>17. ViewsSound(d, R, C, n)
  BY <1>3, <1>4, <1>15, <1>16, ViewsReplaced DEF Levels
<1>18. phase' = "done" /\ valid' /\ costs_matrix' = C /\ matrix_size' = n
  BY <1>1, <1>2, <1>3 DEF Levels, instanceVars, fieldVars
<1>19. QED
  BY <1>13, <1>17, <1>18, ViewsAfter

LEMMA AskKeeps ==
  ASSUME FieldsInv, ChainInv, MatrixInv, ViewsInv, HasDepot,
         NEW k \in 1 .. Depth, NEW v, get_reverse_mapping(k, v)
  PROVE  ViewsInv'
<1>1. phase = "done" /\ valid /\ UNCHANGED instanceVars
  BY DEF get_reverse_mapping, Usable
<1>2. PICK c, R, C, n : Levels(c, R, C, n)
  BY <1>1, ValidLevels
<1> DEFINE N == Len(c)
           r == [u \in DOMAIN c[k].reverse \cup {v} |-> IF u \in DOMAIN c[k].reverse THEN c[k].reverse[u] ELSE 0]
           view == [c[k] EXCEPT !.reverse = r]
           d == [c EXCEPT ![k] = view]
<1>3. N \in Nat /\ k \in 1 .. N
  BY <1>2, DepthNat DEF Levels
<1>4. chain' = d
  BY <1>2 DEF get_reverse_mapping, ReverseMappingRead, Levels
<1>5. view.mapping = c[k].mapping /\ view.neighbors = c[k].neighbors
  <2>1. PICK x, y, z : c[k] = [mapping |-> x, reverse |-> y, neighbors |-> z]
    BY <1>2, <1>3 DEF Levels, ChainInv, IsView
  <2> HIDE DEF r
  <2>2. QED
    BY <2>1
<1> HIDE DEF view
<1>6. /\ Len(d) = N
      /\ \A j \in 1 .. N : d[j] = IF j = k THEN view ELSE c[j]
  <2>1. PICK V : c \in Seq(V)
    BY <1>2 DEF Levels, ChainInv
  <2>2. c \in Seq(V \cup {view}) /\ view \in V \cup {view}
    BY <2>1
  <2>3. QED
    BY <1>3, <2>2, ExceptSeq
<1> HIDE DEF d
<1>7. \A j \in 1 .. N : d[j].mapping = c[j].mapping /\ ListsSound(d[j].neighbors, C, n, R[j])
  BY <1>2, <1>5, <1>6 DEF Levels, ViewsSound
<1>8. ViewsSound(d, R, C, n)
  BY <1>2, <1>3, <1>6, <1>7, ViewsReplaced DEF Levels
<1>9. phase' = "done" /\ valid' /\ costs_matrix' = C /\ matrix_size' = n
  BY <1>1, <1>2 DEF Levels, instanceVars, fieldVars
<1>10. QED
  BY <1>4, <1>8, <1>9, ViewsAfter

-----------------------------------------------------------------------------
(* Files that the library writes.                                          *)

LEMMA Listed == ASSUME NEW S, NEW n \in Nat, NEW f \in [1 .. n -> S] PROVE f \in Seq(S)
OBVIOUS

LEMMA LineTypes ==
  ASSUME NEW a \in Tokens, NEW b \in Tokens, NEW c \in Tokens
  PROVE  <<a>> \in Seq(Tokens) /\ <<a, b>> \in Seq(Tokens) /\ <<a, b, c>> \in Seq(Tokens)
OBVIOUS

\* A printed coordinate is a number, and up to six digits the coordinate itself.
LEMMA PrintedNumber == ASSUME NEW n \in Nat PROVE Printed(n) \in Nat
<1>1. PICK place \in {1, 10, 100} : LastPlace(n) = place
  BY SMT DEF LastPlace
<1>2. n \div 1 \in Nat /\ n \div 10 \in Nat /\ n \div 100 \in Nat
  OBVIOUS
<1>3. PICK digits \in Nat : n \div place = digits
  BY <1>2
<1>4. place * (digits + 0) \in Nat /\ place * (digits + 1) \in Nat
  BY SMT
<1>5. Printed(n) = place * (digits + 0) \/ Printed(n) = place * (digits + 1)
  BY <1>1, <1>3, Zenon DEF Printed
<1>6. QED
  BY <1>4, <1>5

SixDigits(n) == n < 1000000

LEMMA PrintedInFull == ASSUME NEW n \in Nat, SixDigits(n) PROVE Printed(n) = n
<1>1. LastPlace(n) = 1
  BY SMT DEF LastPlace, SixDigits
<1>2. n \div 1 = n /\ n % 1 = 0
  BY SMT
<1>3. QED
  BY <1>1, <1>2, SMT DEF Printed

\* The vertices of the top level, and the numbers that its getters answer.
LEMMA LevelVertices ==
  ASSUME FieldsInv, ChainInv, MatrixInv, ViewsInv, HasDepot, phase = "done", valid
  PROVE  \E m \in Nat : /\ RootVertex[Depth] \in [0 .. m -> AllVertices(matrix_size)]
                        /\ VerticesOf(Depth) = 0 .. m /\ Cardinality(VerticesOf(Depth)) = m + 1
<1>1. PICK c, R, C, n : Levels(c, R, C, n)
  BY ValidLevels
<1>2. PICK m \in Nat : RootVertex[Depth] \in [0 .. m -> AllVertices(matrix_size)]
  <2>1. Depth \in 0 .. Len(c) /\ LevelSound(R[Depth], n)
    BY <1>1, DepthNat DEF Levels, ViewsSound
  <2>2. QED
    BY <1>1, <2>1 DEF Levels, LevelSound
<1>3. VerticesOf(Depth) = 0 .. m /\ Cardinality(VerticesOf(Depth)) = m + 1
  BY <1>2, LevelCount DEF VerticesOf
<1>4. QED
  BY <1>2, <1>3

LEMMA LevelNumbers ==
  ASSUME FieldsInv, phase = "done", valid, NEW m \in Nat,
         RootVertex[Depth] \in [0 .. m -> AllVertices(matrix_size)],
         NEW v \in 0 .. m
  PROVE  /\ get_x_coordinate(Depth, v) \in Nat
         /\ get_y_coordinate(Depth, v) \in Nat
         /\ get_demand(Depth, v) \in Nat
<1> DEFINE root == RootVertex[Depth]
<1>1. root[v] \in AllVertices(matrix_size)
  OBVIOUS
<1>2. Sized /\ Naturals(x_coordinates) /\ Naturals(y_coordinates) /\ Naturals(demands)
  BY DEF FieldsInv
<1> HIDE DEF root
<1>3. x_coordinates[root[v]] \in Nat /\ y_coordinates[root[v]] \in Nat /\ demands[root[v]] \in Nat
  BY <1>1, <1>2 DEF Sized, Naturals
<1>4. QED
  BY <1>3 DEF root, get_x_coordinate, get_y_coordinate, get_demand

\* serialize writes lines of numbers and words, and reads no vertex that is not there.
LEMMA WrittenType ==
  ASSUME FieldsInv, ChainInv, MatrixInv, ViewsInv, HasDepot, phase = "done", valid
  PROVE  WrittenLines(Depth) \in Seq(Seq(Tokens)) /\ ContentOf(Depth) \in
           [size : Nat, capacity : Nat, x : Seq(Nat), y : Seq(Nat), demand : Seq(Nat)]
<1>2. PICK m \in Nat : /\ RootVertex[Depth] \in [0 .. m -> AllVertices(matrix_size)]
                      /\ VerticesOf(Depth) = 0 .. m /\ Cardinality(VerticesOf(Depth)) = m + 1
  BY LevelVertices
<1>3. VerticesOf(Depth) = 0 .. m /\ Cardinality(VerticesOf(Depth)) = m + 1
  BY <1>2
<1>4. ASSUME NEW v \in 1 .. m + 1
      PROVE  /\ Printed(get_x_coordinate(Depth, v - 1)) \in Nat
             /\ Printed(get_y_coordinate(Depth, v - 1)) \in Nat
             /\ get_demand(Depth, v - 1) \in Nat
  <2>1. v - 1 \in 0 .. m
    BY <1>2
  <2>2. QED
    BY <1>2, <2>1, LevelNumbers, PrintedNumber
<1>5. capacity \in Nat /\ m + 1 \in Nat /\ \A v \in 1 .. m + 1 : v \in Nat /\ v \in Tokens
  BY <1>2 DEF FieldsInv, Tokens
<1> DEFINE X == [v \in 1 .. m + 1 |-> Printed(get_x_coordinate(Depth, v - 1))]
           Y == [v \in 1 .. m + 1 |-> Printed(get_y_coordinate(Depth, v - 1))]
           D == [v \in 1 .. m + 1 |-> get_demand(Depth, v - 1)]
<1>6. X \in Seq(Nat) /\ Y \in Seq(Nat) /\ D \in Seq(Nat)
  <2>1. X \in [1 .. m + 1 -> Nat] /\ Y \in [1 .. m + 1 -> Nat] /\ D \in [1 .. m + 1 -> Nat]
    BY <1>4
  <2> HIDE DEF X, Y, D
  <2>2. QED
    BY <1>5, <2>1, Listed
<1>7. ContentOf(Depth) = [size |-> m + 1, capacity |-> capacity, x |-> X, y |-> Y, demand |-> D]
  BY <1>3 DEF ContentOf
<1> DEFINE L == Seq(Tokens)
           Head5 == <<<<Word, Colon, Word>>, <<Word, Colon, Word>>, <<Word, Colon, Word>>,
                     <<Word, Colon, m + 1>>, <<Word, Colon, Word>>, <<Word, Colon, capacity>>, <<Word>>>>
           Coords == [v \in 1 .. m + 1 |-> <<v, Printed(get_x_coordinate(Depth, v - 1)), Printed(get_y_coordinate(Depth, v - 1))>>]
           Demands == [v \in 1 .. m + 1 |-> <<v, IF v = 1 THEN 0 ELSE get_demand(Depth, v - 1)>>]
           End == <<<<Word>>, <<1>>, <<Word>>, <<Word>>>>
<1>8. WrittenLines(Depth) = Head5 \o Coords \o <<<<Word>>>> \o Demands \o End
  BY <1>3 DEF WrittenLines
<1>9. Word \in Tokens /\ Colon \in Tokens /\ m + 1 \in Tokens /\ capacity \in Tokens /\ 1 \in Tokens
      /\ 0 \in Tokens /\ Nat \subseteq Tokens
  BY <1>5 DEF Tokens
<1>10. Coords \in Seq(L) /\ Demands \in Seq(L)
  <2>1. ASSUME NEW v \in 1 .. m + 1
        PROVE  /\ <<v, Printed(get_x_coordinate(Depth, v - 1)), Printed(get_y_coordinate(Depth, v - 1))>> \in L
               /\ <<v, IF v = 1 THEN 0 ELSE get_demand(Depth, v - 1)>> \in L
    <3> DEFINE d == IF v = 1 THEN 0 ELSE get_demand(Depth, v - 1)
               x == Printed(get_x_coordinate(Depth, v - 1))
               y == Printed(get_y_coordinate(Depth, v - 1))
    <3>1. v \in Tokens /\ x \in Tokens /\ y \in Tokens /\ d \in Tokens
      BY <1>4, <1>5, <1>9
    <3> HIDE DEF d, x, y
    <3>2. <<v, x, y>> \in L /\ <<v, d>> \in L
      BY <3>1, LineTypes
    <3>3. QED
      BY <3>2 DEF d, x, y
  <2> HIDE DEF L
  <2>2. Coords \in [1 .. m + 1 -> L] /\ Demands \in [1 .. m + 1 -> L]
    BY <2>1
  <2> HIDE DEF Coords, Demands
  <2>3. QED
    BY <1>5, <2>2, Listed
<1>11. /\ <<Word, Colon, Word>> \in L /\ <<Word, Colon, m + 1>> \in L
       /\ <<Word, Colon, capacity>> \in L /\ <<Word>> \in L /\ <<1>> \in L
  BY <1>9, LineTypes
<1>12. Head5 \in Seq(L) /\ <<<<Word>>>> \in Seq(L) /\ End \in Seq(L)
  <2> HIDE DEF L
  <2>1. ASSUME NEW a \in L, NEW b \in L, NEW e \in L, NEW f \in L, NEW g \in L
        PROVE  /\ <<a, a, a, b, a, e, f>> \in Seq(L) /\ <<f>> \in Seq(L) /\ <<f, g, f, f>> \in Seq(L)
    OBVIOUS
  <2>2. QED
    BY <1>11, <2>1
<1> HIDE DEF L, Head5, Coords, Demands, End
<1>13. WrittenLines(Depth) \in Seq(L)
  <2>1. \A s, t \in Seq(L) : s \o t \in Seq(L)
    OBVIOUS
  <2>2. Head5 \o Coords \in Seq(L)
    BY <1>10, <1>12, <2>1
  <2>3. Head5 \o Coords \o <<<<Word>>>> \in Seq(L)
    BY <1>12, <2>1, <2>2
  <2>4. Head5 \o Coords \o <<<<Word>>>> \o Demands \in Seq(L)
    BY <1>10, <2>1, <2>3
  <2>5. QED
    BY <1>8, <1>12, <2>1, <2>4
<1> HIDE DEF X, Y, D
<1>14. ContentOf(Depth) \in [size : Nat, capacity : Nat, x : Seq(Nat), y : Seq(Nat), demand : Seq(Nat)]
  BY <1>5, <1>6, <1>7
<1>15. QED
  BY <1>13, <1>14 DEF L

LEMMA SerializeSaves ==
  ASSUME FieldsInv, ChainInv, MatrixInv, ViewsInv, HasDepot, serialize
  PROVE  SavedInv'
<1>1. phase = "done" /\ valid
  BY DEF serialize, Usable
<1> DEFINE l == WrittenLines(Depth)
           t == ContentOf(Depth)
<1>2. saved' = [exists |-> TRUE, lines |-> l, newline |-> TRUE, intact |-> TRUE, content |-> t]
  BY DEF serialize
<1>3. l \in Seq(Seq(Tokens)) /\ t \in
           [size : Nat, capacity : Nat, x : Seq(Nat), y : Seq(Nat), demand : Seq(Nat)]
  BY <1>1, WrittenType
<1> HIDE DEF l, t
<1>4. saved' \in FileType
  BY <1>2, <1>3 DEF FileType
<1>5. QED
  BY <1>4 DEF SavedInv

LEMMA SavedKept == SavedInv /\ UNCHANGED saved => SavedInv'
BY DEF SavedInv

-----------------------------------------------------------------------------

LEMMA CallsStep == SubInv /\ [Step]_vars => CallsInv'
<1> SUFFICES ASSUME SubInv, [Step]_vars PROVE CallsInv'
  OBVIOUS
<1>1. PICK V : chain \in Seq(V)
  BY DEF SubInv, ChainInv
<1>2. calls \in Nat /\ calls <= MaxCalls /\ Len(chain) <= calls /\ Len(chain) \in Nat
  BY <1>1, LenProperties DEF SubInv, CallsInv
<1>3. CASE ConstructInstance \/ UNCHANGED vars
  BY <1>2, <1>3 DEF ConstructInstance, vars, subVars, CallsInv
<1>4. CASE SortSubNeighbors
  <2>1. PICK near : chain' = [chain EXCEPT ![Depth].neighbors = near]
    BY <1>4, Zenon DEF SortSubNeighbors
  <2>2. calls' = calls /\ Depth > 0
    BY <1>4, Zenon DEF SortSubNeighbors
  <2>3. Len(chain') = Len(chain)
    <3>1. Depth \in 1 .. Len(chain)
      BY <1>2, <2>2 DEF Depth
    <3> DEFINE view == [chain[Depth] EXCEPT !.neighbors = near]
    <3>2. chain' = [chain EXCEPT ![Depth] = view]
      BY <2>1
    <3> HIDE DEF view
    <3>3. chain \in Seq(V \cup {view}) /\ view \in V \cup {view}
      BY <1>1
    <3>4. QED
      BY <3>1, <3>2, <3>3, ExceptSeq
  <2>4. QED
    BY <1>2, <2>2, <2>3 DEF CallsInv
<1>5. CASE Decompose
  <2>1. PICK view : chain' = Append(chain, view)
    BY <1>5 DEF Decompose
  <2>2. calls' = calls + 1 /\ calls < MaxCalls
    BY <1>5 DEF Decompose
  <2>3. Len(chain') = Len(chain) + 1
    <3>1. chain \in Seq(V \cup {view}) /\ view \in V \cup {view}
      BY <1>1
    <3>2. QED
      BY <2>1, <3>1, AppendProperties
  <2>4. QED
    BY <1>2, <2>2, <2>3, MaxCallsAssumption DEF CallsInv
<1>6. CASE \E k \in 1 .. Depth : \E v \in VerticesOf(k - 1) : get_reverse_mapping(k, v)
  <2>0. PICK k \in 1 .. Depth : \E v : get_reverse_mapping(k, v)
    BY <1>6
  <2>1. PICK v : get_reverse_mapping(k, v)
    BY <2>0
  <2>2. PICK rev : chain' = [chain EXCEPT ![k].reverse = rev]
    BY <2>1 DEF get_reverse_mapping, ReverseMappingRead
  <2>3. calls' = calls
    BY <2>1 DEF get_reverse_mapping
  <2>4. Len(chain') = Len(chain)
    <3> DEFINE view == [chain[k] EXCEPT !.reverse = rev]
    <3>1. k \in 1 .. Len(chain)
      BY DEF Depth
    <3>2. chain' = [chain EXCEPT ![k] = view]
      BY <2>2
    <3> HIDE DEF view
    <3>3. chain \in Seq(V \cup {view}) /\ view \in V \cup {view}
      BY <1>1
    <3>4. QED
      BY <3>1, <3>2, <3>3, ExceptSeq
  <2>5. QED
    BY <1>2, <2>3, <2>4 DEF CallsInv
<1>7. CASE serialize
  <2>1. calls' = calls + 1 /\ calls < MaxCalls /\ chain' = chain
    BY <1>7 DEF serialize
  <2>2. QED
    BY <1>2, <2>1, MaxCallsAssumption DEF CallsInv
<1>8. CASE Reopen
  <2>1. calls' = calls /\ chain' = <<>>
    BY <1>8 DEF Reopen
  <2>2. QED
    BY <1>2, <2>1 DEF CallsInv
<1>9. QED
  BY <1>3, <1>4, <1>5, <1>6, <1>7, <1>8 DEF Step

LEMMA ConstructStep == SubInv /\ ConstructInstance => SubInv'
<1> SUFFICES ASSUME SubInv, ConstructInstance PROVE SubInv'
  OBVIOUS
<1>1. FieldsInv /\ ChainInv /\ MatrixInv /\ ViewsInv /\ SavedInv /\ Construct /\ UNCHANGED subVars
  BY DEF SubInv, ConstructInstance
<1>2. FieldsInv'
  BY <1>1, ConstructFields
<1>3. MatrixInv' /\ ViewsInv'
  BY <1>1, <1>2, ParsingKeeps, FillKeeps, SortKeeps, CheckKeeps DEF Construct
<1>4. ChainInv'
  BY <1>1, SameChain DEF subVars
<1>5. SavedInv'
  BY <1>1, SavedKept DEF subVars
<1>6. CallsInv'
  BY CallsStep DEF Step
<1>7. QED
  BY <1>2, <1>3, <1>4, <1>5, <1>6 DEF SubInv

\* A call on a valid instance leaves the instance alone.
LEMMA InstanceUntouched ==
  ASSUME FieldsInv, MatrixInv, UNCHANGED instanceVars
  PROVE  FieldsInv' /\ MatrixInv'
<1>1. FieldsInv'
  BY SameFields DEF instanceVars
<1>2. MatrixInv'
  BY MatrixKept DEF instanceVars
<1>3. QED
  BY <1>1, <1>2

LEMMA ReopenStep == SubInv /\ Reopen => FieldsInv' /\ MatrixInv' /\ ViewsInv' /\ SavedInv'
<1> SUFFICES ASSUME SubInv, Reopen PROVE FieldsInv' /\ MatrixInv' /\ ViewsInv' /\ SavedInv'
  OBVIOUS
<1>1. saved \in FileType /\ Opened(saved) /\ chain' = <<>> /\ saved' = Nothing
  BY DEF SubInv, SavedInv, Reopen
<1>2. FieldsInv'
  BY <1>1, OpenedFields
<1>3. neighbors' = <<>> /\ phase' = "parse"
  BY <1>1 DEF Opened
<1>4. MatrixInv' /\ ViewsInv'
  BY <1>1, <1>2, <1>3, NothingYet
<1>5. SavedInv'
  BY <1>1 DEF SavedInv, Nothing
<1>6. QED
  BY <1>2, <1>4, <1>5

LEMMA SubStep == SubInv /\ HasDepot /\ [Step]_vars => SubInv'
<1> SUFFICES ASSUME SubInv, HasDepot, [Step]_vars PROVE SubInv'
  OBVIOUS
<1>1. FieldsInv /\ ChainInv /\ MatrixInv /\ ViewsInv /\ SavedInv
  BY DEF SubInv
<1>2. ChainInv' /\ CallsInv'
  BY <1>1, ChainStep, CallsStep
<1>3. CASE ConstructInstance
  BY <1>3, ConstructStep
<1>4. CASE SortSubNeighbors
  <2>1. UNCHANGED instanceVars /\ UNCHANGED saved
    BY <1>4 DEF SortSubNeighbors
  <2>2. QED
    BY <1>1, <1>2, <1>4, <2>1, InstanceUntouched, SortSubKeeps, SavedKept DEF SubInv
<1>5. CASE Decompose
  <2>1. UNCHANGED instanceVars /\ UNCHANGED saved
    BY <1>5 DEF Decompose
  <2>2. QED
    BY <1>1, <1>2, <1>5, <2>1, InstanceUntouched, DecomposeKeeps, SavedKept DEF SubInv
<1>6. CASE \E k \in 1 .. Depth : \E v \in VerticesOf(k - 1) : get_reverse_mapping(k, v)
  <2>0. PICK k \in 1 .. Depth : \E v : get_reverse_mapping(k, v)
    BY <1>6
  <2>1. PICK v : get_reverse_mapping(k, v)
    BY <2>0
  <2>2. UNCHANGED instanceVars /\ UNCHANGED saved
    BY <2>1 DEF get_reverse_mapping
  <2>3. ViewsInv'
    BY <1>1, <2>1, AskKeeps
  <2>4. QED
    BY <1>1, <1>2, <2>2, <2>3, InstanceUntouched, SavedKept DEF SubInv
<1>7. CASE serialize
  <2>1. UNCHANGED instanceVars /\ UNCHANGED chain
    BY <1>7 DEF serialize
  <2>2. ViewsInv'
    BY <1>1, <2>1, ViewsKept DEF instanceVars
  <2>3. QED
    BY <1>1, <1>2, <1>7, <2>1, <2>2, InstanceUntouched, SerializeSaves DEF SubInv
<1>8. CASE Reopen
  BY <1>2, <1>8, ReopenStep DEF SubInv
<1>9. CASE UNCHANGED vars
  <2>1. UNCHANGED instanceVars /\ UNCHANGED chain /\ UNCHANGED saved
    BY <1>9 DEF vars, subVars
  <2>2. ViewsInv'
    BY <1>1, <2>1, ViewsKept DEF instanceVars
  <2>3. QED
    BY <1>1, <1>2, <2>1, <2>2, InstanceUntouched, SavedKept DEF SubInv
<1>10. QED
  BY <1>3, <1>4, <1>5, <1>6, <1>7, <1>8, <1>9 DEF Step

LEMMA SubStart == SubInit => SubInv
<1> SUFFICES ASSUME SubInit PROVE SubInv
  OBVIOUS
<1>1. FieldsInv
  BY InitFields DEF SubInit
<1>2. /\ chain = <<>> /\ neighbors = <<>> /\ phase = "parse" /\ ~valid /\ matrix_size = 0
      /\ calls = 0 /\ saved = Nothing
  BY DEF SubInit, Init
<1>3. <<>> \in Seq({}) /\ Len(<<>>) = 0
  OBVIOUS
<1>4. MatrixInv
  <2>1. PICK n \in Nat : n = matrix_size
    BY <1>2
  <2>2. (\E S : <<>> \in Seq(S)) /\ Len(<<>>) <= n
    BY <1>3, <2>1
  <2>3. QED
    BY <1>2, <2>1, <2>2 DEF MatrixInv
<1>5. ViewsInv
  BY <1>2 DEF ViewsInv
<1>6. ChainInv
  <2>1. \E V : chain \in Seq(V)
    BY <1>2, <1>3
  <2>2. \A k \in 1 .. Len(chain) : IsView(chain[k]) /\ InverseSound(chain[k])
    BY <1>2, <1>3
  <2>3. QED
    BY <2>1, <2>2 DEF ChainInv
<1>7. CallsInv /\ SavedInv
  BY <1>2, <1>3, MaxCallsAssumption DEF CallsInv, SavedInv, Nothing
<1>8. QED
  BY <1>1, <1>4, <1>5, <1>6, <1>7 DEF SubInv

-----------------------------------------------------------------------------

LEMMA InvTypes == SubInv => TypeOK
<1> SUFFICES ASSUME SubInv PROVE TypeOK
  OBVIOUS
<1>1. \A f \in {x_coordinates, y_coordinates, demands} : \A v \in DOMAIN f : f[v] \in Nat
  BY DEF SubInv, FieldsInv, Naturals
<1>2. Len(neighbors) <= matrix_size
  BY DEF SubInv, MatrixInv
<1>3. Depth > 0 => phase = "done" /\ valid
  BY DEF SubInv, ViewsInv, Depth
<1>4. Depth <= calls /\ calls <= MaxCalls
  BY DEF SubInv, CallsInv, Depth
<1>5. QED
  BY <1>1, <1>2, <1>3, <1>4 DEF TypeOK, SubInv, FieldsInv

\* Constructed or not: a list is sound as soon as it is there.
LEMMA InvSound == SubInv /\ HasDepot => InstanceSound
<1> SUFFICES ASSUME SubInv, HasDepot, phase = "done", valid,
                    NEW k \in 0 .. Depth, Constructed(k)
             PROVE  SoundLevel(k)
  BY DEF InstanceSound
<1>0. FieldsInv /\ ChainInv /\ MatrixInv /\ ViewsInv
  BY DEF SubInv
<1>1. PICK c, R, C, n : Levels(c, R, C, n)
  BY <1>0, ValidLevels
<1> DEFINE root == R[k]
           lists == NeighborsOf(k)
<1>2. k \in 0 .. Len(c) /\ RootVertex[k] = root
  BY <1>0, <1>1, DepthNat DEF Levels
<1>3. LevelSound(root, n)
  BY <1>1, <1>2 DEF Levels, ViewsSound
<1>4. ListsSound(lists, C, n, root)
  <2>1. CASE k = 0
    <3>1. lists = neighbors
      BY <2>1 DEF NeighborsOf
    <3>2. root = Identity(n)
      <4>1. RootsUpTo(R, c, Len(c), n) /\ Len(c) \in Nat
        BY <1>0, <1>1, DepthNat DEF Levels, ViewsSound
      <4>2. QED
        BY <2>1, <4>1, RootsCells DEF RootsByLevel
    <3>3. ListsSound(neighbors, C, n, Identity(n))
      BY <1>0, <1>1 DEF MatrixInv, Levels
    <3>4. QED
      BY <3>1, <3>2, <3>3
  <2>2. CASE k # 0
    <3>1. lists = c[k].neighbors /\ k \in 1 .. Len(c)
      BY <1>1, <1>2, <2>2 DEF NeighborsOf, Levels
    <3>2. QED
      BY <1>1, <3>1 DEF Levels, ViewsSound
  <2>3. QED
    BY <2>1, <2>2
<1>5. PICK m \in Nat : /\ root \in [0 .. m -> AllVertices(n)] /\ root[0] = 0
                       /\ \A v \in 1 .. m : root[v] # 0
  BY <1>3 DEF LevelSound
<1>6. Cardinality(DOMAIN root) = m + 1 /\ DOMAIN root = 0 .. m /\ AllVertices(m + 1) = 0 .. m
  BY <1>5, LevelCount
<1>7. VerticesOf(k) = 0 .. m /\ Len(lists) = m + 1
  BY <1>2, <1>6 DEF VerticesOf, Constructed
<1> DEFINE cost == CostsOf(k)
<1>8. /\ cost = [i \in 0 .. m |-> [j \in 0 .. m |-> CellCost(C, n, root[i], root[j])]]
  BY <1>1, <1>2, <1>6 DEF CostsOf, RootCost, Address, CellCost, Levels
<1> HIDE DEF root, lists, cost
<1>9. ASSUME NEW v \in 0 .. m, NEW w \in 0 .. m
      PROVE  cost[v][w] = CellCost(C, n, root[v], root[w])
  BY <1>8
<1>10. ASSUME NEW v \in 0 .. m, NEW w \in 0 .. m
       PROVE  cost[v][w] = cost[w][v] /\ cost[v][v] = 0
  <2>1. root[v] \in AllVertices(n) /\ root[w] \in AllVertices(n)
    BY <1>5
  <2>2. CellCost(C, n, root[v], root[w]) = CellCost(C, n, root[w], root[v]) /\ CellCost(C, n, root[v], root[v]) = 0
    BY <1>1, <2>1 DEF Levels, CostsSound
  <2>3. QED
    BY <1>9, <2>2
<1>11. ASSUME NEW v \in (0 .. m) \ {0} PROVE get_demand(k, v) > 0
  <2>1. root[v] \in 1 .. n - 1
    <3>1. v \in 1 .. m
      OBVIOUS
    <3>2. root[v] \in AllVertices(n) /\ root[v] # 0
      BY <1>5, <3>1
    <3>3. QED
      BY <1>1, <3>2 DEF Levels, AllVertices
  <2>2. demands[root[v]] # 0
    BY <1>0, <1>1, <2>1 DEF MatrixInv, Levels
  <2>3. demands[root[v]] \in Nat
    <3>1. root[v] \in AllVertices(matrix_size)
      BY <1>1, <2>1 DEF Levels, AllVertices
    <3>2. QED
      BY <1>0, <3>1 DEF FieldsInv, Sized, Naturals
  <2>4. get_demand(k, v) = demands[root[v]]
    BY <1>2 DEF get_demand, root
  <2>5. QED
    BY <2>2, <2>3, <2>4
<1>12. ASSUME NEW v \in 0 .. m
       PROVE  /\ lists[v + 1][1] = v
              /\ \A w \in 0 .. m : \E i \in DOMAIN lists[v + 1] : lists[v + 1][i] = w
              /\ \A i \in 1 .. Len(lists[v + 1]) - 1 :
                   cost[v][lists[v + 1][i]] <= cost[v][lists[v + 1][i + 1]]
  <2> DEFINE near == lists[v + 1]
  <2>1. v + 1 \in 1 .. Len(lists) /\ (v + 1) - 1 = v
    BY <1>7
  <2>2. NearSound(near, v, m + 1, CostsFrom(C, n, root, v))
    BY <1>4, <1>6, <2>1 DEF ListsSound
  <2> HIDE DEF near
  <2>3. /\ near \in [1 .. m + 1 -> 0 .. m] /\ near[1] = v
        /\ \A w \in 0 .. m : \E i \in 1 .. m + 1 : near[i] = w
        /\ \A i \in 1 .. (m + 1) - 1 : CostsFrom(C, n, root, v)[near[i]] <= CostsFrom(C, n, root, v)[near[i + 1]]
    BY <1>6, <2>2 DEF NearSound
  <2>4. DOMAIN near = 1 .. m + 1 /\ Len(near) = m + 1
    BY <2>3
  <2>5. CostsFrom(C, n, root, v) = cost[v]
    BY <1>6, <1>8 DEF CostsFrom
  <2>6. QED
    BY <2>3, <2>4, <2>5 DEF near
<1>13. QED
  BY <1>7, <1>10, <1>11, <1>12 DEF SoundLevel, cost, lists

\* Whatever the file, however many parsers have failed over the same fields, and however
\* often a view was written and read again: every coordinate and demand is a number that
\* some line gave or the zero of a resize, and no list or chain outgrows its bound
\* (Instance_parsers.cpp; AbstractInstance.cpp:22-45).
THEOREM TypeCorrect == Spec /\ []HasDepot => []TypeOK
BY SubStart, SubStep, InvTypes, PTL DEF Spec

\* What the solution code takes for granted of an instance holds of every one that calls
\* itself valid and of every view over it: positive demands, symmetric costs with a zero
\* diagonal, complete lists of neighbours in order (Instance.cpp:35-87, SubInstance.hpp:51-77).
THEOREM SoundCorrect == Spec /\ []HasDepot => []InstanceSound
BY SubStart, SubStep, InvSound, PTL DEF Spec
=============================================================================
