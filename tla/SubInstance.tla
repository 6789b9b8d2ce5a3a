---------------------------- MODULE SubInstance -----------------------------
(***************************************************************************)
(* vrp-instance/src/SubInstance.hpp: views over an instance, or over       *)
(* another view, restricted to some customers; AbstractInstance.cpp: the   *)
(* file that any of them writes, which a new instance may read.            *)
(***************************************************************************)
EXTENDS Instance, Functions

CONSTANT MaxCalls   \* how many views and files are made (bound)

ASSUME MaxCallsAssumption == MaxCalls \in Nat

VARIABLES
  chain,   \* the views, each over the one before, the first over the instance
  saved,   \* the file that serialize wrote, if it has not been read yet
  calls    \* views and files made so far

subVars == <<chain, saved, calls>>
vars == <<instanceVars, subVars>>

Nothing == [exists |-> FALSE]

-----------------------------------------------------------------------------
(* Getters.  Level 0 is the instance, level k the k-th view.               *)

Depth == Len(chain)

\* mapping, from level to level down to the vertices of the instance
RootVertex ==
  LET f[k \in 0 .. Depth] ==
        IF k = 0 THEN [v \in AllVertices(matrix_size) |-> v]
        ELSE [v \in DOMAIN chain[k].mapping |-> f[k - 1][chain[k].mapping[v]]]
  IN f

VerticesOf(k) == DOMAIN RootVertex[k]
NeighborsOf(k) == IF k = 0 THEN neighbors ELSE chain[k].neighbors

\* get_cost
CostsOf(k) ==
  LET root == RootVertex[k]
  IN  [i \in DOMAIN root |-> [j \in DOMAIN root |-> RootCost(root[i], root[j])]]

get_demand(k, i) == demands[RootVertex[k][i]]
get_x_coordinate(k, i) == x_coordinates[RootVertex[k][i]]
get_y_coordinate(k, i) == y_coordinates[RootVertex[k][i]]

\* A new level takes its neighbours vertex by vertex, as the instance does.
Constructed(k) == Len(NeighborsOf(k)) = Cardinality(VerticesOf(k))

\* The instance may be used: README.md:39.
Usable == phase = "done" /\ valid /\ Constructed(Depth)

ReverseOf(customers) ==
  [v \in Range(customers) \cup {0} |->
     IF v = 0 THEN 0 ELSE CHOOSE i \in DOMAIN customers : customers[i] = v]

MappingOf(customers) ==
  [i \in 0 .. Len(customers) |-> IF i = 0 THEN 0 ELSE customers[i]]

\* Lists of different customers of the level below, without the depot.
Chunks(k) ==
  LET here == VerticesOf(k) \ {0} IN
  UNION {{c \in [1 .. n -> here] : IsInjective(c)} : n \in 0 .. Cardinality(here)}

\* SubInstance(instance, customers): the mapping and its inverse
Decompose ==
  /\ Usable
  /\ calls < MaxCalls
  /\ calls' = calls + 1
  /\ \E customers \in Chunks(Depth) :
       chain' = Append(chain, [mapping |-> MappingOf(customers),
                               reverse |-> ReverseOf(customers),
                               neighbors |-> <<>>])
  /\ UNCHANGED <<instanceVars, saved>>

\* the same constructor: the neighbours of its next vertex
SortSubNeighbors ==
  /\ phase = "done"
  /\ Depth > 0 /\ ~Constructed(Depth)
  /\ LET i == Len(chain[Depth].neighbors)
         get_cost == CostsOf(Depth)
         n == Cardinality(VerticesOf(Depth))
     IN  \E p \in SortedOrders(n, get_cost[i]) :
           chain' = [chain EXCEPT ![Depth].neighbors = Append(@, WithItselfFirst(p, i))]
  /\ UNCHANGED <<instanceVars, saved, calls>>

\* Mutant: a vertex outside the chunk is appended to it.
GrowingReverseMapping(k, v) ==
  chain' = [chain EXCEPT ![k].reverse =
              IF v \in DOMAIN @ THEN @
              ELSE [u \in DOMAIN @ \cup {v} |-> IF u = v THEN Cardinality(DOMAIN @) ELSE @[u]]]

\* operator[] of a map inserts what it does not find, with the value 0
ReverseMappingRead(k, v) ==
  chain' = [chain EXCEPT ![k].reverse =
              [u \in DOMAIN @ \cup {v} |-> IF u \in DOMAIN @ THEN @[u] ELSE 0]]

get_reverse_mapping(k, v) ==
  /\ Usable
  /\ ReverseMappingRead(k, v)
  /\ UNCHANGED <<instanceVars, saved, calls>>

\* A stream writes six significant digits of a float, the last one rounded, an exact
\* half to the even digit.  A float holds the integers up to 2^24, of eight digits.
LastPlace(n) == IF n < 1000000 THEN 1 ELSE IF n < 10000000 THEN 10 ELSE 100

Printed(n) ==
  LET place == LastPlace(n)
      digits == n \div place
      rest == 2 * (n % place)
      up == rest > place \/ (rest = place /\ digits % 2 = 1)
  IN  place * (digits + IF up THEN 1 ELSE 0)

\* Mutant: the demands start with the first customer.
WrittenLinesWithoutDepot(k) ==
  LET n == Cardinality(VerticesOf(k)) IN
  <<<<Word, Colon, Word>>, <<Word, Colon, Word>>, <<Word, Colon, Word>>,
    <<Word, Colon, n>>, <<Word, Colon, Word>>, <<Word, Colon, capacity>>, <<Word>>>>
  \o [v \in 1 .. n |-> <<v, Printed(get_x_coordinate(k, v - 1)), Printed(get_y_coordinate(k, v - 1))>>]
  \o <<<<Word>>>>
  \o [v \in 1 .. n - 1 |-> <<v + 1, get_demand(k, v)>>]
  \o <<<<Word>>, <<1>>, <<Word>>, <<Word>>>>

\* serialize_TSPLIB, token by token: the depot is written with demand 0
WrittenLines(k) ==
  LET n == Cardinality(VerticesOf(k)) IN
  <<<<Word, Colon, Word>>, <<Word, Colon, Word>>, <<Word, Colon, Word>>,
    <<Word, Colon, n>>, <<Word, Colon, Word>>, <<Word, Colon, capacity>>, <<Word>>>>
  \o [v \in 1 .. n |-> <<v, Printed(get_x_coordinate(k, v - 1)), Printed(get_y_coordinate(k, v - 1))>>]
  \o <<<<Word>>>>
  \o [v \in 1 .. n |-> <<v, IF v = 1 THEN 0 ELSE get_demand(k, v - 1)>>]
  \o <<<<Word>>, <<1>>, <<Word>>, <<Word>>>>

\* What the view stands for, as far as it is printed: its coordinates to six digits.
ContentOf(k) ==
  LET n == Cardinality(VerticesOf(k)) IN
  [size |-> n, capacity |-> capacity,
   x |-> [v \in 1 .. n |-> Printed(get_x_coordinate(k, v - 1))],
   y |-> [v \in 1 .. n |-> Printed(get_y_coordinate(k, v - 1))],
   demand |-> [v \in 1 .. n |-> get_demand(k, v - 1)]]

serialize ==
  /\ Usable
  /\ calls < MaxCalls
  /\ calls' = calls + 1
  /\ saved' = [exists |-> TRUE, lines |-> WrittenLines(Depth), newline |-> TRUE,
               intact |-> TRUE, content |-> ContentOf(Depth)]
  /\ UNCHANGED <<instanceVars, chain>>

\* The file is read as any other.
Reopen ==
  /\ Usable
  /\ saved.exists
  /\ Opened(saved)
  /\ chain' = <<>>
  /\ saved' = Nothing
  /\ UNCHANGED calls

-----------------------------------------------------------------------------
SubInit == Init /\ chain = <<>> /\ saved = Nothing /\ calls = 0

ConstructInstance == Construct /\ UNCHANGED subVars

Step ==
  \/ ConstructInstance
  \/ SortSubNeighbors
  \/ Decompose
  \/ \E k \in 1 .. Depth : \E v \in VerticesOf(k - 1) : get_reverse_mapping(k, v)
  \/ serialize
  \/ Reopen

Spec == SubInit /\ [][Step]_vars

\* A constructor that runs is not abandoned: the calling thread executes it.
FairSpec == Spec /\ WF_vars(ConstructInstance) /\ WF_vars(SortSubNeighbors)

-----------------------------------------------------------------------------
(* Properties.                                                             *)

\* The types of the fields.
TypeOK ==
  /\ phase \in {"parse", "matrix", "sort", "done"}
  /\ parser \in {"zk", "golden", "x"} /\ pc \in Nat \ {0} /\ cursor \in Nat \ {0}
  /\ valid \in BOOLEAN
  /\ matrix_size \in Nat /\ capacity \in Nat
  /\ \A f \in {x_coordinates, y_coordinates, demands} : \A v \in DOMAIN f : f[v] \in Nat
  /\ Len(neighbors) <= matrix_size
  /\ Depth <= calls /\ calls <= MaxCalls
  /\ Depth > 0 => phase = "done" /\ valid

\* What the object holds is what the file says: a depot, customers, a capacity.
HoldsContent ==
  LET c == file.content IN
  /\ matrix_size = c.size
  /\ capacity = c.capacity
  /\ \A v \in AllVertices(c.size) :
       /\ x_coordinates[v] = c.x[v + 1]
       /\ y_coordinates[v] = c.y[v + 1]
       /\ v # 0 => demands[v] = c.demand[v + 1]

(* Whatever the three parsers made of the file, one after the other and    *)
(* over each other's leftovers, an instance that calls itself valid is the *)
(* one its author wrote: a damaged file never passes for another instance  *)
(* (Instance.cpp:13, README.md:31), and neither does a view written by     *)
(* serialize and read again, whose coordinates keep six digits             *)
(* (AbstractInstance.cpp:22-45).                                           *)
ReadAsWritten == phase = "done" /\ valid => HoldsContent

(* No parser takes a well-formed file of another format, nor spoils it for *)
(* the one that should: the file is refused only for a customer without    *)
(* demand (Instance.cpp:81-86).                                            *)
IntactAccepted ==
  phase = "done" /\ file.exists /\ file.intact =>
    (valid <=> \A c \in 2 .. file.content.size : file.content.demand[c] # 0)

(* What the solution code takes for granted of any instance it is given:   *)
(* positive demands, symmetric costs with a zero diagonal, neighbour lists *)
(* that hold every vertex once, itself first, then by ascending cost.      *)
(* (Instance.cpp:35-87, SubInstance.hpp:51-77)                             *)
SoundLevel(k) ==
  LET V == VerticesOf(k)
      get_cost == CostsOf(k)
  IN
  /\ \A v \in V \ {0} : get_demand(k, v) > 0
  /\ \A v, w \in V : get_cost[v][w] = get_cost[w][v]
  /\ \A v \in V : get_cost[v][v] = 0
  /\ \A v \in V :
       LET near == NeighborsOf(k)[v + 1] IN
       /\ near[1] = v
       /\ \A w \in V : \E n \in DOMAIN near : near[n] = w
       /\ \A n \in 1 .. Len(near) - 1 : get_cost[v][near[n]] <= get_cost[v][near[n + 1]]

InstanceSound ==
  phase = "done" /\ valid => \A k \in 0 .. Depth : Constructed(k) => SoundLevel(k)

(* However often the inverse has been asked, and for whatever vertex: it   *)
(* takes a vertex of the chunk back to its index, and answers the depot    *)
(* for any other (SubInstance.hpp:87-89, which inserts what it misses).    *)
ReverseInverse ==
  \A k \in 1 .. Depth :
    LET view == chain[k] IN
    /\ \A i \in DOMAIN view.mapping : view.reverse[view.mapping[i]] = i
    /\ \A v \in DOMAIN view.reverse \ Range(view.mapping) : view.reverse[v] = 0

(* The constructor of an instance returns, whatever the file: no parser    *)
(* waits for a line that does not come, and none is tried twice.           *)
ConstructorReturns == phase = "parse" ~> phase = "done"
=============================================================================
