------------------------------ MODULE Instance ------------------------------
(***************************************************************************)
(* vrp-instance/src/Instance.cpp and Instance_parsers.cpp: the constructor *)
(* of an instance.  Three parsers are tried on the file, one after the     *)
(* other, on the same fields; a parser that throws leaves what it has set. *)
(* Then the cost matrix and the neighbour lists are built.                 *)
(*                                                                         *)
(* A line of a file is a sequence of tokens: numbers, and two marks for a  *)
(* colon and for anything else that stoi and stof refuse.  One step of a   *)
(* parser is one getline with the conversions that follow it.              *)
(***************************************************************************)
EXTENDS Integers, Sequences, FiniteSets, RawMemory

CONSTANT Files   \* what may be opened: see FileType

Word == -1
Colon == -2
Tokens == Nat \cup {Word, Colon}

\* lines and newline (does the last line end in one?) are the file.  content is what
\* its author meant and intact whether it is written in one of the formats without
\* an error: the code knows neither.
FileType ==
  [exists : BOOLEAN, lines : Seq(Seq(Tokens)), newline : BOOLEAN, intact : BOOLEAN,
   content : [size : Nat, capacity : Nat,
              x : Seq(Nat), y : Seq(Nat), demand : Seq(Nat)]]

ASSUME FilesAssumption == Files \subseteq FileType

VARIABLES
  file,                 \* the file that the constructor reads
  phase,                \* of the constructor: parse, matrix, sort, done
  parser,               \* the parser that runs
  pc,                   \* which of its getlines comes next
  cursor, line,         \* its stream and what is left of the line
  valid, matrix_size, capacity, x_coordinates, y_coordinates, demands,
  costs_matrix, neighbors

parseVars == <<parser, pc, cursor, line>>
fieldVars == <<matrix_size, capacity, x_coordinates, y_coordinates, demands>>
instanceVars == <<file, phase, parseVars, valid, fieldVars, costs_matrix, neighbors>>

-----------------------------------------------------------------------------
(* The programs of the parsers: what the k-th getline is for.              *)

\* A number to be converted: the field it goes to, and the index there.
To(field, at) == [field |-> field, at |-> at]

Index == To("none", 0)     \* converted and dropped

\* targets, from left to right; keyed: after a `KEY :'.
Reads(targets) == [keyed |-> FALSE, targets |-> targets]
Keyed(field) == [keyed |-> TRUE, targets |-> <<To(field, 0)>>]

Coordinates(n) == Reads(<<Index, To("x", n), To("y", n)>>)
DemandOf(n) == Reads(<<Index, To("demand", n)>>)
Skip == Reads(<<>>)

\* A third number of the first line, the optional limit, is not kept.
ZkLine(k) ==
  IF k = 1 THEN Reads(<<To("customers", 0), To("capacity", 0)>>)
  ELSE Reads(<<Index, To("x", k - 2), To("y", k - 2), To("demand", k - 2)>>)

ZkLength == matrix_size + 1

\* Mutant: the coordinates go to the vertex before.
GoldenLineOneOff(k) ==
  CASE k = 4 -> Keyed("size")
    [] k = 5 -> Keyed("capacity")
    [] k \in 11 .. 9 + matrix_size -> Coordinates(k - 11)
    [] k \in 11 + matrix_size .. 9 + 2 * matrix_size -> DemandOf(k - 10 - matrix_size)
    [] k = 11 + 2 * matrix_size -> Reads(<<To("x", 0), To("y", 0)>>)
    [] OTHER -> Skip

\* The depot has no line among the coordinates and demands, but one at the end.
GoldenLine(k) ==
  CASE k = 4 -> Keyed("size")
    [] k = 5 -> Keyed("capacity")
    [] k \in 11 .. 9 + matrix_size -> Coordinates(k - 10)
    [] k \in 11 + matrix_size .. 9 + 2 * matrix_size -> DemandOf(k - 10 - matrix_size)
    [] k = 11 + 2 * matrix_size -> Reads(<<To("x", 0), To("y", 0)>>)
    [] OTHER -> Skip

GoldenLength == 11 + 2 * matrix_size

XLine(k) ==
  CASE k = 4 -> Keyed("size")
    [] k = 6 -> Keyed("capacity")
    [] k \in 8 .. 7 + matrix_size -> Coordinates(k - 8)
    [] k \in 9 + matrix_size .. 8 + 2 * matrix_size -> DemandOf(k - 9 - matrix_size)
    [] OTHER -> Skip

XLength == 8 + 2 * matrix_size

Instruction ==
  CASE parser = "zk" -> ZkLine(pc) [] parser = "golden" -> GoldenLine(pc) [] parser = "x" -> XLine(pc)

ProgramLength ==
  CASE parser = "zk" -> ZkLength [] parser = "golden" -> GoldenLength [] parser = "x" -> XLength

-----------------------------------------------------------------------------
(* Lines and conversions.                                                  *)

\* getline at the end of the stream: it erases the string if the last line was
\* terminated, and leaves what was in it if it was not.
GetLine ==
  IF cursor <= Len(file.lines) THEN file.lines[cursor]
  ELSE IF file.newline THEN <<>> ELSE line

\* getline(ss, line, ':') and getline(ss, line): without a colon the second one
\* fails and leaves the whole line.
AfterColon(l) ==
  IF \E i \in DOMAIN l : l[i] = Colon
  THEN LET first == CHOOSE i \in DOMAIN l : l[i] = Colon /\ \A j \in 1 .. i - 1 : l[j] # Colon
       IN  SubSeq(l, first + 1, Len(l))
  ELSE l

\* Mutant: atoi, which refuses nothing.
AllTokens(l) == Len(l)

\* How many conversions succeed before one throws.
Numbers(l) ==
  CHOOSE n \in 0 .. Len(l) :
    /\ \A i \in 1 .. n : l[i] \in Nat
    /\ n = Len(l) \/ l[n + 1] \notin Nat

Resized(f, n) == [v \in 0 .. n - 1 |-> IF v \in DOMAIN f THEN f[v] ELSE 0]

-----------------------------------------------------------------------------
(* Parsing.                                                                *)

\* A constructor call: fresh fields, the first parser at the start of the file.
Opened(f) ==
  /\ file' = f
  /\ phase' = "parse"
  /\ parser' = "zk" /\ pc' = 1 /\ cursor' = 1 /\ line' = <<>>
  /\ valid' = FALSE
  /\ matrix_size' = 0 /\ capacity' = 0
  /\ x_coordinates' = <<>> /\ y_coordinates' = <<>> /\ demands' = <<>>
  /\ costs_matrix' = <<>> /\ neighbors' = <<>>

Init ==
  /\ file \in Files
  /\ phase = "parse"
  /\ parser = "zk" /\ pc = 1 /\ cursor = 1 /\ line = <<>>
  /\ valid = FALSE
  /\ matrix_size = 0 /\ capacity = 0
  /\ x_coordinates = <<>> /\ y_coordinates = <<>> /\ demands = <<>>
  /\ costs_matrix = <<>> /\ neighbors = <<>>

\* Mutant: after the last parser the first one is tried again.
NextParserRepeating ==
  /\ pc' = 1 /\ cursor' = 1 /\ line' = <<>>
  /\ parser' = CASE parser = "zk" -> "golden" [] parser = "golden" -> "x" [] parser = "x" -> "zk"
  /\ UNCHANGED phase

\* The exception of a parser: the next one is tried, the fields stay as they are.
NextParser ==
  \/ /\ parser # "x"
     /\ parser' = IF parser = "zk" THEN "golden" ELSE "x"
     /\ pc' = 1 /\ cursor' = 1 /\ line' = <<>>
     /\ UNCHANGED phase
  \/ /\ parser = "x"
     /\ phase' = "done"
     /\ UNCHANGED parseVars

OpenFails ==
  /\ phase = "parse"
  /\ ~file.exists
  /\ NextParser
  /\ UNCHANGED <<file, valid, fieldVars, costs_matrix, neighbors>>

(* One getline and its conversions, from left to right until one throws.   *)
(* The vectors are resized once the capacity is known.                     *)
ReadLine ==
  /\ phase = "parse"
  /\ file.exists
  /\ pc <= ProgramLength
  /\ LET targets == Instruction.targets
         l == IF Instruction.keyed THEN AfterColon(GetLine) ELSE GetLine
         converted == IF Numbers(l) < Len(targets) THEN Numbers(l) ELSE Len(targets)
         Value(field, at, old) ==
           IF \E i \in 1 .. converted : targets[i] = To(field, at)
           THEN l[CHOOSE i \in 1 .. converted : targets[i] = To(field, at)]
           ELSE old
         Written(f, field) == [v \in DOMAIN f |-> Value(field, v, f[v])]
         allocate == \E i \in 1 .. converted : targets[i].field = "capacity"
         Sized(f) == IF allocate THEN Resized(f, matrix_size') ELSE f
     IN
     /\ matrix_size' = Value("size", 0, Value("customers", 0, matrix_size - 1) + 1)
     /\ capacity' = Value("capacity", 0, capacity)
     /\ x_coordinates' = Sized(Written(x_coordinates, "x"))
     /\ y_coordinates' = Sized(Written(y_coordinates, "y"))
     /\ demands' = Sized(Written(demands, "demand"))
     /\ \/ /\ converted = Len(targets)
           /\ line' = SubSeq(l, converted + 1, Len(l))
           /\ cursor' = cursor + 1
           /\ pc' = pc + 1
           /\ UNCHANGED <<parser, phase>>
        \/ /\ converted < Len(targets)
           /\ NextParser
  /\ UNCHANGED <<file, valid, costs_matrix, neighbors>>

\* A parser returns true; the golden one clears the demand of the depot first.
Parsed ==
  /\ phase = "parse"
  /\ file.exists
  /\ pc > ProgramLength
  /\ valid' = TRUE
  /\ demands' = IF parser = "golden" THEN [demands EXCEPT ![0] = 0] ELSE demands
  /\ phase' = "matrix"
  /\ UNCHANGED <<file, parseVars, matrix_size, capacity, x_coordinates, y_coordinates,
                 costs_matrix, neighbors>>

-----------------------------------------------------------------------------
(* initialize_data_structures                                              *)

AllVertices(n) == 0 .. n - 1

\* std::round of a square root; no root of an integer lies half-way between two.
RoundedRoot(s) ==
  CHOOSE d \in 0 .. s : (d = 0 \/ (2 * d - 1) * (2 * d - 1) <= 4 * s) /\ 4 * s < (2 * d + 1) * (2 * d + 1)

Distance(i, j) ==
  LET dx == x_coordinates[i] - x_coordinates[j]
      dy == y_coordinates[i] - y_coordinates[j]
  IN  RoundedRoot(dx * dx + dy * dy)

Address(i, j) == CellAddress(matrix_size, matrix_size, i, j)

(* The loops write both triangles and the diagonal but for its last cell,  *)
(* which keeps the zero of the allocation.                                 *)
FilledMatrix ==
  [a \in DataAddresses(matrix_size, matrix_size) |->
     LET here == {p \in AllVertices(matrix_size) \X AllVertices(matrix_size) :
                    p[1] # p[2] /\ Address(p[1], p[2]) = a}
     IN  IF here = {} THEN ZeroedData(matrix_size, matrix_size)[a]
         ELSE LET p == CHOOSE p \in here : TRUE IN Distance(p[1], p[2])]

FillMatrix ==
  /\ phase = "matrix"
  /\ costs_matrix' = FilledMatrix
  /\ phase' = "sort"
  /\ UNCHANGED <<file, parseVars, valid, fieldVars, neighbors>>

RootCost(i, j) == costs_matrix[Address(i, j)]

\* std::sort leaves vertices of equal cost in any order.
SortedOrders(n, costs) ==
  {p \in [1 .. n -> AllVertices(n)] :
     /\ \A v \in AllVertices(n) : \E k \in 1 .. n : p[k] = v
     /\ \A k \in 1 .. n - 1 : costs[p[k]] <= costs[p[k + 1]]}

\* The vertex itself is swapped to the front.
WithItselfFirst(p, i) ==
  LET n == CHOOSE k \in DOMAIN p : p[k] = i
  IN  [p EXCEPT ![1] = i, ![n] = p[1]]

SortNeighbors ==
  /\ phase = "sort"
  /\ Len(neighbors) < matrix_size
  /\ LET i == Len(neighbors) IN
     \E p \in SortedOrders(matrix_size, [j \in AllVertices(matrix_size) |-> RootCost(i, j)]) :
       neighbors' = Append(neighbors, WithItselfFirst(p, i))
  /\ UNCHANGED <<file, phase, parseVars, valid, fieldVars, costs_matrix>>

\* A customer without demand makes the instance invalid after all.
CheckDemands ==
  /\ phase = "sort"
  /\ Len(neighbors) = matrix_size
  /\ valid' = (\A c \in 1 .. matrix_size - 1 : demands[c] # 0)
  /\ phase' = "done"
  /\ UNCHANGED <<file, parseVars, fieldVars, costs_matrix, neighbors>>

Construct ==
  OpenFails \/ ReadLine \/ Parsed \/ FillMatrix \/ SortNeighbors \/ CheckDemands
=============================================================================
