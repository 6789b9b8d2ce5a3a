----------------------------- MODULE RawMemory ------------------------------
(***************************************************************************)
(* mm::request_raw_contiguous_memory(rows, columns): a matrix in one       *)
(* block, row pointers first, data after them (raw-mm/src/mm.hpp:14-53).   *)
(* Addresses are byte offsets in the block.                                *)
(***************************************************************************)
EXTENDS Integers

CONSTANTS
  PointerBytes,   \* sizeof(T *)
  ElementBytes    \* sizeof(T)

ASSUME BytesAssumption == PointerBytes \in Nat \ {0} /\ ElementBytes \in Nat \ {0}

BlockSize(rows, columns) == columns * rows * ElementBytes + rows * PointerBytes

\* &matrix[rows]
BaseAddress(rows) == rows * PointerBytes

\* Mutant: consecutive rows share a cell.
OverlappingRowPointer(rows, columns, i) ==
  BaseAddress(rows) + i * (columns - 1) * ElementBytes

\* matrix[i]
RowPointer(rows, columns, i) == BaseAddress(rows) + i * columns * ElementBytes

\* &matrix[i][j]
CellAddress(rows, columns, i, j) == RowPointer(rows, columns, i) + j * ElementBytes

DataAddresses(rows, columns) ==
  {BaseAddress(rows) + k * ElementBytes : k \in 0 .. rows * columns - 1}

\* memset(matrix, 0, size), as far as the data goes.
ZeroedData(rows, columns) == [a \in DataAddresses(rows, columns) |-> 0]
=============================================================================
