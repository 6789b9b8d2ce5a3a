---------------------------- MODULE InstanceFiles ----------------------------
(***************************************************************************)
(* Files for the parsers of Instance_parsers.cpp: what each of the three   *)
(* formats demands, line by line, and what may have happened to a file.    *)
(***************************************************************************)
EXTENDS Instance, SequencesExt

-----------------------------------------------------------------------------
(* Lines.                                                                  *)

\* The line starts with n numbers.
Gives(l, n) == Len(l) >= n /\ \A i \in 1 .. n : l[i] \in Nat

NoNumber(l) == \A i \in DOMAIN l : l[i] \notin Nat

\* `KEY : n', and whatever follows
Says(l, n) == Gives(AfterColon(l), 1) /\ AfterColon(l)[1] = n

PlaceLine(l, c, v) == Gives(l, 3) /\ l[2] = c.x[v] /\ l[3] = c.y[v]

\* Nobody looks at the demand of the depot.
DemandLine(l, c, v) == Gives(l, 2) /\ (v # 1 => l[2] = c.demand[v])

ZkCustomerLine(l, c, v) == Gives(l, 4) /\ PlaceLine(l, c, v) /\ (v # 1 => l[4] = c.demand[v])

-----------------------------------------------------------------------------
(* The formats: files in which each parser finds the content c.  Any index,*)
(* header or further line will do that none of the parsers before it takes *)
(* for its own.                                                            *)

ZkText(lines, c) ==
  /\ c.size > 0 /\ Len(lines) >= c.size + 1
  /\ Gives(lines[1], 2) /\ lines[1][1] = c.size - 1 /\ lines[1][2] = c.capacity
  /\ \A v \in 1 .. c.size : ZkCustomerLine(lines[1 + v], c, v)

GoldenText(lines, c) ==
  /\ c.size > 0 /\ Len(lines) >= 11 + 2 * c.size
  /\ ~Gives(lines[1], 2)
  /\ Says(lines[4], c.size) /\ Says(lines[5], c.capacity)
  /\ \A v \in 2 .. c.size : PlaceLine(lines[9 + v], c, v)
  /\ \A v \in 2 .. c.size : DemandLine(lines[9 + c.size + v], c, v)
  /\ LET depot == lines[11 + 2 * c.size]
     IN  Gives(depot, 2) /\ depot[1] = c.x[1] /\ depot[2] = c.y[1]

XText(lines, c) ==
  /\ c.size > 0 /\ Len(lines) >= 8 + 2 * c.size
  /\ ~Gives(lines[1], 2)
  /\ Says(lines[4], c.size) /\ Says(lines[6], c.capacity)
  /\ ~Gives(AfterColon(lines[5]), 1)
  /\ \A v \in 1 .. c.size : PlaceLine(lines[7 + v], c, v)
  /\ \A v \in 1 .. c.size : DemandLine(lines[8 + c.size + v], c, v)

Text(lines, c) == ZkText(lines, c) \/ GoldenText(lines, c) \/ XText(lines, c)

-----------------------------------------------------------------------------
(* What may have happened to a file: one token is no number any more, one  *)
(* token or line is missing, or the file ends too early.  Where a line     *)
(* starts with a number from the first one on, the first line is not the   *)
(* one that is missing: the others are a file of the first format again.   *)

Places(lines) == UNION {{i} \X DOMAIN lines[i] : i \in DOMAIN lines}

Damages(lines) ==
  {[lines EXCEPT ![p[1]] = [@ EXCEPT ![p[2]] = Word]] : p \in Places(lines)}
  \cup {[lines EXCEPT ![p[1]] = RemoveAt(@, p[2])] : p \in Places(lines)}
  \cup {RemoveAt(lines, i) : i \in {i \in DOMAIN lines : i > 1 \/ NoNumber(lines[1])}}
  \cup {SubSeq(lines, 1, n) : n \in 0 .. Len(lines) - 1}

(* Files on which such a damage shows: nothing but the format's numbers    *)
(* on the lines that are read, none on the others.  Of the first format    *)
(* only files of up to four vertices are safe: the numbers of a longer one *)
(* may pass for one of the other two formats, which look at no keyword     *)
(* (Instance_parsers.cpp:33-36).                                           *)

PlainZk(lines, c) ==
  /\ ZkText(lines, c)
  /\ Len(lines) = c.size + 1 /\ c.size <= 4
  /\ Len(lines[1]) = 2
  /\ \A v \in 1 .. c.size : Len(lines[1 + v]) = 4

PlainGolden(lines, c) ==
  /\ GoldenText(lines, c)
  /\ lines[4] = <<Word, Colon, c.size>> /\ lines[5] = <<Word, Colon, c.capacity>>
  /\ \A i \in (1 .. 3) \cup (6 .. 10) \cup {10 + c.size, 10 + 2 * c.size} : NoNumber(lines[i])
  /\ \A v \in 2 .. c.size : Len(lines[9 + v]) = 3 /\ Len(lines[9 + c.size + v]) = 2
  /\ Len(lines[11 + 2 * c.size]) = 2
  /\ \A i \in 12 + 2 * c.size .. Len(lines) : NoNumber(lines[i])

PlainX(lines, c) ==
  /\ XText(lines, c)
  /\ lines[4] = <<Word, Colon, c.size>> /\ lines[6] = <<Word, Colon, c.capacity>>
  /\ \A i \in (1 .. 3) \cup {5, 7, 8 + c.size} : NoNumber(lines[i])
  /\ \A v \in 1 .. c.size : Len(lines[7 + v]) = 3 /\ Len(lines[8 + c.size + v]) = 2
  /\ \A i \in 9 + 2 * c.size .. Len(lines) : ~Gives(lines[i], 2)

PlainText(lines, c) == PlainZk(lines, c) \/ PlainGolden(lines, c) \/ PlainX(lines, c)

\* A file that is absent, intact, or one of the originals damaged.
KnownFile(f, originals) ==
  \/ ~f.exists
  \/ f.intact /\ Text(f.lines, f.content)
  \/ /\ ~f.intact /\ f.newline
     /\ \E lines \in originals : PlainText(lines, f.content) /\ f.lines \in Damages(lines)
=============================================================================
