----------------------------- MODULE MCClients ------------------------------
EXTENDS Clients, SequencesExt

\* Every arc costs the same: all savings are equal, so that the runs take them in
\* every order, hence in the order of every instance.
MCCost == [i \in Vertices |-> [j \in Vertices |-> IF i = j THEN 0 ELSE 1]]

MCDemand == [c \in Customers |-> CASE c = 1 -> 1 [] c = 2 -> 2 [] c = 3 -> 2 [] OTHER -> 3]

\* The vertex itself, then the others from the nearest on.
MCNeighbors == [c \in Customers |-> <<c>> \o SetToSortSeq(Vertices \ {c},
                 LAMBDA j, k : Cost[c][j] < Cost[c][k] \/ (Cost[c][j] = Cost[c][k] /\ j < k))]

Line(isRoute, list) == [route |-> isRoute, words |-> list]

\* No file; a whole solution; malformed words at the start, inside and at the end
\* of a line, with a customer behind them that another line gives; other lines.
MCSolutionFiles ==
  {[exists |-> FALSE, lines |-> <<>>],
   [exists |-> TRUE,
    lines |-> <<Line(TRUE, <<3, 1, 2>>), Line(TRUE, <<4>>), Line(FALSE, <<3>>)>>],
   [exists |-> TRUE,
    lines |-> <<Line(FALSE, <<>>), Line(TRUE, <<2, 4, Garbage, 1>>), Line(TRUE, <<Garbage, 3>>),
                Line(TRUE, <<>>), Line(TRUE, <<1, Garbage>>)>>]}
=============================================================================
