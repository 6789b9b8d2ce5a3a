---------------------------- MODULE SolutionFile ----------------------------
(***************************************************************************)
(* Solution::load (Solution_parsers.cpp:11-78): a solution read from a     *)
(* file and built with the methods of Solution.  A line is a route or      *)
(* something else; after the colon of a route come words, the numbers of   *)
(* customers up to the first that stoi refuses.  One step is one getline   *)
(* or one number.                                                          *)
(***************************************************************************)
EXTENDS SolutionRefinement

CONSTANT SolutionFiles   \* what may be loaded

Garbage == -1            \* a word that is not a number

\* The customers that a line gives.
Readable(words) ==
  LET n == CHOOSE n \in 0 .. Len(words) :
             /\ \A i \in 1 .. n : words[i] # Garbage
             /\ n = Len(words) \/ words[n + 1] = Garbage
  IN  SubSeq(words, 1, n)

\* What the asserts of the methods ask of a file: customers of the instance, each
\* at most once.  A release build checks none of it.
ASSUME SolutionFilesAssumption ==
  \A f \in SolutionFiles :
    /\ f.exists \in BOOLEAN
    /\ f.lines \in Seq([route : BOOLEAN, words : Seq(Customers \cup {Garbage})])
    /\ \A i, j \in DOMAIN f.lines :
         \A k \in DOMAIN Readable(f.lines[i].words), l \in DOMAIN Readable(f.lines[j].words) :
           (f.lines[i].route /\ f.lines[j].route /\ f.lines[i].words[k] = f.lines[j].words[l])
             => i = j /\ k = l

VARIABLES
  opened,      \* the file of the last call
  reading,     \* where the call is: idle, lines, words
  rest,        \* the lines that were not read yet
  words,       \* what is left of the current line
  route,       \* of the current line, DummyVertex before its first customer
  loaded       \* what the last call returned: yes, no; none: the solution is not from a file

fileVars == <<opened, reading, rest, words, route, loaded>>

FileInit ==
  /\ opened = [exists |-> FALSE, lines |-> <<>>]
  /\ reading = "idle" /\ rest = <<>> /\ words = <<>> /\ route = DummyVertex /\ loaded = "none"

\* The solution is lost before the file is opened.
LoadStart(f) ==
  /\ reading = "idle"
  /\ Reset
  /\ opened' = f
  /\ IF f.exists THEN reading' = "lines" /\ rest' = f.lines /\ loaded' = "none"
     ELSE loaded' = "no" /\ UNCHANGED <<reading, rest>>
  /\ UNCHANGED <<words, route>>

ReadLine ==
  /\ reading = "lines"
  /\ rest # <<>>
  /\ rest' = Tail(rest)
  /\ IF Head(rest).route
     THEN reading' = "words" /\ words' = Head(rest).words /\ route' = DummyVertex
     ELSE UNCHANGED <<reading, words, route>>
  /\ UNCHANGED <<vars, opened, loaded>>

NumberFollows == words # <<>> /\ Head(words) # Garbage

\* Mutant: a customer goes to the front of its route.
ReadCustomerAtFront ==
  /\ reading = "words"
  /\ NumberFollows
  /\ \/ /\ route = DummyVertex
        /\ BuildOneCustomerRoute(Head(words))
        /\ route' = Head(routes_pool)
     \/ /\ route # DummyVertex
        /\ InsertCustomer(route, first_customer[route], Head(words))
        /\ UNCHANGED route
  /\ words' = Tail(words)
  /\ UNCHANGED <<opened, reading, rest, loaded>>

\* The first customer builds the route, the others go to its end.
ReadCustomer ==
  /\ reading = "words"
  /\ NumberFollows
  /\ \/ /\ route = DummyVertex
        /\ BuildOneCustomerRoute(Head(words))
        /\ route' = Head(routes_pool)
     \/ /\ route # DummyVertex
        /\ InsertCustomer(route, Depot, Head(words))
        /\ UNCHANGED route
  /\ words' = Tail(words)
  /\ UNCHANGED <<opened, reading, rest, loaded>>

\* Mutant: the exception of stoi is caught inside the loop, which tries again.
EndLineWhenRead ==
  /\ reading = "words"
  /\ words = <<>>
  /\ reading' = "lines"
  /\ words' = <<>>
  /\ UNCHANGED <<vars, opened, rest, route, loaded>>

\* The exception of stoi ends the line, whatever is left of it.
EndLine ==
  /\ reading = "words"
  /\ ~NumberFollows
  /\ reading' = "lines"
  /\ words' = <<>>
  /\ UNCHANGED <<vars, opened, rest, route, loaded>>

EndFile ==
  /\ reading = "lines"
  /\ rest = <<>>
  /\ reading' = "idle"
  /\ loaded' = "yes"
  /\ UNCHANGED <<vars, opened, rest, words, route>>

Read == ReadLine \/ ReadCustomer \/ EndLine \/ EndFile

-----------------------------------------------------------------------------

\* The routes and their customers as a client iterates them.
Visited(r) ==
  LET at[k \in 1 .. size[r]] == IF k = 1 THEN first_customer[r] ELSE next[at[k - 1]]
  IN  at

\* The solution has one route for every line that something was read from, the
\* last line first, and in it the customers read, in their order.
BuiltFrom(read) ==
  LET Used == {i \in DOMAIN read : read[i] # <<>>}
      Kth == 1 .. num_routes
  IN
  \E line \in [Kth -> Used] :
    /\ \A i \in Used : \E k \in Kth : line[k] = i
    /\ \A j, k \in Kth : j < k => line[j] > line[k]
    /\ \A k \in Kth : Visited(RouteOrder[k]) = read[line[k]]

\* What the file gives, line by line.
Written == [i \in DOMAIN opened.lines |->
              IF opened.lines[i].route THEN Readable(opened.lines[i].words) ELSE <<>>]

\* load() answers yes and has built, route by route and in the order of each line,
\* exactly the customers before the first malformed word of the lines, or it answers
\* no and has left an empty solution: it never keeps anything of the solution before
\* (Solution_parsers.cpp:13, 37-61, 74).
LoadedAsWritten ==
  /\ loaded = "yes" => BuiltFrom(Written)
  /\ loaded = "no" => num_routes = 0 /\ \A c \in Customers : ~IsCustomerInSolution(c)
=============================================================================
