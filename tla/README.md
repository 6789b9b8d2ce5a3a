# A formal model of cvrp-lib

TLA+ modules for the library in `src/` (C++, single-threaded, about 2000 lines of
its own): what a CVRP `Solution` object keeps in its linked lists, what each
method does to them, what its clients in the library make of it, how an instance is
read from a file and viewed in parts, what must hold between two calls, and proofs
of much of it for any number of customers.

## 1. Inventory

| component | source | state | operations |
|---|---|---|---|
| `FixedSizeValueStack` | `fixed-size-value-stack/src` | an array, the index `begin` of the top, the initializer | constructor, `get`, `push`, `reset`, `operator=`, `size` |
| `Solution`: lists | `vrp-solution/src/Solution.cpp` 12-480 | per customer `next`, `prev`, `route_ptr`; per route the two depot links, `load`, `size`, `cost` and two list links; the head and length of the route list; the pool of route indices; the total cost; `unstaged_changes` | `reset`, `build_one_customer_route`, `remove_vertex`, `insert_vertex_before`, `remove_route`, `reverse_route_path`, `append_route`, `commit`, getters |
| `Solution::is_feasible` | `Solution.cpp` 552-756 | none | a dozen consistency checks and the capacity check |
| `Solution`: copy | `Solution.cpp` 34-70 | two objects over one instance | copy constructor, `operator=` |
| `Solution`: cumulative loads | `Solution.cpp` 504-535 | `load_before`, `load_after` of a customer | `update_cumulative_route_loads`, getters |
| Clarke and Wright | `Solution_initializer.cpp` | a local list of savings | build one route per customer, merge routes by decreasing saving |
| `Solution::load` | `Solution_parsers.cpp` | none of its own | read a solution file, build it with the methods above |
| `Instance`, `AbstractInstance` | `vrp-instance/src` | coordinates, demands, capacity, cost matrix, neighbour lists, `valid` | constructor (three formats in turn), getters, serialization |
| `SubInstance` | `SubInstance.hpp` | the mapping, its inverse, neighbour lists | constructor, getters |
| `raw-mm` | `raw-mm/src/mm.hpp` | one block: row pointers, then data | allocate, release |
| `macro` | `macro/src` | none | branch hints |
| googletest | `googletest-master` | vendored | - |

How they interact: everything is a plain call. A `Solution` holds a reference to
an instance (demands, costs, the depot, always vertex 0) and owns a
`FixedSizeValueStack<int>` from which a new route gets its index and to which a
released route returns it. Clarke and Wright and `load` are clients of the public
methods of `Solution`. A `SubInstance` forwards to its instance through a mapping.
`Instance` takes its cost matrix from `raw-mm`. Any instance or view writes itself to a
file, which a new `Instance` may read.

What is hard. There are no threads, no messages and no persistence. What there
is: three layers of linked lists held together by sentinels (the depot, -1, route
0); loads, sizes and costs kept by deltas over arbitrarily long sequences of edits
and read as if they were exact (`is_route_empty` looks at the load only); the depot,
which has its links in a different array than the customers and may be taken out
of a route and put back elsewhere; boundary cases where one vertex plays several
roles (only customer, first, last; a path that touches the depot, or is the whole
ring); index ranges that differ by one (`vertices_num` and `max_number_routes`);
a pool that can run dry. On the side of instances: three parsers that are tried on
the same fields, each over what the failed one before it left; loops and skips one off
from each other in the three formats; `getline` at the end of a file; three numberings
of a customer, each shifted by the depot. All of these need several calls, or an
input nobody wrote a test for, to go wrong. The list, line by line, is `hazards` in
`PROJECT.json`.

What makes each component correct:

- stack: a bounded LIFO stack per object; assignment copies and does not share.
- lists: each live route is one ring of the customers that name it; the list of
  routes is one ring of the live routes through route 0; the pool has exactly the
  free indices; stored sums equal recomputed ones; changed customers are recorded.
- `is_feasible`: accepts exactly what is feasible, and rejects nothing that the
  methods built correctly.
- copy: the copy behaves as the original did, and independently of it.
- cumulative loads: right after an update they are the sums up to and from a customer.
- Clarke and Wright: every customer in one route, no route over capacity, it
  ends, and no merge undoes another.
- `load`: what it answers is what it has built, and nothing of the old solution survives.
- `Instance`: a valid one is the one its file describes; costs, demands and neighbour
  lists are what the solution code takes for granted; construction ends.
- `SubInstance`: mapping and inverse are mutually inverse on the chunk, however often
  and for whatever vertex the inverse is asked; a view is as sound as its instance.
- `raw-mm`: cells do not overlap and lie inside the block.

## 2. Modules

| module | models | how |
|---|---|---|
| `ValueStack` | what the stack promises | a sequence per object, and the content `reset` restores |
| `FixedSizeValueStack` | `FixedSizeValueStack.hpp` | `array`, `begin`, `initializer` as in the class; implements `ValueStack` |
| `FixedSizeValueStackProofs` | | type correctness and the refinement, proved |
| `Rings` | circular lists | `IsRing` (links inverse, one cycle) and `Walk`, what a loop along links visits |
| `RingsProofs` | | lemmas: insertion, removal, reversal and concatenation keep a ring, change its sum of arc costs by a delta, and what they do to a sequence that lists it; what a walk visits |
| `Solution` | `Solution.cpp` 12-480 | one variable per field, one action per public method, separate actions for the depot and the customer branch of `remove_vertex` and `insert_vertex_before` |
| `SolutionProperties` | | the invariants and action properties |
| `SolutionInvariant` | | the inductive invariant of `Solution` |
| `SolutionProofs` | | every method keeps it, and the theorems that follow |
| `Tours` | what `Solution` promises | an ordered collection of named cyclic sequences, with one edit per method |
| `SolutionRefinement` | | the mapping of the lists to `Tours` |
| `SolutionRefinementProofs` | | every method does to the listed tours what `Tours` says; cumulative loads are exact until their route is edited, proved |
| `Feasibility` | `is_feasible` | one operator per check, in the order of the code |
| `ClarkeAndWright` | `Solution_initializer.cpp` | a program counter, the loop variable and the savings left; its steps call the actions of `Solution` |
| `CumulativeLoads` | `Solution.cpp` 504-535 | one step per iteration of the loop, around the methods of `Solution` |
| `CumulativeLoadsInvariant` | | the inductive invariant of the loop and of what it has written |
| `SolutionFile` | `Solution_parsers.cpp` | a file as lines of words; one step per `getline` or number; builds with the methods of `Solution` |
| `Clients` | the three above on one object | one call after the other, each on what the one before left |
| `ClientsProofs` | | the verdict of `is_feasible`; capacity, service, nothing left to merge, sound lists and the last assert of Clarke and Wright; all of them in any sequence of calls, and what `load` builds, proved |
| `Copies` | what copying promises | `Tours` twice: the current value and the saved one |
| `SolutionCopy` | `Solution.cpp` 34-70 | the variables of `Solution` and the cells `best` of a second object; implements `Copies` |
| `SolutionCopyProofs` | | copies are independent values, with exact costs and cumulative loads, proved |
| `RawMemory` | `mm.hpp` 14-53 | byte offsets in a block |
| `Instance` | `Instance.cpp`, `Instance_parsers.cpp` | files as lines of tokens, each parser a program of `getline`s, the cost matrix in a block, neighbour lists |
| `SubInstance` | `SubInstance.hpp`, `AbstractInstance.cpp` | views over views; writing a view to a file and reading it again |
| `SubInstanceProofs` | | cells are disjoint and inside the block; the symmetry of costs; the inverse mapping; types of the fields, and sound instances and views, proved |
| `InstanceFiles` | the input of the parsers | what a file in each of the three formats is, and what may have damaged it |
| `InstanceFilesProofs` | | intact files are accepted, damaged ones pass for no other instance, proved |
| `MCFixedSizeValueStack`, `MCSolution`, `MCSolutionSteps`, `MCFeasibility`, `MCClients`, `MCSolutionCopy`, `MCInstance` | | instances for TLC |

`Solution` extends `Rings`; `SolutionProperties`, `SolutionRefinement` and `Feasibility`
extend `Solution`; `ClarkeAndWright` extends `Feasibility`, whose verdict its last assert
asks for. `CumulativeLoads` adds its two cells and its loop to `Solution`, and says with
`EditAround` what every other method does to them. `Clients` puts `ClarkeAndWright`,
`CumulativeLoads` and `SolutionFile` on one object. `SolutionCopy` composes two objects, one
of them `Solution` with its cumulative loads. `SubInstance` extends `Instance`, which
keeps its cost matrix in the block of `RawMemory`.

### Solution

`customers_list[v]` is `next[v]`, `prev[v]`, `route_ptr[v]`; `routes_list[r]` is
`first_customer[r]`, `last_customer[r]`, `load[r]`, `size[r]`, `cost[r]`,
`route_next[r]`, `route_prev[r]`; `depot_node` is `first_route`, `num_routes`. The
cells are those of the code, unused ones included: index 0 of `routes_list` is
written when a route is released or the first one is built, and so it is here.
`routes_pool` is a sequence, top first: the abstraction that
`FixedSizeValueStackProofs` proves. A fresh `RouteNode` has undefined list links
(`Unset`); a state reads them only after they were written, by `RouteListSound`.

An action is one call: all its writes happen in one step, reading the values
before the call, and where the code reads a cell it has written in the same call
the definition composes the updates in that order (`UnlinkCustomer`,
`ReverseRoutePath`, `AppendRoute`). Loops over a list are `Walk`, the least set
closed under the links up to the stop vertex; since the loop bodies of
`reverse_route_path` and `append_route` touch each vertex independently, the set is
all that matters.

Guards are the asserts of the code, and the few things it leaves to its caller:
a route argument is a live route (`get_route_index` or the list produce nothing
else); the depot is removed from a route that has it; `append_route` joins two
different routes, both with their depot; `insert_vertex_before` names a vertex
of the route. Demands are positive, which `Instance.cpp:81-86` checks. The
caller is otherwise free: any method at any time, on a route without depot too.

Two things are parameters of the caller. `MaxEmptyRoutes` bounds how many empty
routes the caller leaves behind when it removes the last customer of a route
(README of the library, line 162: they "must be manually removed").
`FullCircleReversals` says whether it may reverse a path that is the whole ring,
where the stored cost goes wrong (finding 1).

Costs and demands are integers: the code's `float` and `double` sums round, so the
model shows that the deltas are the right ones, not how far rounding lets the sums
drift. Costs are symmetric with a zero diagonal, as `Instance.cpp:35-49` fills them.

### Feasibility

`IsFeasible` is the conjunction of the checks. When a listed route lacks its depot,
the loop of line 631 starts at -1 and reads before the array: `Verdicts` is then
both answers. The tolerance 0.1 on costs is equality of integers. `VerdictExact` and
`AcceptedRespectsCapacity` are about solutions whose depots are in place (`WalksDefined`).

### Tours

No links and no sentinels: `order` is a sequence of route names, `tour[r]` a cyclic
sequence, kept in the rotation that starts at its least vertex, so that a rotation
is not a change. `Take`, `Place`, `Turn`, `Join` say what the methods promise in
terms of sequences; `SolutionRefinement` reads both from the lists as a client
would iterate them. A step of `Tours` is some edit of a kind: that it is the one for the
route and the vertices that the call names is `EditsAsCalled`.

### ClarkeAndWright

A step is one iteration of a loop of the code: `Build` of the first, `Merge(s)` of the
last. The loop that collects the savings reads costs only, so that `Savings` is a
constant. `Merge` takes any pending saving of the highest value: the list in every
order that `std::sort`, which is not stable, may give it. A saving that does not
apply is visited and dropped, as in the code. The call may be repeated on the
same object. `DemandsFitAssumption` is the caller's: `Instance` accepts a customer
whose demand exceeds the capacity, and then no solution is feasible.

### SolutionCopy

The variables of `Solution` are the object a search edits, `best` the cells of the one
it keeps. `Save`, `Construct` and `Restore` are `best = solution`, `Solution best(solution)`
and `solution = best`; `Copied` is `copy()`, with the bound of its second loop, and
`NewCells` two contents that `new RouteNode[]` may leave. `RefinesCopies` reads both
objects as a client does and asks for two values: a copy equals its source,
an edit of one leaves the other, and what is restored takes every further edit as
before. The cumulative loads are copied with the customers, and `best_fresh` remembers
which of them were up to date.

### CumulativeLoads

`UpdateStart` is the code before the loop, `UpdateStep` one iteration, `UpdateEnd` the
return. Nothing else writes `load_before` and `load_after`, and nobody clears them: their values
are right for a while and then are not. The history variable `fresh` holds the routes
that were updated and whose tour has not changed since; `EditAround` takes a route out
of it when an edit changes its ring. `CumulativeLoadsExact` is the promise a
local search needs: what it has asked of route `r` is still true after it edited others. Of a
route it has edited it promises nothing: that a client must update it before asking again is
the client's part, and no property is about a client that does not.

### SolutionFile

A file is a sequence of lines, a line a route or something else, and the words after
its colon numbers of customers or `Garbage`, which `stoi` refuses. `LoadStart` resets the
solution before the file is opened, as the code does; `ReadCustomer` builds the route with its first
number and inserts the others before the depot; `EndLine` is the exception of `stoi`, also
at the regular end of a line, where `stoi` meets an empty string. `SolutionFilesAssumption`
is what the asserts of the called methods ask of a file: customers of the instance,
none of them twice in what is read. A release build checks neither.

### Clients

`CallClarkeAndWright`, `CallLoad` and `CallUpdate` start one of the three when no call runs,
at most `MaxCalls` times; `RunClarkeAndWright`, `RunLoad` and `RunUpdate` are its steps. Each module's own
actions are used as they are: `Clients` only adds what each leaves alone.

### RawMemory, Instance

`RawMemory` gives the address of a cell as an offset in the block: row pointers first,
then the rows. `costs_matrix` is a function from those addresses.

A line of an instance file is a sequence of numbers and of two marks, `Colon` and
`Word`. `ZkLine`, `GoldenLine` and `XLine` give for the k-th `getline` of a parser what is converted
from it and where it goes; `ReadLine` executes one of them: the conversions from left to right
until one throws, the resizing of the vectors once the capacity is known, and on a throw
`NextParser`, which starts the next one on the same fields. `GetLine` is `std::getline` at
the end of a file, which clears the string when the last line was terminated and
keeps its old content when it was not. `FillMatrix`, `SortNeighbors` (one vertex per
step) and `CheckDemands` are `initialize_data_structures`: the diagonal of the last row is not
written and is zero because the block was cleared; vertices of equal cost come in any
order; the vertex itself is then swapped to the front.

`file.content` and `file.intact` are history: what the author of the file meant, and whether
the file is written in one of the formats without error. No action reads them.
Coordinates are integers and `round_costs` is true, so that costs are integers.
A third number in the first line of the ZK format, an optional limit, is read
and not kept by the code, and is left out.

`InstanceFiles` says which files there are to read, line by line: `ZkText`, `GoldenText` and `XText` are those in which a
parser finds a given content, `Damages` those that one slip makes of a file, and
`KnownFile` allows a file that is absent, intact in one of the formats, or an original with one damage. A damage is
only recognisable in a file that has nothing but the numbers of its format where they
belong (`PlainText`), and of the ZK format only up to four vertices (finding 5). The
theorems about files assume `KnownFile`, and `MCInstance` assumes it of the files it gives to TLC, which evaluates it.

### SubInstance

`chain` holds the views, each over the one before, the first over the instance:
`mapping`, `reverse` (a map that `operator[]` extends when it is asked for a vertex it
does not hold: `ReverseMappingRead`) and the neighbour lists. The getters go through all levels
(`RootVertex`). `serialize` writes the top view in the TSPLIB format, with its own
numbering and its coordinates as a stream prints a float, to six significant digits
(`Printed`): those of 1000000 and more are rounded. The model's integers are those a float
holds exactly, up to 2^24. What is meant by a written view (`ContentOf`) is the view to that precision;
below 1000000 it is the view itself. `Reopen` is a constructor call on that file. `MaxCalls` bounds views and files.

## 3. What the runs check

| run | instance | states | shows |
|---|---|---|---|
| `stack` | 2 objects, 3 cells, 3 items, 2 initializers | 46656 | `TypeOK`, `RefinesValueStack` |
| `tours` | 4 customers, at most 2 routes, distinct costs and demands | 1634 | `RouteRings`, `LoadsExact`, `CostsExact`, `RefinesTours`, `EditsAsCalled` |
| `steps` | 2 customers, at most 3 routes, all `unstaged_changes`, updates of cumulative loads | 9816 | `TypeOK`, `RouteRings`, `RefinesTours`, `ChangesTracked`, `CumulativeLoadsExact` |
| `lists` | 3 customers, at most 4 routes, 2 empty, capacity 4 | 64560 | `LeftoversReset`, `RouteListSound`, `PoolSuffices`, `VerdictExact` |
| `clients` | 5 customers, capacity 6, 2 neighbours, 3 files, 3 calls | 34920 | `CapacityRespected`, `EveryoneServed`, `ResultAccepted`, `NothingLeftToMerge`, `CumulativeLoadsExact`, `LoadedAsWritten`, `CallsReturn` |
| `copy` | 2 customers, at most 2 routes, two objects | 38712 | `CostsExact`, `RefinesCopies`, `CumulativeLoadsExact` |
| `instance` | up to 3 customers, three formats, every single damage, 2 views or files | 70696 | `TypeOK`, `ReadAsWritten`, `IntactAccepted`, `InstanceSound`, `ReverseInverse`, `ConstructorReturns` |
| `full_circle`, `changes`, `capacity`, `copy_last_route`, `instance_damaged` | 2 customers; a ZK file of 12 vertices without its end | | section 5 |

Why the bounds are enough. A path needs four customers to have an inside, two
ends and an outside besides the depot (`tours`); the list of routes needs
a head, an inner route and a tail, and one more to be the one released (`lists`);
the pool needs two empty routes to be one short of unlimited. `MaxLiveRoutes`
(`BoundedSpec`) trades routes for customers: no method reads more than two routes.
`MCCost` gives each arc a cost that is not a sum of others, and `MCDemand` powers
of two, so that any error in a delta shows in a sum.

`View`: no action reads `unstaged_changes`, nor the list links of a free route
before `build_one_customer_route` has written them. States that differ only there
have the same future, and the properties checked under the view do not mention
either. `steps`, which is about `unstaged_changes`, keeps them in its view.

`MCClients` gives every arc the same cost, so that all savings are equal and merged in
every order; another instance has one of these orders. The capacity admits routes
of two or three customers, and the neighbour lists leave pairs out. Three calls let
each client follow each other one and be followed by a third. The files are an
absent one, a whole solution, and one with malformed words at the start, inside and at the end of a
line, a customer behind a malformed word that another line gives, and lines that are no
routes. Neither this run nor `instance` has a view, since both check liveness.

In `copy`, `MaxLiveRoutes` is 2 of 3 indices: the last one is never in use, which is what
`copy()` needs (finding 4); `copy_last_route` lifts this. Its view, and that of `steps`,
keep of the cumulative loads what is fresh or being written: any other cell is written
before it is read.

`MCInstance` has instances with a depot alone, once with coordinates of seven digits (which are
written rounded, one of them from an exact half), with one customer, with two customers at the
same place, with a customer without demand and with three customers, two at equal
distance; files of each in the three formats, ended by a newline or not; and of each
of the short ones every file with one token replaced by a word, one token or one line
missing, or the end missing after any line. Damage of one token or line is
what separates a parser's skip or loop from one that is one off. The theorems of
`InstanceFilesProofs` lift the bounds on sizes, contents and lines. One
damaged file is left out: a ZK file without its first line is a well-formed ZK file
of an instance without customers, and nothing in it says otherwise (section 5). Two
calls give a view of a view, a view written to a file, and a file of the read file.

Paths that are the whole ring are in `steps`, whose costs are zero; elsewhere they are
left out, since the stored cost would fall for ever (finding 1).

Fairness and liveness. A library object does nothing of itself, so that no call is ever
owed. But a call that was made is executed by its thread: `ClientsSpec` has weak
fairness of the steps of a running call (`RunClarkeAndWright`, `RunLoad`, `RunUpdate`), `FairSpec` of those of a
running constructor (`ConstructInstance`, `SortSubNeighbors`), and of nothing else. A running
call is then shown to return (`CallsReturn`, `ConstructorReturns`): the loop of
`update_cumulative_route_loads` ends because rings are rings, those of Clarke and Wright visit each
customer and saving once, `while(true)` over the words of a line ends by an exception, no assert stops it
half way, and the parsers are tried once each. The loops inside one method of `Solution`, in
`append_route` and `reverse_route_path`, are a `Walk` within one step and end by construction:
what makes them end in the code is `RouteRings`. `clients` and `instance` say `CHECK_DEADLOCK
FALSE`, for there the caller stops after `MaxCalls` calls, or has no valid instance to use; that
no call is stuck is what the liveness properties say. The other runs have no
deadlock: `commit` and `reset` are always possible.

The properties, in words:

- `RouteRings`: every live route is one cycle through exactly the customers whose
  `route_ptr` names it, and the depot if it is in place; `next` and `prev` agree.
- `LeftoversReset`: no customer points to a released route, nor do released cells
  keep anything.
- `RouteListSound`: iterating the routes visits each live one once and stops.
- `PoolSuffices`: no index is free twice; a caller that leaves at most one empty
  route behind never meets the assert of `request_route`.
- `LoadsExact`, `CostsExact`: sums kept by deltas are the sums.
- `ChangesTracked`: a routed customer whose links change is recorded, in every
  method (`reset` excepted, which records nothing).
- `RefinesTours`: the methods do to cyclic sequences what they say, as steps of `Tours`.
- `EditsAsCalled`: the edit is the one for the arguments of the call.
- `VerdictExact`: on solutions built by the methods with every depot in place,
  `is_feasible` answers no only for an empty route or a checked route over capacity.

- `CapacityRespected`, `EveryoneServed`: at any point of `clarke_and_wright`.
- `ResultAccepted`: its last assert.
- `NothingLeftToMerge`: one pass over the savings suffices: none that was refused
  fits the result.
- `CumulativeLoadsExact`: an updated route keeps right cumulative loads until it is
  itself edited, through edits of others, copies, and other clients.
- `LoadedAsWritten`: `load` answers yes and has built exactly the readable part of
  the lines, or no and has left an empty solution.
- `RefinesCopies`: copies are independent values.
- `ReadAsWritten`: what calls itself valid is what the author of the file meant; for a written
  view, coordinates to the six digits that are printed.
- `IntactAccepted`: a well-formed file is refused only for a customer without demand.
- `InstanceSound`: an instance and every view of it give positive demands, symmetric costs with a
  zero diagonal and complete neighbour lists in order, the vertex itself first.
- `ReverseInverse`: the inverse mapping stays one, and answers the depot for strangers.

Each property is broken by a mutant: a definition of the model changed the way a
slip in the code would change it (the operators marked `Mutant` in the modules).

## 4. What is proved

`SolutionProofs`, for every number of customers, every demand and cost function
and either value of the two caller parameters, from the assumptions of `Solution`
(`CustomersNum` positive, demands positive, costs symmetric with a zero diagonal):

`THEOREM InvariantHolds == Spec => []IInv`, where `IInv` is `TypeOK`, `RouteRings`,
`LeftoversReset`, `LoadsExact`, `RouteListSound` and `PoolExact`. None of them is
inductive alone. Inserting next to `p` keeps the type only because `p` is on the
ring; the rings stay apart only because an index taken from the pool is nobody's
(`PoolExact`, `LeftoversReset`); `remove_route`, which checks the load, releases no
customers only because `LoadsExact` holds and demands are positive; the pool stays
exact because the list counts the live routes. The theorems `TypeCorrect`,
`RingsCorrect`, `LeftoversCorrect`, `ListCorrect`, `LoadsCorrect`, `PoolCorrect` and
`ChangesTrackedCorrect` follow.

The proof has a lemma per action. Those on the ring rest on `RingsProofs`: an
insertion, a removal, the reversal of a path and the concatenation of two rings
give a ring again, and `Walk` from `b` to the successor of `e` is the path between
them. A ring is stated without an order of its elements (links inverse, no proper
part closed under `next`), which avoids induction: each lemma turns a
closed part of the new ring into one of the old.

Sums are folds over sets, and the theorems on folds need induction over an operator. What
the proofs use instead is `AllIndices`: a set that has the first index and with an index
the next one has them all. From it follow, for the recursive function behind a fold, the lemmas on
`SumFunctionOnSet` (the empty sum, one element more, two disjoint sets, equal
summands, bounds), and from those the lemmas on the weight of a ring: what an insertion, a
removal, a reversal and a concatenation add to the sum of the costs of its arcs. They are the
deltas of the code, and give `CostsCorrect == ASSUME ~FullCircleReversals PROVE Spec =>
[]CostsExact`. The hypothesis is needed: finding 1 is a counterexample without it. A reversal is where
the symmetry of costs is used, and the only place.

`SolutionRefinementProofs`: `Refinement == Spec => RefinesTours`, full circles included. A tour is read by a
recursion along the links, of which nothing can be said directly. But a sequence that
lists a ring (starts at some vertex, each element the successor of the one before, no element twice, all of
them there) is determined by its first element (`AllIndices` again, along the sequence), so that it
is enough to exhibit, for each method, the sequence that `Tours` promises, and to see that it lists the new
ring: the rest of the old one from the successor of the removed vertex on; the old one with a
vertex at its end; a path backwards and the rest; two sequences one after the
other. The smallest vertex then gives the canonical rotation. The order of the
routes is the same with route 0 as the end. The same lemmas give, call by call,
`EditsCorrect == Spec => EditsAsCalled`, and the refinement follows from it.

The same module has `CumulativeLoadsCorrect == CumulativeSpec => []CumulativeLoadsExact`. The
invariant `CumulativeInv` adds `LoopSound`: what the loop has written so far is exact, and the rest of the
walk is ahead. The sets before and after a customer are walks, least
closed sets, and the lemmas `AfterUnfold` and `BeforeUnfold` give them one customer at a time,
which is the step of the loop. That edits of other routes do not matter is
`WalkSame`: equal links on a ring give equal walks.

`SolutionCopyProofs`, for any sequence of edits, updates, copies and restores of two objects:
`CopyRefinement == CopySpec /\ []Spare => RefinesCopies`, `CopyLoadsCorrect == CopySpec /\ []Spare =>
[]CumulativeLoadsExact` and, under `~FullCircleReversals`, `CopyCostsCorrect == CopySpec /\ []Spare =>
[]CostsExact`. `Spare` says that one route is free. It is needed: `copy()` leaves out the route of index
`vertices_num` (finding 4), and run `copy_last_route` shows what follows when it is in use. It is little to
ask: `SpareUnlessEmpty` proves that a caller that keeps no empty route always has a route to spare, for
there is one route more than there are customers.
The second object is no set of variables but a record of cells, so that the invariant is instantiated with
them: `At(s, f)` is `CumulativeLoadsInvariant` and `Client(s)` is `SolutionRefinement` with the cells `s`
for the variables. The invariant `CopyInv` has `LastFree`: the last index lies at the bottom of the pool, and
nothing was ever written to its links. Under `Spare` every call keeps this, since the pool hands that index out
last. What the second object has at that index is then whatever it had when it was allocated, which
nobody reads (`Kept` puts the cells of a route that was never in use there); with this one route replaced it is an object
that satisfies `IInv` as well, and a restore brings the invariant back with its cells.

`FixedSizeValueStackProofs`: `TypeCorrect`, and `StackCorrect == Spec =>
RefinesValueStack`, for any capacity, items and number of objects.

`ClientsProofs`, on Clarke and Wright alone (`CWSpec`): `CapacityCorrect`, `ServiceCorrect`, `NothingLeftCorrect` and `ListsCorrect`, for any
instance whose demands fit in a vehicle, any neighbour lists and any `lambda`. The
invariant `CWInv` adds to `IInv` that every route has its depot, a positive load and one
within the capacity, and that the first loop has served the customers before
`customer`. The calls are covered by the lemmas of `SolutionProofs`; loads are compared
as stored, and `LoadsExact` (in `IInv`) makes them the loads. `NothingLeftToMerge` speaks of the
end only; its invariant `NothingMissed` says at every step that no saving already visited
can be applied. A merge keeps this because it makes no new end points: whoever is last on
a route after it was last on one before it, and loads only grow (`MergeableBefore`).

It also has `VerdictCorrect == ASSUME ~FullCircleReversals PROVE Spec => []VerdictExact` (each of
the checks of `is_feasible` but those of emptiness and capacity follows from `IInv` and `CostsExact`; the one that
follows the list backwards and the one that counts its routes from the ring of routes) and
`AcceptedCorrect`: what Clarke and Wright returns passes `is_feasible`, the last assert of
the method.

On the composition it has `ListsKept`, `CapacityKept`, `ServiceKept`, `NothingLeftKept`, `CumulativeLoadsKept`,
`CostsStayExact`, `VerdictKept` and `AcceptedKept`, all of
`ClientsSpec`. The invariant `ClientsInv` is the conjunction of the parts' invariants, with `OneCall` (at
most one call runs, so that no part sees a half-done edit of another) and
`LinesKnown` (what is left of a line names customers of the instance, from
`SolutionFilesAssumption`); that of Clarke and Wright is only claimed from its first call on,
until a load.

There also is `LoadedCorrect == ClientsSpec => []LoadedAsWritten`. Its invariant `FileInv` says of a
running `load` that for some split of the file into lines already read, the current line and the rest,
the routes in the list are, last one first, the readable beginnings of the lines read so far that are
not empty, and that the current route, if there is one, lists the words of its line that were
read. A step adds a word to the current route (`QueueAppended`: inserting before the
depot appends to the sequence that starts after it) or ends a line, and a new route comes to
the front of the list. At the end of the file, that a listing is unique turns this into equality with
what an iteration over the lists reads.

`SubInstanceProofs`: `ReverseCorrect == Spec => []ReverseInverse`, whose invariant
`ChainInv` adds that no vertex of the chunk is missing from the map, so that a question never inserts
one that the mapping uses; and `CostsSymmetric`: `FilledMatrix` is symmetric with a zero diagonal for any number
of vertices and any coordinates, which rests on `AddressUnique`: two pairs of vertices
have different addresses. `CellsDisjoint` and `CellsInBlock` say this of the block, for any
dimensions and sizes of an element and a pointer.

The same module has `TypeCorrect == Spec /\ []HasDepot => []TypeOK` and `SoundCorrect == Spec /\
[]HasDepot => []InstanceSound`, for any set of files and any number of calls. The invariant
`SubInv` has these parts. `FieldsInv`: from the line with the capacity on, in each of the three formats,
the vectors have `matrix_size` cells, which no later line of that format can change, so that a parser that returns leaves
them so, whatever the ones before it left. `MatrixInv`: the lists so far are sound,
which needs that all costs are numbers (`RootFound`: every integer has a rounded root) and that the cost of a
vertex to itself is 0: what a sort puts before the vertex is then at the same place, and swapping the vertex to
the front leaves the order sorted (`NearSorted`). `ViewsInv`: for the function from the vertices of each level
to those of the instance, no customer is mapped to the depot, and the lists of each
view are sound for the costs seen through that function. It is defined by recursion over the levels; that it exists
is kept by extending it with each view, and that it is the one of the getters follows from its
uniqueness (`RootsUnique`). `SavedInv`: what `serialize` wrote is a file again. The hypothesis
`HasDepot` says that what calls itself valid has at least one vertex: a golden or X file of
dimension 0 is read as a valid instance without any, and the code then uses the first cells of empty
vectors. On the files that `InstanceFiles` describes there is no such instance (`DepotThere`).

`InstanceFilesProofs`, under the hypothesis that every file is a `KnownFile` for some set of
originals: `ReadCorrect == Spec => []ReadAsWritten`, `IntactCorrect == Spec => []IntactAccepted` and
`DepotThere == Spec => []HasDepot /\ []TypeOK /\ []InstanceSound`.

Intact files may have any size, further lines, and any headers that a parser before their own does
not take for numbers; damaged originals are as `PlainText` says. The invariant `ReadInv` adds to
`SubInv` two parts. `InstanceRead` says of the parser that runs what it has taken from the lines
behind it: each held the numbers that are now in the fields (`ReadLineRead`). So a parser that
returns has found numbers wherever its format has them, and what remains is about files alone
(`Finished`): one damage to an original leaves such a file only in the original's own format, and
only in a part that the parser does not look at. This goes through formats and kinds of damage with
lemmas on what a word put in or a token removed does to the numbers a line starts with.

That an intact file gets to its own parser is the opposite direction (`IntactStep`): the parsers
before it stop early, the ZK parser at the first line, which starts with two numbers in its format
only, the golden parser at the fifth, where an X file has no number. `SavedRead` says that what
`serialize` wrote is an intact X text (`WrittenText`), so that a view read back is the view as far as
it was printed; `ShortCoordinatesWritten` says that coordinates below 1000000 are printed in full.

Only model-checked, and why. The liveness properties, `CallsReturn` and `ConstructorReturns`, are out of the
prover's reach. What the violation runs refute is refuted by their traces.

## 5. Findings

1. `full_circle`: reversing a path that is the whole ring leaves the tour as long as
   it was but lowers the stored cost (`Solution.cpp:434`). `CostsExact` holds
   when the caller does not do this (`tours`).
2. `changes`: an inserted customer is not among the unstaged changes
   (`Solution.cpp:375`), against README line 180. `ChangesTracked` is what does hold.
3. `capacity`: `is_feasible` never checks the route with the highest index
   (`Solution.cpp:644`); `VerdictExact` is stated on the checked ones. In the trace all depots are
   in place: route 1 loses its only customer, the two customers get routes 2 and 3, route 1
   is removed, and the customer of route 2 is appended to route 3, the one that no iteration reaches.
4. `copy_last_route`: `copy()` leaves out the route of index `vertices_num`
   (`Solution.cpp:42`), the same off-by-one as in 3. `RefinesCopies` holds while that
   index is free. The pool hands it out last, when every other one is in use, so that
   one route at least is empty at that moment.
5. `instance_damaged`: a ZK file that its parser refuses may be declared valid as another
   instance. The golden and X parsers look at no keyword, and convert a line without colon from
   its start (`Instance_parsers.cpp:33`), so that rows of numbers pass for headers. A ZK file of
   12 vertices without its last line is, to the X parser, an instance of two vertices: the
   dimension is the index on line 4, the capacity the one on line 6. A longer one that ends too
   early is read likewise, from 15 lines on by the golden parser. In run `instance` damaged
   files of this format have up to three vertices, and `ReadCorrect` allows four. With `Files <-
   MCCutFiles` the same configuration shows another way to a wrong instance: `getline` at the
   end of a file that was cut inside a line keeps the line before (`Instance_parsers.cpp:30`),
   and `2 9 / 0 1 1 0 / 1 4 5 3` (two customers, the second one missing) without a last newline
   gives a depot alone, at (5, 3), with capacity 4.

Not counted as findings:

- `is_feasible` accepts a solution that serves nobody, which the example in the library's
  README (lines 120-129) does not suggest. The code prints a warning then, so that this
  is meant; `VerdictExact` says nothing of who is served.
- `is_feasible` on a route without depot: its check for missing end-points comes after loops
  that read `customers_list[-1]` on the very routes it is for. The verdict is then whatever
  is in memory (`Verdicts` is both answers). `VerdictExact` and `AcceptedRespectsCapacity`
  leave such solutions out; `ResultAccepted` shows that Clarke and Wright returns none.
- A view with coordinates of more than six digits comes back from a file rounded
  (`AbstractInstance.cpp:30-32` leave the precision of the stream at its default). No line of
  the library says that they are kept.
- `load` answers true when it has read a line in part only, which the comment at
  `Solution.hpp:317-321` leaves open. `LoadedAsWritten` says what is in the solution then.
- `valid` does not mean that a feasible solution exists (`AbstractInstance.hpp:20-21`):
  a demand above the capacity, or below zero, is not looked at.
- The index at the start of a line of an instance file is read and dropped, so that lines in another
  order are another instance; and a ZK file without its first line is one
  with a depot only.
- A golden or X file may give dimension 0. No vertex, not even the depot, is then there, and the golden
  parser writes to `x_coordinates[0]` (`Instance_parsers.cpp:95`). The model drops such a write, and the
  theorems exclude the case: by `HasDepot`, or by a format that has a depot (`KnownFile`).

## 6. Not modelled

- Printing (`to_string`, `print`, the messages of `is_feasible`): formatting without effect on
  the state. `serialize_json`: nothing in the library reads it.
- The flat array and the release of `raw-mm`: nobody calls the one, and after the other
  nothing is read.
- `macro`: branch hints. googletest: vendored, and by far the largest part of the source
  tree; the tests that use it were read for what they say of the library.
- Rounding: sums and savings are integers here.

## 7. Plan

Done, in this order: the stack and its abstraction; `Rings`, `Solution`, its
properties and proofs; `Tours` and the refinement; `Feasibility`; `ClarkeAndWright` and
its proofs; `Copies` and `SolutionCopy`; `CumulativeLoads`, `SolutionFile` and their composition
`Clients`, with proofs; `RawMemory`, `Instance` and `SubInstance`, with proofs of their arithmetic
and of the inverse mapping.

Then, with the sums and the sequences of section 4: `CostsExact`, `VerdictExact` and `ResultAccepted`, the
refinement to `Tours`, `LoadedAsWritten`, `TypeOK` and `InstanceSound` of `SubInstance`, the refinement to `Copies`, and
last, with `InstanceFiles`, `ReadAsWritten` and `IntactAccepted`, proved.

Left: rounding, which would need the sums over floating-point numbers; damages to long ZK files, of which
one would have to say which still show (finding 5 is one that does not).
