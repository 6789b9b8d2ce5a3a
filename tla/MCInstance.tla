----------------------------- MODULE MCInstance -----------------------------
(* Small instance files, intact and damaged, for SubInstance.              *)
EXTENDS SubInstance, InstanceFiles

\* Vertex 0 is the depot.  Coincident vertices, a tie, a customer without
\* demand, a demand of the depot (which no reader of an instance looks at);
\* coordinates that are printed rounded, one of them half-way.
MCContents ==
  {[size |-> 1, capacity |-> 7, x |-> <<3>>, y |-> <<4>>, demand |-> <<0>>],
   [size |-> 1, capacity |-> 7, x |-> <<1234565>>, y |-> <<7654327>>, demand |-> <<0>>],
   [size |-> 2, capacity |-> 7, x |-> <<3, 0>>, y |-> <<4, 0>>, demand |-> <<5, 2>>],
   [size |-> 3, capacity |-> 9, x |-> <<1, 4, 4>>, y |-> <<1, 5, 5>>, demand |-> <<0, 2, 4>>],
   [size |-> 3, capacity |-> 9, x |-> <<1, 4, 2>>, y |-> <<1, 5, 8>>, demand |-> <<0, 0, 4>>],
   [size |-> 4, capacity |-> 9, x |-> <<2, 5, 2, 6>>, y |-> <<6, 2, 1, 4>>, demand |-> <<0, 3, 1, 2>>]}

Header == <<Word, Colon, Word>>
Section == <<Word>>

MCZk(c) ==
  <<<<c.size - 1, c.capacity>>>>
  \o [v \in 1 .. c.size |-> <<v - 1, c.x[v], c.y[v], c.demand[v]>>]

MCGolden(c) ==
  <<Header, Header, Header, <<Word, Colon, c.size>>, <<Word, Colon, c.capacity>>,
    Header, Header, Header, Header, Section>>
  \o [v \in 1 .. c.size - 1 |-> <<v, c.x[v + 1], c.y[v + 1]>>]
  \o <<Section>>
  \o [v \in 1 .. c.size - 1 |-> <<v, c.demand[v + 1]>>]
  \o <<Section, <<c.x[1], c.y[1]>>, Section>>

MCX(c) ==
  <<Header, Header, Header, <<Word, Colon, c.size>>, Header, <<Word, Colon, c.capacity>>, Section>>
  \o [v \in 1 .. c.size |-> <<v, c.x[v], c.y[v]>>]
  \o <<Section>>
  \o [v \in 1 .. c.size |-> <<v, c.demand[v]>>]
  \o <<Section, <<1>>, Section, Section>>

TextsOf(contents) ==
  UNION {{[content |-> c, lines |-> l] : l \in {MCZk(c), MCGolden(c), MCX(c)}} : c \in contents}

\* Three customers in one of the formats: serialize writes it in another.
LongTexts == {[content |-> c, lines |-> MCZk(c)] : c \in {c \in MCContents : c.size > 3}}

ShortTexts == TextsOf({c \in MCContents : c.size <= 3})

FilesOf(texts, terminated, whole) ==
  {[exists |-> TRUE, lines |-> t.lines, newline |-> terminated, intact |-> whole,
    content |-> t.content] : t \in texts}

Damaged ==
  UNION {{[content |-> t.content, lines |-> l] : l \in Damages(t.lines)} : t \in ShortTexts}

Absent ==
  [exists |-> FALSE, lines |-> <<>>, newline |-> TRUE, intact |-> FALSE,
   content |-> CHOOSE c \in MCContents : TRUE]

MCFiles ==
  {Absent} \cup FilesOf(LongTexts \cup ShortTexts, TRUE, TRUE) \cup FilesOf(ShortTexts, FALSE, TRUE)
  \cup FilesOf(Damaged, TRUE, FALSE)

\* The hypothesis of the theorems about files.
ASSUME KnownFilesAssumption ==
  \A f \in MCFiles : KnownFile(f, {t.lines : t \in ShortTexts})

\* A file of the first format that has more vertices than KnownFile allows one
\* that was damaged, and ends too early.
MCLongContent ==
  [size |-> 12, capacity |-> 9, x |-> [v \in 1 .. 12 |-> v], y |-> [v \in 1 .. 12 |-> v % 5],
   demand |-> [v \in 1 .. 12 |-> IF v = 1 THEN 0 ELSE v % 4]]

MCLongFiles ==
  {[exists |-> TRUE, lines |-> SubSeq(MCZk(MCLongContent), 1, n), newline |-> TRUE,
    intact |-> FALSE, content |-> MCLongContent] : n \in 9 .. 12}

\* Files cut short after a customer, without the end of the line.
MCCutFiles ==
  UNION {{[exists |-> TRUE, lines |-> SubSeq(t.lines, 1, n), newline |-> FALSE,
           intact |-> FALSE, content |-> t.content] : n \in 3 .. Len(t.lines) - 1} : t \in ShortTexts}
=============================================================================
