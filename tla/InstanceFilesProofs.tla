------------------------- MODULE InstanceFilesProofs -------------------------
(***************************************************************************)
(* What the three parsers make of a file, for files of any size and any    *)
(* number of them.                                                         *)
(*                                                                         *)
(* The invariant says, of the parser that runs, what it has taken from the *)
(* lines behind it: each line that was accepted held the numbers that are  *)
(* now in the fields.  When the parser returns, the lines that it read     *)
(* determine the content, and a line that was damaged would have been      *)
(* refused; an intact file is accepted line by line by its own parser and  *)
(* refused, early enough, by the ones before it.                           *)
(*                                                                         *)
(* The files are those of KnownFile: absent, intact in one of the formats, *)
(* or an original of one of the formats with one damage.                   *)
(***************************************************************************)
EXTENDS InstanceFiles, SubInstanceProofs

-----------------------------------------------------------------------------
(* Lines: what a conversion finds on them, and what damage does to that.   *)

LEMMA GivesNumbers ==
  ASSUME NEW l \in Seq(Tokens), NEW n \in Nat
  PROVE  Gives(l, n) <=> n <= Numbers(l)
<1>1. Len(l) \in Nat /\ Numbers(l) \in 0 .. Len(l) /\ \A i \in 1 .. Numbers(l) : l[i] \in Nat
  BY NumbersFacts
<1>2. Numbers(l) = Len(l) \/ l[Numbers(l) + 1] \notin Nat
  BY NumbersFacts
<1>3. ASSUME Gives(l, n), n > Numbers(l)
      PROVE  FALSE
  <2>1. Numbers(l) + 1 \in 1 .. n /\ Numbers(l) # Len(l)
    BY <1>1, <1>3 DEF Gives
  <2>2. QED
    BY <1>2, <1>3, <2>1 DEF Gives
<1>4. ASSUME n <= Numbers(l)
      PROVE  Gives(l, n)
  BY <1>1, <1>4 DEF Gives
<1>5. QED
  BY <1>1, <1>3, <1>4

\* What the part of a line after its first colon consists of.
LEMMA AfterColonTokens ==
  ASSUME NEW l \in Seq(Tokens)
  PROVE  \A i \in 1 .. Len(AfterColon(l)) : \E j \in 1 .. Len(l) : AfterColon(l)[i] = l[j]
<1>1. Len(l) \in Nat /\ DOMAIN l = 1 .. Len(l)
  OBVIOUS
<1>2. CASE \E i \in DOMAIN l : l[i] = Colon
  <2>1. PICK f \in 1 .. Len(l) : AfterColon(l) = SubSeq(l, f + 1, Len(l))
    BY <1>2, FirstColon
  <2>2. QED
    BY <1>1, <2>1
<1>3. CASE ~ \E i \in DOMAIN l : l[i] = Colon
  BY <1>1, <1>3 DEF AfterColon
<1>4. QED
  BY <1>2, <1>3

LEMMA NothingAfterColon ==
  ASSUME NEW l \in Seq(Tokens), NoNumber(l)
  PROVE  ~Gives(AfterColon(l), 1) /\ ~Gives(l, 1)
<1>1. AfterColon(l) \in Seq(Tokens)
  BY AfterColonType
<1>2. DOMAIN l = 1 .. Len(l)
  OBVIOUS
<1>3. ~Gives(l, 1)
  <2> SUFFICES ASSUME Gives(l, 1) PROVE FALSE
    OBVIOUS
  <2>1. 1 \in 1 .. Len(l) /\ l[1] \in Nat
    BY DEF Gives
  <2>2. QED
    BY <1>2, <2>1 DEF NoNumber
<1>4. ~Gives(AfterColon(l), 1)
  <2> SUFFICES ASSUME Gives(AfterColon(l), 1) PROVE FALSE
    OBVIOUS
  <2>1. 1 \in 1 .. Len(AfterColon(l)) /\ AfterColon(l)[1] \in Nat
    BY DEF Gives
  <2>2. PICK j \in 1 .. Len(l) : AfterColon(l)[1] = l[j]
    BY <2>1, AfterColonTokens
  <2>3. QED
    BY <1>2, <2>1, <2>2 DEF NoNumber
<1>5. QED
  BY <1>3, <1>4

LEMMA EmptyLine == <<>> \in Seq(Tokens) /\ NoNumber(<<>>)
BY DEF NoNumber

LEMMA MarksDiffer == Word # Colon /\ Word \notin Nat /\ Colon \notin Nat /\ Word \in Tokens /\ Colon \in Tokens
BY DEF Word, Colon, Tokens

\* The second colon of a line, if there is one, is part of what is converted.
LEMMA ColonAt ==
  ASSUME NEW l \in Seq(Tokens), NEW f \in 1 .. Len(l), l[f] = Colon,
         \A j \in 1 .. f - 1 : l[j] # Colon
  PROVE  AfterColon(l) = SubSeq(l, f + 1, Len(l))
<1>1. DOMAIN l = 1 .. Len(l)
  OBVIOUS
<1>2. \A g \in DOMAIN l : l[g] = Colon /\ (\A j \in 1 .. g - 1 : l[j] # Colon) => g = f
  <2> SUFFICES ASSUME NEW g \in 1 .. Len(l), l[g] = Colon, \A j \in 1 .. g - 1 : l[j] # Colon
               PROVE  g = f
    BY <1>1
  <2>1. ~(f \in 1 .. g - 1) /\ ~(g \in 1 .. f - 1)
    OBVIOUS
  <2>2. QED
    BY <2>1
<1>3. f = CHOOSE i \in DOMAIN l : l[i] = Colon /\ \A j \in 1 .. i - 1 : l[j] # Colon
  BY <1>1, <1>2
<1>4. \E i \in DOMAIN l : l[i] = Colon
  BY <1>1
<1>5. QED
  BY <1>3, <1>4 DEF AfterColon

LEMMA ColonSays ==
  ASSUME NEW l \in Seq(Tokens), NEW f \in 1 .. Len(l), l[f] = Colon,
         \A j \in 1 .. f - 1 : l[j] # Colon
  PROVE  /\ f < Len(l) /\ l[f + 1] \in Nat => Says(l, l[f + 1])
         /\ f < Len(l) /\ l[f + 1] \notin Nat => ~Gives(AfterColon(l), 1)
         /\ f = Len(l) => ~Gives(AfterColon(l), 1)
<1>1. AfterColon(l) = SubSeq(l, f + 1, Len(l))
  BY ColonAt
<1>2. Len(l) \in Nat /\ f + 1 \in Int /\ Len(l) \in Int /\ \A j \in f + 1 .. Len(l) : l[j] \in Tokens
  OBVIOUS
<1>3. /\ Len(AfterColon(l)) = IF f + 1 <= Len(l) THEN Len(l) - (f + 1) + 1 ELSE 0
      /\ \A i \in 1 .. Len(l) - (f + 1) + 1 : AfterColon(l)[i] = l[f + 1 + i - 1]
  BY <1>1, <1>2, SubSeqProperties
<1>4. ASSUME f < Len(l)
      PROVE  Len(AfterColon(l)) >= 1 /\ AfterColon(l)[1] = l[f + 1]
  BY <1>2, <1>3, <1>4
<1>5. \A i \in 1 .. 1 : i = 1
  OBVIOUS
<1>6. ASSUME f = Len(l) PROVE ~(Len(AfterColon(l)) >= 1)
  BY <1>2, <1>3, <1>6
<1>7. QED
  BY <1>4, <1>5, <1>6 DEF Says, Gives

\* What removing an element leaves.
LEMMA RemoveAtCells ==
  ASSUME NEW S, NEW s \in Seq(S), NEW i \in 1 .. Len(s)
  PROVE  /\ RemoveAt(s, i) \in Seq(S) /\ Len(RemoveAt(s, i)) = Len(s) - 1
         /\ \A k \in 1 .. Len(s) - 1 : RemoveAt(s, i)[k] = IF k < i THEN s[k] ELSE s[k + 1]
<1> DEFINE a == SubSeq(s, 1, i - 1)
           b == SubSeq(s, i + 1, Len(s))
<1>1. Len(s) \in Nat /\ \A j \in 1 .. Len(s) : s[j] \in S
  OBVIOUS
<1>2. a \in Seq(S) /\ Len(a) = i - 1 /\ \A k \in 1 .. i - 1 : a[k] = s[k]
  <2>1. \A j \in 1 .. i - 1 : s[j] \in S
    BY <1>1
  <2>2. i - 1 \in Int /\ 1 \in Int /\ (1 <= i - 1 \/ i - 1 = 0)
    BY <1>1
  <2>3. /\ a \in Seq(S) /\ Len(a) = IF 1 <= i - 1 THEN (i - 1) - 1 + 1 ELSE 0
        /\ \A k \in 1 .. (i - 1) - 1 + 1 : a[k] = s[1 + k - 1]
    BY <2>1, <2>2, SubSeqProperties
  <2> HIDE DEF a
  <2>4. QED
    BY <1>1, <2>2, <2>3
<1>3. b \in Seq(S) /\ Len(b) = Len(s) - i /\ \A k \in 1 .. Len(s) - i : b[k] = s[i + k]
  <2>1. \A j \in i + 1 .. Len(s) : s[j] \in S
    BY <1>1
  <2>2. i + 1 \in Int /\ Len(s) \in Int
    BY <1>1
  <2>3. /\ b \in Seq(S) /\ Len(b) = IF i + 1 <= Len(s) THEN Len(s) - (i + 1) + 1 ELSE 0
        /\ \A k \in 1 .. Len(s) - (i + 1) + 1 : b[k] = s[i + 1 + k - 1]
    BY <2>1, <2>2, SubSeqProperties
  <2> HIDE DEF b
  <2>4. b \in Seq(S) /\ Len(b) = Len(s) - i
    BY <1>1, <2>3
  <2>5. ASSUME NEW k \in 1 .. Len(s) - i PROVE b[k] = s[i + k]
    <3>1. k \in 1 .. Len(s) - (i + 1) + 1 /\ i + 1 + k - 1 = i + k
      BY <1>1
    <3>2. b[k] = s[i + 1 + k - 1]
      BY <2>3, <3>1
    <3>3. QED
      BY <3>1, <3>2
  <2>6. QED
    BY <2>4, <2>5
<1>4. RemoveAt(s, i) = a \o b
  BY DEF RemoveAt
<1> HIDE DEF a, b
<1>5. /\ a \o b \in Seq(S) /\ Len(a \o b) = Len(a) + Len(b)
      /\ \A k \in 1 .. Len(a) + Len(b) : (a \o b)[k] = IF k <= Len(a) THEN a[k] ELSE b[k - Len(a)]
  <2>1. a \in Seq(S) /\ b \in Seq(S)
    BY <1>2, <1>3
  <2>2. QED
    BY <2>1, ConcatProperties
<1>6. \A k \in 1 .. Len(s) - 1 : RemoveAt(s, i)[k] = IF k < i THEN s[k] ELSE s[k + 1]
  <2> SUFFICES ASSUME NEW k \in 1 .. Len(s) - 1
               PROVE  RemoveAt(s, i)[k] = IF k < i THEN s[k] ELSE s[k + 1]
    OBVIOUS
  <2>1. CASE k < i
    BY <1>1, <1>2, <1>3, <1>4, <1>5, <2>1
  <2>2. CASE ~(k < i)
    <3>1. k - (i - 1) \in 1 .. Len(s) - i /\ i + (k - (i - 1)) = k + 1
      BY <1>1, <2>2
    <3>2. (a \o b)[k] = b[k - (i - 1)]
      BY <1>1, <1>2, <1>3, <1>5, <2>2
    <3>3. QED
      BY <1>3, <1>4, <2>2, <3>1, <3>2
  <2>3. QED
    BY <2>1, <2>2
<1>7. QED
  BY <1>1, <1>2, <1>3, <1>4, <1>5, <1>6

-----------------------------------------------------------------------------
(* Damage to a line.                                                       *)

Hurt(l, h) == \E j \in 1 .. Len(l) : h = [l EXCEPT ![j] = Word] \/ h = RemoveAt(l, j)

LEMMA HurtLine ==
  ASSUME NEW l \in Seq(Tokens), NEW h, Hurt(l, h)
  PROVE  /\ h \in Seq(Tokens) /\ ~Gives(h, Len(l))
         /\ NoNumber(l) => NoNumber(h)
<1>1. PICK j \in 1 .. Len(l) : h = [l EXCEPT ![j] = Word] \/ h = RemoveAt(l, j)
  BY DEF Hurt
<1>2. Len(l) \in Nat /\ DOMAIN l = 1 .. Len(l)
  OBVIOUS
<1>3. CASE h = [l EXCEPT ![j] = Word]
  <2>1. h \in Seq(Tokens) /\ Len(h) = Len(l) /\ DOMAIN h = 1 .. Len(l)
    BY <1>2, <1>3, MarksDiffer
  <2>2. h[j] = Word /\ \A i \in 1 .. Len(l) : i # j => h[i] = l[i]
    BY <1>2, <1>3
  <2>3. ~Gives(h, Len(l))
    BY <2>2, MarksDiffer DEF Gives
  <2>4. NoNumber(l) => NoNumber(h)
    BY <1>2, <2>1, <2>2, MarksDiffer DEF NoNumber
  <2>5. QED
    BY <2>1, <2>3, <2>4
<1>4. CASE h = RemoveAt(l, j)
  <2>1. /\ h \in Seq(Tokens) /\ Len(h) = Len(l) - 1
        /\ \A k \in 1 .. Len(l) - 1 : h[k] = IF k < j THEN l[k] ELSE l[k + 1]
    BY <1>4, RemoveAtCells
  <2>2. ~Gives(h, Len(l))
    BY <1>2, <2>1 DEF Gives
  <2>3. NoNumber(l) => NoNumber(h)
    <3> SUFFICES ASSUME NoNumber(l), NEW k \in DOMAIN h PROVE h[k] \notin Nat
      BY DEF NoNumber
    <3>1. k \in 1 .. Len(l) - 1
      BY <2>1
    <3>2. k \in DOMAIN l /\ k + 1 \in DOMAIN l
      BY <1>2, <3>1
    <3>3. QED
      BY <2>1, <3>1, <3>2 DEF NoNumber
  <2>4. QED
    BY <2>1, <2>2, <2>3
<1>5. QED
  BY <1>1, <1>3, <1>4

\* A keyword line says what it said or nothing.
LEMMA HurtKey ==
  ASSUME NEW n \in Nat, NEW h, Hurt(<<Word, Colon, n>>, h)
  PROVE  Says(h, n) \/ ~Gives(AfterColon(h), 1)
<1> DEFINE l == <<Word, Colon, n>>
<1>1. n \in Tokens
  BY DEF Tokens
<1>2. l \in Seq(Tokens) /\ Len(l) = 3 /\ l[1] = Word /\ l[2] = Colon /\ l[3] = n
  BY <1>1, MarksDiffer
<1>3. PICK j \in 1 .. 3 : h = [l EXCEPT ![j] = Word] \/ h = RemoveAt(l, j)
  BY <1>2 DEF Hurt
<1>4. h \in Seq(Tokens)
  BY <1>2, HurtLine
<1> HIDE DEF l
<1>5. DOMAIN l = 1 .. 3
  BY <1>2
<1>6. ASSUME Len(h) = 3, h[1] # Colon, h[2] = Colon
      PROVE  (h[3] \in Nat => Says(h, h[3])) /\ (h[3] \notin Nat => ~Gives(AfterColon(h), 1))
  <2>1. 2 \in 1 .. Len(h) /\ 2 < Len(h) /\ \A i \in 1 .. 2 - 1 : h[i] # Colon
    BY <1>6
  <2>2. QED
    BY <1>4, <1>6, <2>1, ColonSays
<1>7. ASSUME h[1] \notin Nat, \A i \in 1 .. Len(h) : h[i] # Colon
      PROVE  ~Gives(AfterColon(h), 1)
  <2>1. AfterColon(h) = h
    BY <1>4, <1>7 DEF AfterColon
  <2>2. QED
    BY <1>7, <2>1 DEF Gives
<1>8. CASE h = [l EXCEPT ![j] = Word]
  <2>1. Len(h) = 3 /\ DOMAIN h = 1 .. 3
    BY <1>2, <1>5, <1>8
  <2>2. CASE j = 1
    <3>1. h[1] = Word /\ h[2] = Colon /\ h[3] = n
      BY <1>2, <1>5, <1>8, <2>2
    <3>2. QED
      BY <1>6, <2>1, <3>1, MarksDiffer
  <2>3. CASE j = 2
    <3>1. h[1] = Word /\ h[2] = Word /\ h[3] = n
      BY <1>2, <1>5, <1>8, <2>3
    <3>2. \A i \in 1 .. Len(h) : h[i] # Colon
      BY <2>1, <3>1, MarksDiffer DEF Colon
    <3>3. QED
      BY <1>7, <3>1, <3>2, MarksDiffer
  <2>4. CASE j = 3
    <3>1. h[1] = Word /\ h[2] = Colon /\ h[3] = Word
      BY <1>2, <1>5, <1>8, <2>4
    <3>2. QED
      BY <1>6, <2>1, <3>1, MarksDiffer
  <2>5. QED
    BY <2>2, <2>3, <2>4
<1>9. CASE h = RemoveAt(l, j)
  <2>1. /\ Len(h) = 2
        /\ h[1] = (IF 1 < j THEN l[1] ELSE l[2]) /\ h[2] = (IF 2 < j THEN l[2] ELSE l[3])
    <3>1. /\ Len(h) = Len(l) - 1
          /\ \A k \in 1 .. Len(l) - 1 : h[k] = IF k < j THEN l[k] ELSE l[k + 1]
      BY <1>2, <1>9, RemoveAtCells
    <3>2. QED
      BY <1>2, <3>1
  <2>2. CASE j = 1
    <3>1. h[1] = Colon /\ h[2] = n
      BY <1>2, <2>1, <2>2
    <3>2. 1 \in 1 .. Len(h) /\ 1 < Len(h) /\ \A i \in 1 .. 1 - 1 : h[i] # Colon
      BY <2>1
    <3>3. QED
      BY <1>4, <3>1, <3>2, ColonSays
  <2>3. CASE j = 2
    <3>1. h[1] = Word /\ h[2] = n
      BY <1>2, <2>1, <2>3
    <3>2. \A i \in 1 .. Len(h) : h[i] # Colon
      BY <2>1, <3>1, MarksDiffer DEF Colon
    <3>3. QED
      BY <1>7, <3>1, <3>2, MarksDiffer
  <2>4. CASE j = 3
    <3>1. h[1] = Word /\ h[2] = Colon
      BY <1>2, <2>1, <2>4
    <3>2. 2 \in 1 .. Len(h) /\ 2 = Len(h) /\ \A i \in 1 .. 2 - 1 : h[i] # Colon
      BY <2>1, <3>1, MarksDiffer
    <3>3. QED
      BY <1>4, <3>1, <3>2, ColonSays
  <2>5. QED
    BY <2>2, <2>3, <2>4
<1>10. QED
  BY <1>3, <1>8, <1>9

-----------------------------------------------------------------------------
(* Damage to a file.  A line that is not there is read as an empty one.    *)

LineAt(lines, k) == IF k <= Len(lines) THEN lines[k] ELSE <<>>

LEMMA LineAtType ==
  ASSUME NEW l \in Seq(Seq(Tokens)), NEW k \in Nat \ {0}
  PROVE  LineAt(l, k) \in Seq(Tokens)
<1> DEFINE S == Seq(Tokens)
<1>1. l \in Seq(S) /\ <<>> \in S
  BY EmptyLine
<1> HIDE DEF S
<1>2. LineAt(l, k) \in S
  BY <1>1 DEF LineAt
<1>3. QED
  BY <1>2 DEF S

OneHurt(l, m, i) ==
  /\ Len(m) = Len(l)
  /\ \E h : Hurt(l[i], h) /\ \A k \in Nat \ {0} : LineAt(m, k) = IF k = i THEN h ELSE LineAt(l, k)

OneMissing(l, m, i) ==
  /\ i > 1 \/ NoNumber(l[1])
  /\ \A k \in Nat \ {0} : LineAt(m, k) = LineAt(l, IF k < i THEN k ELSE k + 1)

CutAfter(l, m, n) == \A k \in Nat \ {0} : LineAt(m, k) = IF k <= n THEN LineAt(l, k) ELSE <<>>

LEMMA HurtAt ==
  ASSUME NEW l \in Seq(Seq(Tokens)), NEW i \in 1 .. Len(l), NEW h, Hurt(l[i], h)
  PROVE  OneHurt(l, [l EXCEPT ![i] = h], i)
<1> DEFINE S == Seq(Tokens)
           m == [l EXCEPT ![i] = h]
<1>1. l \in Seq(S)
  OBVIOUS
<1> HIDE DEF S
<1>2. Len(m) = Len(l) /\ Len(l) \in Nat /\ DOMAIN l = 1 .. Len(l)
  BY <1>1
<1>3. m[i] = h /\ \A k \in 1 .. Len(l) : k # i => m[k] = l[k]
  BY <1>2
<1> HIDE DEF m
<1>4. \A k \in Nat \ {0} : LineAt(m, k) = IF k = i THEN h ELSE LineAt(l, k)
  <2> SUFFICES ASSUME NEW k \in Nat \ {0}
               PROVE  LineAt(m, k) = IF k = i THEN h ELSE LineAt(l, k)
    OBVIOUS
  <2>1. CASE k <= Len(l)
    <3>1. LineAt(m, k) = m[k] /\ LineAt(l, k) = l[k] /\ k \in 1 .. Len(l)
      BY <1>2, <2>1 DEF LineAt
    <3>2. QED
      BY <1>3, <3>1
  <2>2. CASE ~(k <= Len(l))
    BY <1>2, <2>2 DEF LineAt
  <2>3. QED
    BY <2>1, <2>2
<1>5. QED
  BY <1>2, <1>4 DEF OneHurt, m

LEMMA MissingAt ==
  ASSUME NEW l \in Seq(Seq(Tokens)), NEW i \in 1 .. Len(l), i > 1 \/ NoNumber(l[1])
  PROVE  OneMissing(l, RemoveAt(l, i), i)
<1> DEFINE S == Seq(Tokens)
           m == RemoveAt(l, i)
<1>1. l \in Seq(S) /\ Len(l) \in Nat
  OBVIOUS
<1> HIDE DEF S
<1>2. Len(m) = Len(l) - 1 /\ \A k \in 1 .. Len(l) - 1 : m[k] = IF k < i THEN l[k] ELSE l[k + 1]
  BY <1>1, RemoveAtCells
<1> HIDE DEF m
<1>3. ASSUME NEW k \in Nat \ {0} PROVE LineAt(m, k) = LineAt(l, IF k < i THEN k ELSE k + 1)
  <2>1. CASE k <= Len(l) - 1
    <3>1. LineAt(m, k) = m[k] /\ k \in 1 .. Len(l) - 1
      BY <1>1, <1>2, <2>1 DEF LineAt
    <3>2. LineAt(l, k) = l[k] /\ LineAt(l, k + 1) = l[k + 1]
      BY <1>1, <2>1 DEF LineAt
    <3>3. QED
      BY <1>2, <3>1, <3>2
  <2>2. CASE ~(k <= Len(l) - 1)
    <3>1. LineAt(m, k) = <<>> /\ ~(k < i) /\ LineAt(l, k + 1) = <<>>
      BY <1>1, <1>2, <2>2 DEF LineAt
    <3>2. QED
      BY <3>1
  <2>3. QED
    BY <2>1, <2>2
<1>4. QED
  BY <1>3 DEF OneMissing, m

LEMMA CutAt ==
  ASSUME NEW l \in Seq(Seq(Tokens)), NEW n \in 0 .. Len(l) - 1
  PROVE  CutAfter(l, SubSeq(l, 1, n), n)
<1> DEFINE S == Seq(Tokens)
           m == SubSeq(l, 1, n)
<1>1. l \in Seq(S) /\ Len(l) \in Nat
  OBVIOUS
<1> HIDE DEF S
<1>2. Len(m) = n /\ \A k \in 1 .. n : m[k] = l[k]
  <2>1. \A j \in 1 .. n : l[j] \in S
    BY <1>1
  <2>2. n \in Int /\ 1 \in Int /\ (1 <= n \/ n = 0)
    BY <1>1
  <2>3. Len(m) = (IF 1 <= n THEN n - 1 + 1 ELSE 0) /\ \A k \in 1 .. n - 1 + 1 : m[k] = l[1 + k - 1]
    BY <2>1, <2>2, SubSeqProperties
  <2> HIDE DEF m
  <2>4. QED
    BY <2>2, <2>3
<1> HIDE DEF m
<1>3. \A k \in Nat \ {0} : LineAt(m, k) = IF k <= n THEN LineAt(l, k) ELSE <<>>
  BY <1>1, <1>2 DEF LineAt
<1>4. QED
  BY <1>3 DEF CutAfter, m

LEMMA DamageCases ==
  ASSUME NEW l \in Seq(Seq(Tokens)), NEW m \in Damages(l)
  PROVE  \/ \E i \in 1 .. Len(l) : OneHurt(l, m, i) \/ OneMissing(l, m, i)
         \/ \E n \in 0 .. Len(l) - 1 : CutAfter(l, m, n)
<1>1. DOMAIN l = 1 .. Len(l)
  OBVIOUS
<1>2. ASSUME NEW p \in Places(l)
      PROVE  p[1] \in 1 .. Len(l) /\ p[2] \in 1 .. Len(l[p[1]])
  <2>1. PICK i \in DOMAIN l : p \in {i} \X DOMAIN l[i]
    BY DEF Places
  <2>2. p[1] = i /\ p[2] \in DOMAIN l[i]
    BY <2>1
  <2>3. l[i] \in Seq(Tokens)
    OBVIOUS
  <2>4. DOMAIN l[i] = 1 .. Len(l[i])
    BY <2>3
  <2>5. QED
    BY <1>1, <2>2, <2>4
<1>3. ASSUME NEW p \in Places(l), m = [l EXCEPT ![p[1]] = [@ EXCEPT ![p[2]] = Word]]
      PROVE  \E i \in 1 .. Len(l) : OneHurt(l, m, i)
  <2> DEFINE h == [l[p[1]] EXCEPT ![p[2]] = Word]
  <2>1. Hurt(l[p[1]], h)
    BY <1>2 DEF Hurt
  <2>2. m = [l EXCEPT ![p[1]] = h]
    BY <1>3
  <2> HIDE DEF h
  <2>3. QED
    BY <1>2, <2>1, <2>2, HurtAt
<1>4. ASSUME NEW p \in Places(l), m = [l EXCEPT ![p[1]] = RemoveAt(@, p[2])]
      PROVE  \E i \in 1 .. Len(l) : OneHurt(l, m, i)
  <2> DEFINE h == RemoveAt(l[p[1]], p[2])
  <2>1. Hurt(l[p[1]], h)
    BY <1>2 DEF Hurt
  <2>2. m = [l EXCEPT ![p[1]] = h]
    BY <1>4
  <2> HIDE DEF h
  <2>3. QED
    BY <1>2, <2>1, <2>2, HurtAt
<1>5. ASSUME NEW i \in DOMAIN l, i > 1 \/ NoNumber(l[1]), m = RemoveAt(l, i)
      PROVE  OneMissing(l, m, i)
  BY <1>1, <1>5, MissingAt
<1>6. ASSUME NEW n \in 0 .. Len(l) - 1, m = SubSeq(l, 1, n)
      PROVE  CutAfter(l, m, n)
  BY <1>6, CutAt
<1>7. \/ \E p \in Places(l) : m = [l EXCEPT ![p[1]] = [@ EXCEPT ![p[2]] = Word]]
      \/ \E p \in Places(l) : m = [l EXCEPT ![p[1]] = RemoveAt(@, p[2])]
      \/ \E i \in DOMAIN l : (i > 1 \/ NoNumber(l[1])) /\ m = RemoveAt(l, i)
      \/ \E n \in 0 .. Len(l) - 1 : m = SubSeq(l, 1, n)
  BY DEF Damages
<1>8. QED
  BY <1>1, <1>3, <1>4, <1>5, <1>6, <1>7

-----------------------------------------------------------------------------
(* What a parser has taken from the lines before the p-th, as far as they  *)
(* exist or are read as empty ones.                                        *)

Known(f, k) == k <= Len(f.lines) \/ f.newline

PlaceTaken(l, x, y, v) == Gives(l, 3) /\ x[v] = l[2] /\ y[v] = l[3]

ZkRead(f, p, n, q, x, y, d) ==
  /\ 1 < p /\ Known(f, 1) =>
       Gives(LineAt(f.lines, 1), 2) /\ n = LineAt(f.lines, 1)[1] + 1 /\ q = LineAt(f.lines, 1)[2]
  /\ \A v \in 0 .. n - 1 : 2 + v < p /\ Known(f, 2 + v) =>
       /\ Gives(LineAt(f.lines, 2 + v), 4) /\ PlaceTaken(LineAt(f.lines, 2 + v), x, y, v)
       /\ d[v] = LineAt(f.lines, 2 + v)[4]

GoldenRead(f, p, n, q, x, y, d) ==
  /\ 4 < p /\ Known(f, 4) => Says(LineAt(f.lines, 4), n)
  /\ 5 < p /\ Known(f, 5) => Says(LineAt(f.lines, 5), q)
  /\ \A v \in 1 .. n - 1 : 10 + v < p /\ Known(f, 10 + v) =>
       PlaceTaken(LineAt(f.lines, 10 + v), x, y, v)
  /\ \A v \in 1 .. n - 1 : 10 + n + v < p /\ Known(f, 10 + n + v) =>
       Gives(LineAt(f.lines, 10 + n + v), 2) /\ d[v] = LineAt(f.lines, 10 + n + v)[2]
  /\ 11 + 2 * n < p /\ Known(f, 11 + 2 * n) =>
       /\ Gives(LineAt(f.lines, 11 + 2 * n), 2)
       /\ n > 0 => x[0] = LineAt(f.lines, 11 + 2 * n)[1] /\ y[0] = LineAt(f.lines, 11 + 2 * n)[2]

XRead(f, p, n, q, x, y, d) ==
  /\ 4 < p /\ Known(f, 4) => Says(LineAt(f.lines, 4), n)
  /\ 6 < p /\ Known(f, 6) => Says(LineAt(f.lines, 6), q)
  /\ \A v \in 0 .. n - 1 : 8 + v < p /\ Known(f, 8 + v) =>
       PlaceTaken(LineAt(f.lines, 8 + v), x, y, v)
  /\ \A v \in 0 .. n - 1 : 9 + n + v < p /\ Known(f, 9 + n + v) =>
       Gives(LineAt(f.lines, 9 + n + v), 2) /\ d[v] = LineAt(f.lines, 9 + n + v)[2]

(* The lines that a parser reads in a file of its own format.              *)

ZkHolds(m, c) ==
  /\ Gives(LineAt(m, 1), 2) /\ LineAt(m, 1)[1] = c.size - 1 /\ LineAt(m, 1)[2] = c.capacity
  /\ \A v \in 1 .. c.size : ZkCustomerLine(LineAt(m, 1 + v), c, v)

GoldenHolds(m, c) ==
  /\ Says(LineAt(m, 4), c.size) /\ Says(LineAt(m, 5), c.capacity)
  /\ \A v \in 2 .. c.size : PlaceLine(LineAt(m, 9 + v), c, v)
  /\ \A v \in 2 .. c.size : DemandLine(LineAt(m, 9 + c.size + v), c, v)
  /\ Gives(LineAt(m, 11 + 2 * c.size), 2)
  /\ LineAt(m, 11 + 2 * c.size)[1] = c.x[1] /\ LineAt(m, 11 + 2 * c.size)[2] = c.y[1]

XHolds(m, c) ==
  /\ Says(LineAt(m, 4), c.size) /\ Says(LineAt(m, 6), c.capacity)
  /\ \A v \in 1 .. c.size : PlaceLine(LineAt(m, 7 + v), c, v)
  /\ \A v \in 1 .. c.size : DemandLine(LineAt(m, 8 + c.size + v), c, v)

Contents == [size : Nat, capacity : Nat, x : Seq(Nat), y : Seq(Nat), demand : Seq(Nat)]

\* HoldsContent
Fits(c, n, q, x, y, d) ==
  /\ n = c.size /\ q = c.capacity
  /\ \A v \in AllVertices(c.size) :
       x[v] = c.x[v + 1] /\ y[v] = c.y[v + 1] /\ (v # 0 => d[v] = c.demand[v + 1])

LEMMA SaysOne == ASSUME NEW l, NEW a, NEW b, Says(l, a), Says(l, b) PROVE a = b
BY DEF Says

LEMMA ZkFits ==
  ASSUME NEW f, NEW p \in Nat, NEW n \in Nat, NEW q, NEW x, NEW y, NEW d, NEW c \in Contents,
         \A k \in 1 .. c.size + 1 : Known(f, k), c.size > 0,
         ZkHolds(f.lines, c), ZkRead(f, p, n, q, x, y, d), p > n + 1
  PROVE  Fits(c, n, q, x, y, d)
<1>0. c.size \in Nat
  BY DEF Contents
<1>1. n = LineAt(f.lines, 1)[1] + 1 /\ q = LineAt(f.lines, 1)[2]
  <2>1. 1 < p /\ Known(f, 1)
    BY <1>0
  <2>2. QED
    BY <2>1 DEF ZkRead
<1>2. n = c.size /\ q = c.capacity
  BY <1>0, <1>1 DEF ZkHolds
<1>3. ASSUME NEW v \in AllVertices(c.size)
      PROVE  x[v] = c.x[v + 1] /\ y[v] = c.y[v + 1] /\ (v # 0 => d[v] = c.demand[v + 1])
  <2>1. v \in 0 .. n - 1 /\ v + 1 \in 1 .. c.size /\ 1 + (v + 1) = 2 + v
    BY <1>0, <1>2 DEF AllVertices
  <2>2. 2 + v < p /\ Known(f, 2 + v)
    BY <1>0, <1>2, <2>1
  <2>3. PlaceTaken(LineAt(f.lines, 2 + v), x, y, v) /\ d[v] = LineAt(f.lines, 2 + v)[4]
    BY <2>1, <2>2 DEF ZkRead
  <2>4. ZkCustomerLine(LineAt(f.lines, 2 + v), c, v + 1)
    BY <2>1 DEF ZkHolds
  <2>5. v # 0 => v + 1 # 1
    BY <2>1
  <2>6. QED
    BY <2>3, <2>4, <2>5 DEF PlaceTaken, ZkCustomerLine, PlaceLine
<1>4. QED
  BY <1>2, <1>3 DEF Fits

LEMMA GoldenFits ==
  ASSUME NEW f, NEW p \in Nat, NEW n \in Nat, NEW q, NEW x, NEW y, NEW d, NEW c \in Contents,
         \A k \in 1 .. 11 + 2 * c.size : Known(f, k), c.size > 0,
         GoldenHolds(f.lines, c), GoldenRead(f, p, n, q, x, y, d), p > 11 + 2 * n
  PROVE  Fits(c, n, q, x, y, d)
<1>0. c.size \in Nat
  BY DEF Contents
<1>1. n = c.size /\ q = c.capacity
  <2>1. 4 < p /\ 5 < p /\ Known(f, 4) /\ Known(f, 5)
    BY <1>0
  <2>2. Says(LineAt(f.lines, 4), n) /\ Says(LineAt(f.lines, 5), q)
    BY <2>1 DEF GoldenRead
  <2>3. Says(LineAt(f.lines, 4), c.size) /\ Says(LineAt(f.lines, 5), c.capacity)
    BY DEF GoldenHolds
  <2>4. QED
    BY <2>2, <2>3, SaysOne
<1>2. ASSUME NEW v \in 1 .. n - 1
      PROVE  x[v] = c.x[v + 1] /\ y[v] = c.y[v + 1] /\ d[v] = c.demand[v + 1]
  <2>1. /\ v + 1 \in 2 .. c.size /\ 9 + (v + 1) = 10 + v /\ 9 + c.size + (v + 1) = 10 + n + v
        /\ v + 1 # 1
    BY <1>0, <1>1
  <2>2. 10 + v < p /\ Known(f, 10 + v) /\ 10 + n + v < p /\ Known(f, 10 + n + v)
    BY <1>0, <1>1
  <2>3. PlaceTaken(LineAt(f.lines, 10 + v), x, y, v) /\ d[v] = LineAt(f.lines, 10 + n + v)[2]
    BY <2>2 DEF GoldenRead
  <2>4. PlaceLine(LineAt(f.lines, 10 + v), c, v + 1)
    BY <2>1 DEF GoldenHolds
  <2>5. DemandLine(LineAt(f.lines, 10 + n + v), c, v + 1)
    BY <2>1 DEF GoldenHolds
  <2>6. QED
    BY <2>1, <2>3, <2>4, <2>5 DEF PlaceTaken, PlaceLine, DemandLine
<1>3. x[0] = c.x[1] /\ y[0] = c.y[1]
  <2>1. 11 + 2 * n < p /\ Known(f, 11 + 2 * n) /\ n > 0
    BY <1>0, <1>1
  <2>2. x[0] = LineAt(f.lines, 11 + 2 * n)[1] /\ y[0] = LineAt(f.lines, 11 + 2 * n)[2]
    BY <2>1 DEF GoldenRead
  <2>3. QED
    BY <1>1, <2>2 DEF GoldenHolds
<1>4. ASSUME NEW v \in AllVertices(c.size)
      PROVE  x[v] = c.x[v + 1] /\ y[v] = c.y[v + 1] /\ (v # 0 => d[v] = c.demand[v + 1])
  <2>1. v = 0 \/ v \in 1 .. n - 1
    BY <1>0, <1>1 DEF AllVertices
  <2>2. 0 + 1 = 1
    OBVIOUS
  <2>3. QED
    BY <1>2, <1>3, <2>1, <2>2
<1>5. QED
  BY <1>1, <1>4 DEF Fits

LEMMA XFits ==
  ASSUME NEW f, NEW p \in Nat, NEW n \in Nat, NEW q, NEW x, NEW y, NEW d, NEW c \in Contents,
         \A k \in 1 .. 8 + 2 * c.size : Known(f, k), c.size > 0,
         XHolds(f.lines, c), XRead(f, p, n, q, x, y, d), p > 8 + 2 * n
  PROVE  Fits(c, n, q, x, y, d)
<1>0. c.size \in Nat
  BY DEF Contents
<1>1. n = c.size /\ q = c.capacity
  <2>1. 4 < p /\ Known(f, 4)
    BY <1>0
  <2>2. Says(LineAt(f.lines, 4), n)
    BY <2>1 DEF XRead
  <2>3. Says(LineAt(f.lines, 4), c.size) /\ Says(LineAt(f.lines, 6), c.capacity)
    BY DEF XHolds
  <2>4. n = c.size
    BY <2>2, <2>3, SaysOne
  <2>5. 6 < p /\ Known(f, 6)
    BY <1>0, <2>4
  <2>6. Says(LineAt(f.lines, 6), q)
    BY <2>5 DEF XRead
  <2>7. QED
    BY <2>3, <2>4, <2>6, SaysOne
<1>2. ASSUME NEW v \in AllVertices(c.size)
      PROVE  x[v] = c.x[v + 1] /\ y[v] = c.y[v + 1] /\ (v # 0 => d[v] = c.demand[v + 1])
  <2>1. /\ v \in 0 .. n - 1 /\ v + 1 \in 1 .. c.size
        /\ 7 + (v + 1) = 8 + v /\ 8 + c.size + (v + 1) = 9 + n + v
        /\ v # 0 => v + 1 # 1
    BY <1>0, <1>1 DEF AllVertices
  <2>2. 8 + v < p /\ Known(f, 8 + v) /\ 9 + n + v < p /\ Known(f, 9 + n + v)
    BY <1>0, <1>1, <2>1
  <2>3. PlaceTaken(LineAt(f.lines, 8 + v), x, y, v) /\ d[v] = LineAt(f.lines, 9 + n + v)[2]
    BY <2>1, <2>2 DEF XRead
  <2>4. PlaceLine(LineAt(f.lines, 8 + v), c, v + 1)
    BY <2>1 DEF XHolds
  <2>5. DemandLine(LineAt(f.lines, 9 + n + v), c, v + 1)
    BY <2>1 DEF XHolds
  <2>6. QED
    BY <2>1, <2>3, <2>4, <2>5 DEF PlaceTaken, PlaceLine, DemandLine
<1>3. QED
  BY <1>1, <1>2 DEF Fits

LEMMA Within ==
  ASSUME NEW s \in Nat, NEW e \in Nat, NEW v \in 1 .. s
  PROVE  /\ e >= 11 + 2 * s => 9 + v \in 1 .. e /\ 9 + s + v \in 1 .. e
         /\ e >= 8 + 2 * s => 7 + v \in 1 .. e /\ 8 + s + v \in 1 .. e
OBVIOUS

LEMMA TextHolds ==
  ASSUME NEW l \in Seq(Seq(Tokens)), NEW c \in Contents
  PROVE  /\ ZkText(l, c) => ZkHolds(l, c)
         /\ GoldenText(l, c) => GoldenHolds(l, c)
         /\ XText(l, c) => XHolds(l, c)
<1>0. c.size \in Nat
  BY DEF Contents
<1>1. Len(l) \in Nat /\ \A k \in 1 .. Len(l) : LineAt(l, k) = l[k]
  BY DEF LineAt
<1>2. ASSUME ZkText(l, c) PROVE ZkHolds(l, c)
  <2>1. Len(l) >= c.size + 1
    BY <1>2 DEF ZkText
  <2>2. 1 \in 1 .. Len(l) /\ \A v \in 1 .. c.size : 1 + v \in 1 .. Len(l)
    BY <1>0, <1>1, <2>1
  <2>3. LineAt(l, 1) = l[1] /\ \A v \in 1 .. c.size : LineAt(l, 1 + v) = l[1 + v]
    BY <1>1, <2>2
  <2>4. QED
    BY <1>2, <2>3 DEF ZkText, ZkHolds
<1>3. ASSUME GoldenText(l, c) PROVE GoldenHolds(l, c)
  <2>0. Len(l) >= 11 + 2 * c.size
    BY <1>3 DEF GoldenText
  <2>1. LineAt(l, 4) = l[4] /\ LineAt(l, 5) = l[5] /\ LineAt(l, 11 + 2 * c.size) = l[11 + 2 * c.size]
    BY <1>0, <1>1, <2>0
  <2>2. \A v \in 2 .. c.size : LineAt(l, 9 + v) = l[9 + v] /\ LineAt(l, 9 + c.size + v) = l[9 + c.size + v]
    <3> SUFFICES ASSUME NEW v \in 2 .. c.size
                 PROVE  LineAt(l, 9 + v) = l[9 + v] /\ LineAt(l, 9 + c.size + v) = l[9 + c.size + v]
      OBVIOUS
    <3>1. 9 + v \in 1 .. Len(l) /\ 9 + c.size + v \in 1 .. Len(l)
      <4>1. v \in 1 .. c.size
        BY <1>0
      <4>2. QED
        BY <1>0, <1>1, <2>0, <4>1, Within
    <3>2. QED
      BY <1>1, <3>1
  <2>3. QED
    BY <1>3, <2>1, <2>2 DEF GoldenText, GoldenHolds
<1>4. ASSUME XText(l, c) PROVE XHolds(l, c)
  <2>0. Len(l) >= 8 + 2 * c.size
    BY <1>4 DEF XText
  <2>1. LineAt(l, 4) = l[4] /\ LineAt(l, 6) = l[6]
    <3>1. 4 \in 1 .. Len(l) /\ 6 \in 1 .. Len(l)
      BY <1>0, <1>1, <2>0
    <3>2. QED
      BY <1>1, <3>1
  <2>2. \A v \in 1 .. c.size : LineAt(l, 7 + v) = l[7 + v] /\ LineAt(l, 8 + c.size + v) = l[8 + c.size + v]
    <3> SUFFICES ASSUME NEW v \in 1 .. c.size
                 PROVE  LineAt(l, 7 + v) = l[7 + v] /\ LineAt(l, 8 + c.size + v) = l[8 + c.size + v]
      OBVIOUS
    <3>1. 7 + v \in 1 .. Len(l) /\ 8 + c.size + v \in 1 .. Len(l)
      BY <1>0, <1>1, <2>0, Within
    <3>2. QED
      BY <1>1, <3>1
  <2>3. QED
    BY <1>4, <2>1, <2>2 DEF XText, XHolds
<1>5. QED
  BY <1>2, <1>3, <1>4

LEMMA NothingGiven ==
  ~Gives(<<>>, 1) /\ ~Gives(<<>>, 2) /\ ~Gives(<<>>, 3) /\ ~Gives(<<>>, 4) /\ ~Gives(AfterColon(<<>>), 1)
<1>1. ~Gives(AfterColon(<<>>), 1)
  BY EmptyLine, NothingAfterColon
<1>2. QED
  BY <1>1 DEF Gives

LEMMA DamagedEnd ==
  ASSUME NEW l \in Seq(Seq(Tokens)), NEW m \in Damages(l), NEW k \in Nat, k > Len(l)
  PROVE  LineAt(m, k) = <<>>
<1>1. Len(l) \in Nat /\ k \in Nat \ {0} /\ LineAt(l, k) = <<>> /\ LineAt(l, k + 1) = <<>>
  BY DEF LineAt
<1>2. ASSUME NEW i \in 1 .. Len(l), OneHurt(l, m, i) PROVE LineAt(m, k) = <<>>
  <2>1. k # i
    BY <1>1
  <2>2. QED
    BY <1>1, <1>2, <2>1 DEF OneHurt
<1>3. ASSUME NEW i \in 1 .. Len(l), OneMissing(l, m, i) PROVE LineAt(m, k) = <<>>
  <2>1. ~(k < i)
    BY <1>1
  <2>2. QED
    BY <1>1, <1>3, <2>1 DEF OneMissing
<1>4. ASSUME NEW n \in 0 .. Len(l) - 1, CutAfter(l, m, n) PROVE LineAt(m, k) = <<>>
  BY <1>1, <1>4 DEF CutAfter
<1>5. QED
  BY <1>2, <1>3, <1>4, DamageCases

-----------------------------------------------------------------------------
(* A damaged file of the first format is refused by all.                   *)

LEMMA ZkDamagedZk ==
  ASSUME NEW f, NEW p \in Nat, NEW n \in Nat, NEW q, NEW x, NEW y, NEW d, NEW c \in Contents,
         NEW l \in Seq(Seq(Tokens)), PlainZk(l, c), f.lines \in Damages(l), f.newline,
         ZkRead(f, p, n, q, x, y, d), p > n + 1
  PROVE  FALSE
<1> DEFINE m == f.lines
<1>0. c.size \in Nat /\ c.size > 0 /\ Len(l) = c.size + 1 /\ Len(l[1]) = 2
  BY DEF Contents, PlainZk, ZkText
<1>1. Gives(l[1], 2) /\ l[1][1] = c.size - 1 /\ l[1][2] = c.capacity /\ LineAt(l, 1) = l[1]
  BY <1>0 DEF PlainZk, ZkText, LineAt
<1>2. Gives(LineAt(m, 1), 2) /\ n = LineAt(m, 1)[1] + 1
  <2>1. 1 < p /\ Known(f, 1)
    BY DEF Known
  <2>2. QED
    BY <2>1 DEF ZkRead
<1>3. \A v \in 0 .. n - 1 : Gives(LineAt(m, 2 + v), 4)
  <2> SUFFICES ASSUME NEW v \in 0 .. n - 1 PROVE Gives(LineAt(m, 2 + v), 4)
    OBVIOUS
  <2>1. 2 + v < p /\ Known(f, 2 + v)
    BY DEF Known
  <2>2. QED
    BY <2>1 DEF ZkRead
<1> HIDE DEF m
<1>4. ASSUME LineAt(m, 1) = LineAt(l, 1) PROVE n = c.size /\ Gives(LineAt(m, 1 + c.size), 4)
  <2>1. n = c.size
    BY <1>0, <1>1, <1>2, <1>4
  <2>2. n - 1 \in 0 .. n - 1 /\ 2 + (n - 1) = 1 + c.size
    BY <1>0, <2>1
  <2>3. QED
    BY <1>3, <2>1, <2>2
<1>5. ASSUME NEW i \in 1 .. Len(l), OneHurt(l, m, i) PROVE FALSE
  <2>1. PICK h : Hurt(l[i], h) /\ \A k \in Nat \ {0} : LineAt(m, k) = IF k = i THEN h ELSE LineAt(l, k)
    BY <1>5 DEF OneHurt
  <2>2. LineAt(m, i) = h
    BY <2>1
  <2>3. l[i] \in Seq(Tokens)
    OBVIOUS
  <2>4. ~Gives(h, Len(l[i]))
    BY <2>1, <2>3, HurtLine
  <2>5. CASE i = 1
    BY <1>0, <1>2, <2>2, <2>4, <2>5
  <2>6. CASE i # 1
    <3>1. LineAt(m, 1) = LineAt(l, 1)
      BY <2>1, <2>6
    <3>2. i - 1 \in 1 .. c.size /\ 1 + (i - 1) = i /\ i - 2 \in 0 .. c.size - 1 /\ 2 + (i - 2) = i
      BY <1>0, <2>6
    <3>3. Len(l[i]) = 4
      BY <3>2 DEF PlainZk
    <3>4. Gives(LineAt(m, i), 4)
      BY <1>3, <1>4, <3>1, <3>2
    <3>5. QED
      BY <2>2, <2>4, <3>3, <3>4
  <2>7. QED
    BY <2>5, <2>6
<1>6. ASSUME NEW i \in 1 .. Len(l), OneMissing(l, m, i) PROVE FALSE
  <2>1. i > 1
    <3>1. 1 \in DOMAIN l[1] /\ l[1][1] \in Nat
      BY <1>0, <1>1 DEF Gives
    <3>2. QED
      BY <1>6, <3>1 DEF OneMissing, NoNumber
  <2>2. LineAt(m, 1) = LineAt(l, 1)
    BY <1>6, <2>1 DEF OneMissing
  <2>3. LineAt(m, 1 + c.size) = LineAt(l, 1 + c.size + 1)
    <3>1. 1 + c.size \in Nat \ {0} /\ ~(1 + c.size < i)
      BY <1>0
    <3>2. QED
      BY <1>6, <3>1 DEF OneMissing
  <2>4. LineAt(l, 1 + c.size + 1) = <<>>
    BY <1>0 DEF LineAt
  <2>5. QED
    BY <1>4, <2>2, <2>3, <2>4, NothingGiven
<1>7. ASSUME NEW k \in 0 .. Len(l) - 1, CutAfter(l, m, k) PROVE FALSE
  <2>1. CASE k = 0
    <3>1. LineAt(m, 1) = <<>>
      BY <1>7, <2>1 DEF CutAfter
    <3>2. QED
      BY <1>2, <3>1, NothingGiven
  <2>2. CASE k # 0
    <3>1. LineAt(m, 1) = LineAt(l, 1)
      BY <1>7, <2>2 DEF CutAfter
    <3>2. 1 + c.size \in Nat \ {0} /\ ~(1 + c.size <= k)
      <4>1. k \in 0 .. c.size + 1 - 1
        BY <1>0
      <4>2. QED
        BY <1>0, <4>1
    <3>3. LineAt(m, 1 + c.size) = <<>>
      BY <1>7, <3>2 DEF CutAfter
    <3>4. QED
      BY <1>4, <3>1, <3>3, NothingGiven
  <2>3. QED
    BY <2>1, <2>2
<1>8. QED
  BY <1>5, <1>6, <1>7, DamageCases DEF m

LEMMA ZkDamagedOthers ==
  ASSUME NEW f, NEW p \in Nat, NEW n \in Nat, NEW q, NEW x, NEW y, NEW d, NEW c \in Contents,
         NEW l \in Seq(Seq(Tokens)), PlainZk(l, c), f.lines \in Damages(l), f.newline
  PROVE  /\ ~(GoldenRead(f, p, n, q, x, y, d) /\ p > 11 + 2 * n)
         /\ ~(XRead(f, p, n, q, x, y, d) /\ p > 8 + 2 * n)
<1> DEFINE m == f.lines
<1>1. \A k \in Nat : Known(f, k)
  BY DEF Known
<1>2. ASSUME NEW k \in Nat, k > 5 PROVE LineAt(m, k) = <<>>
  <2>1. k > Len(l)
    BY <1>2 DEF PlainZk, Contents
  <2>2. QED
    BY <2>1, DamagedEnd
<1> HIDE DEF m
<1>3. ASSUME GoldenRead(f, p, n, q, x, y, d), p > 11 + 2 * n PROVE FALSE
  <2>1. 11 + 2 * n \in Nat /\ 11 + 2 * n > 5
    OBVIOUS
  <2>2. Gives(LineAt(m, 11 + 2 * n), 2)
    BY <1>1, <1>3, <2>1 DEF GoldenRead, m
  <2>3. QED
    BY <1>2, <2>1, <2>2, NothingGiven
<1>4. ASSUME XRead(f, p, n, q, x, y, d), p > 8 + 2 * n PROVE FALSE
  <2>1. 6 \in Nat /\ 6 > 5 /\ 6 < p
    BY <1>4
  <2>2. \E a : Says(LineAt(m, 6), a)
    BY <1>1, <1>4, <2>1 DEF XRead, m
  <2>3. QED
    BY <1>2, <2>1, <2>2, NothingGiven DEF Says
<1>5. QED
  BY <1>3, <1>4

-----------------------------------------------------------------------------
(* What damage leaves of a line.                                           *)

LEMMA FewerGiven == ASSUME NEW l, ~Gives(l, 1) PROVE ~Gives(l, 2) /\ ~Gives(l, 3) /\ ~Gives(l, 4)
BY DEF Gives

LEMMA StaysBlank ==
  ASSUME NEW l \in Seq(Seq(Tokens)), NEW m \in Damages(l), NEW k \in Nat \ {0},
         NoNumber(LineAt(l, k)), NoNumber(LineAt(l, k + 1))
  PROVE  ~Gives(LineAt(m, k), 2) /\ ~Gives(AfterColon(LineAt(m, k)), 1)
<1>1. LineAt(l, k) \in Seq(Tokens) /\ LineAt(l, k + 1) \in Seq(Tokens)
  BY LineAtType
<1>2. ASSUME NEW i \in 1 .. Len(l), OneHurt(l, m, i)
      PROVE  LineAt(m, k) \in Seq(Tokens) /\ NoNumber(LineAt(m, k))
  <2>1. PICK h : Hurt(l[i], h) /\ \A j \in Nat \ {0} : LineAt(m, j) = IF j = i THEN h ELSE LineAt(l, j)
    BY <1>2 DEF OneHurt
  <2>2. CASE k # i
    BY <1>1, <2>1, <2>2
  <2>3. CASE k = i
    <3>1. LineAt(m, k) = h /\ LineAt(l, k) = l[i]
      BY <2>1, <2>3 DEF LineAt
    <3>2. QED
      BY <1>1, <2>1, <3>1, HurtLine
  <2>4. QED
    BY <2>2, <2>3
<1>3. ASSUME NEW i \in 1 .. Len(l), OneMissing(l, m, i)
      PROVE  LineAt(m, k) \in Seq(Tokens) /\ NoNumber(LineAt(m, k))
  BY <1>1, <1>3 DEF OneMissing
<1>4. ASSUME NEW n \in 0 .. Len(l) - 1, CutAfter(l, m, n)
      PROVE  LineAt(m, k) \in Seq(Tokens) /\ NoNumber(LineAt(m, k))
  BY <1>1, <1>4, EmptyLine DEF CutAfter
<1>5. LineAt(m, k) \in Seq(Tokens) /\ NoNumber(LineAt(m, k))
  BY <1>2, <1>3, <1>4, DamageCases
<1>6. QED
  BY <1>5, NothingAfterColon, FewerGiven

\* A line that still gives all the numbers it had is the line it was.
LEMMA Unhurt ==
  ASSUME NEW l \in Seq(Seq(Tokens)), NEW m, NEW i \in 1 .. Len(l), OneHurt(l, m, i),
         NEW k \in 1 .. Len(l), Gives(LineAt(m, k), Len(l[k]))
  PROVE  LineAt(m, k) = LineAt(l, k)
<1>1. PICK h : Hurt(l[i], h) /\ \A j \in Nat \ {0} : LineAt(m, j) = IF j = i THEN h ELSE LineAt(l, j)
  BY DEF OneHurt
<1>2. k \in Nat \ {0}
  OBVIOUS
<1>3. CASE k = i
  <2>1. LineAt(m, k) = h
    BY <1>1, <1>2, <1>3
  <2>2. l[i] \in Seq(Tokens)
    OBVIOUS
  <2>3. ~Gives(h, Len(l[i]))
    BY <1>1, <2>2, HurtLine
  <2>4. QED
    BY <1>3, <2>1, <2>3
<1>4. CASE k # i
  BY <1>1, <1>2, <1>4
<1>5. QED
  BY <1>3, <1>4

LEMMA KeyUnhurt ==
  ASSUME NEW l \in Seq(Seq(Tokens)), NEW m, NEW i \in 1 .. Len(l), OneHurt(l, m, i),
         NEW k \in 1 .. Len(l), NEW n \in Nat, l[k] = <<Word, Colon, n>>, Says(LineAt(l, k), n),
         Gives(AfterColon(LineAt(m, k)), 1)
  PROVE  Says(LineAt(m, k), n)
<1>1. PICK h : Hurt(l[i], h) /\ \A j \in Nat \ {0} : LineAt(m, j) = IF j = i THEN h ELSE LineAt(l, j)
  BY DEF OneHurt
<1>2. k \in Nat \ {0}
  OBVIOUS
<1>3. CASE k = i
  <2>1. LineAt(m, k) = h /\ Hurt(<<Word, Colon, n>>, h)
    BY <1>1, <1>2, <1>3
  <2>2. QED
    BY <2>1, HurtKey
<1>4. CASE k # i
  BY <1>1, <1>2, <1>4
<1>5. QED
  BY <1>3, <1>4

-----------------------------------------------------------------------------
(* A damaged golden file.                                                  *)

LEMMA GoldenBlank ==
  ASSUME NEW c \in Contents, NEW l \in Seq(Seq(Tokens)), PlainGolden(l, c)
  PROVE  /\ \A k \in (1 .. 3) \cup (6 .. 10) : NoNumber(LineAt(l, k))
         /\ NoNumber(LineAt(l, 12 + 2 * c.size))
<1>0. PICK s \in Nat : c.size = s /\ Len(l) \in Nat /\ Len(l) >= 11 + 2 * s
  BY DEF Contents, PlainGolden, GoldenText
<1>1. \A k \in (1 .. 3) \cup (6 .. 10) : NoNumber(LineAt(l, k))
  <2>1. ASSUME NEW k \in (1 .. 3) \cup (6 .. 10) PROVE NoNumber(LineAt(l, k))
    <3>1. NoNumber(l[k])
      BY DEF PlainGolden
    <3>2. k <= Len(l)
      BY <1>0
    <3>3. QED
      BY <3>1, <3>2 DEF LineAt
  <2>2. QED
    BY <2>1
<1>2. CASE 12 + 2 * s <= Len(l)
  <2>1. 12 + 2 * s \in 12 + 2 * c.size .. Len(l)
    BY <1>0, <1>2
  <2>2. NoNumber(l[12 + 2 * s])
    BY <2>1 DEF PlainGolden
  <2>3. QED
    BY <1>0, <1>1, <1>2, <2>2 DEF LineAt
<1>3. CASE ~(12 + 2 * s <= Len(l))
  BY <1>0, <1>1, <1>3, EmptyLine DEF LineAt
<1>4. QED
  BY <1>2, <1>3

LEMMA GoldenDamagedOthers ==
  ASSUME NEW f, NEW p \in Nat, NEW n \in Nat, NEW q, NEW x, NEW y, NEW d, NEW c \in Contents,
         NEW l \in Seq(Seq(Tokens)), PlainGolden(l, c), f.lines \in Damages(l), f.newline
  PROVE  /\ ~(ZkRead(f, p, n, q, x, y, d) /\ p > n + 1)
         /\ ~(XRead(f, p, n, q, x, y, d) /\ p > 8 + 2 * n)
<1> DEFINE m == f.lines
<1>1. \A k \in Nat : Known(f, k)
  BY DEF Known
<1>2. ~Gives(LineAt(m, 1), 2) /\ ~Gives(AfterColon(LineAt(m, 6)), 1)
  <2>1. NoNumber(LineAt(l, 1)) /\ NoNumber(LineAt(l, 1 + 1))
        /\ NoNumber(LineAt(l, 6)) /\ NoNumber(LineAt(l, 6 + 1))
    BY GoldenBlank
  <2>2. QED
    BY <2>1, StaysBlank
<1> HIDE DEF m
<1>3. ASSUME ZkRead(f, p, n, q, x, y, d), p > n + 1 PROVE FALSE
  BY <1>1, <1>2, <1>3 DEF ZkRead, m
<1>4. ASSUME XRead(f, p, n, q, x, y, d), p > 8 + 2 * n PROVE FALSE
  BY <1>1, <1>2, <1>4 DEF XRead, Says, m
<1>5. QED
  BY <1>3, <1>4

LEMMA GoldenSame ==
  ASSUME NEW c \in Contents, c.size > 0, NEW l, NEW m, GoldenHolds(l, c),
         \A k \in 1 .. 11 + 2 * c.size : LineAt(m, k) = LineAt(l, k)
  PROVE  GoldenHolds(m, c)
<1>0. PICK s \in Nat : c.size = s /\ s > 0
  BY DEF Contents
<1>1. /\ LineAt(m, 4) = LineAt(l, 4) /\ LineAt(m, 5) = LineAt(l, 5)
      /\ LineAt(m, 11 + 2 * s) = LineAt(l, 11 + 2 * s)
  BY <1>0
<1>2. \A v \in 2 .. s : LineAt(m, 9 + v) = LineAt(l, 9 + v) /\ LineAt(m, 9 + s + v) = LineAt(l, 9 + s + v)
  <2> SUFFICES ASSUME NEW v \in 2 .. s
               PROVE  LineAt(m, 9 + v) = LineAt(l, 9 + v) /\ LineAt(m, 9 + s + v) = LineAt(l, 9 + s + v)
    OBVIOUS
  <2>1. 9 + v \in 1 .. 11 + 2 * s /\ 9 + s + v \in 1 .. 11 + 2 * s
    OBVIOUS
  <2>2. QED
    BY <1>0, <2>1
<1>3. QED
  BY <1>0, <1>1, <1>2 DEF GoldenHolds

LEMMA GoldenDamaged ==
  ASSUME NEW f, NEW p \in Nat, NEW n \in Nat, NEW q, NEW x, NEW y, NEW d, NEW c \in Contents,
         NEW l \in Seq(Seq(Tokens)), PlainGolden(l, c), f.lines \in Damages(l), f.newline,
         GoldenRead(f, p, n, q, x, y, d), p > 11 + 2 * n
  PROVE  GoldenHolds(f.lines, c)
<1> DEFINE m == f.lines
<1>0. PICK s \in Nat : c.size = s /\ s > 0 /\ Len(l) \in Nat /\ Len(l) >= 11 + 2 * s
  <2>1. c.size \in Nat /\ Len(l) \in Nat
    BY DEF Contents
  <2>2. c.size > 0 /\ Len(l) >= 11 + 2 * c.size
    BY DEF PlainGolden, GoldenText
  <2>3. QED
    BY <2>1, <2>2
<1>1. GoldenHolds(l, c)
  BY TextHolds DEF PlainGolden
<1>2. \A k \in Nat : Known(f, k)
  BY DEF Known
<1>3. Says(LineAt(m, 4), n) /\ Says(LineAt(m, 5), q) /\ Gives(LineAt(m, 11 + 2 * n), 2)
  BY <1>2 DEF GoldenRead
<1>4. ASSUME NEW v \in 1 .. n - 1
      PROVE  Gives(LineAt(m, 10 + v), 3) /\ Gives(LineAt(m, 10 + n + v), 2)
  <2>1. 10 + v < p /\ 10 + n + v < p /\ Known(f, 10 + v) /\ Known(f, 10 + n + v)
    BY <1>2
  <2>2. QED
    BY <2>1 DEF GoldenRead, PlaceTaken
<1>5. ~Gives(AfterColon(LineAt(l, 6)), 1) /\ ~Gives(LineAt(l, 12 + 2 * s), 2)
  <2>1. NoNumber(LineAt(l, 6)) /\ NoNumber(LineAt(l, 12 + 2 * s))
    <3>1. /\ \A k \in (1 .. 3) \cup (6 .. 10) : NoNumber(LineAt(l, k))
          /\ NoNumber(LineAt(l, 12 + 2 * c.size))
      BY GoldenBlank
    <3>2. QED
      BY <1>0, <3>1
  <2>2. LineAt(l, 6) \in Seq(Tokens) /\ LineAt(l, 12 + 2 * s) \in Seq(Tokens)
    BY LineAtType
  <2>3. QED
    BY <2>1, <2>2, NothingAfterColon, FewerGiven
<1>6. f.lines = m
  OBVIOUS
<1> HIDE DEF m
<1>7. ASSUME LineAt(m, 4) = LineAt(l, 4) PROVE n = s
  BY <1>0, <1>1, <1>3, <1>7, SaysOne DEF GoldenHolds
<1>8. ASSUME NEW i \in 1 .. Len(l), OneHurt(l, m, i) PROVE GoldenHolds(m, c)
  <2>1. Says(LineAt(m, 4), s) /\ Says(LineAt(m, 5), c.capacity)
    <3>1. l[4] = <<Word, Colon, s>> /\ l[5] = <<Word, Colon, c.capacity>> /\ c.capacity \in Nat
      BY <1>0 DEF PlainGolden, Contents
    <3>2. Says(LineAt(l, 4), s) /\ Says(LineAt(l, 5), c.capacity)
      BY <1>0, <1>1 DEF GoldenHolds
    <3>3. 4 \in 1 .. Len(l) /\ 5 \in 1 .. Len(l)
      BY <1>0
    <3>4. Gives(AfterColon(LineAt(m, 4)), 1) /\ Gives(AfterColon(LineAt(m, 5)), 1)
      BY <1>3 DEF Says
    <3>5. QED
      BY <1>8, <3>1, <3>2, <3>3, <3>4, KeyUnhurt
  <2>2. n = s
    BY <1>3, <2>1, SaysOne
  <2>3. ASSUME NEW v \in 2 .. s
        PROVE  PlaceLine(LineAt(m, 9 + v), c, v) /\ DemandLine(LineAt(m, 9 + s + v), c, v)
    <3>1. v - 1 \in 1 .. n - 1 /\ 10 + (v - 1) = 9 + v /\ 10 + n + (v - 1) = 9 + s + v
      BY <2>2
    <3>2. Gives(LineAt(m, 9 + v), 3) /\ Gives(LineAt(m, 9 + s + v), 2)
      BY <1>4, <3>1
    <3>3. Len(l[9 + v]) = 3 /\ Len(l[9 + s + v]) = 2
      BY <1>0 DEF PlainGolden
    <3>4. 9 + v \in 1 .. Len(l) /\ 9 + s + v \in 1 .. Len(l)
      BY <1>0, Within
    <3>5. LineAt(m, 9 + v) = LineAt(l, 9 + v) /\ LineAt(m, 9 + s + v) = LineAt(l, 9 + s + v)
      BY <1>8, <3>2, <3>3, <3>4, Unhurt
    <3>6. QED
      BY <1>0, <1>1, <3>5 DEF GoldenHolds
  <2>4. LineAt(m, 11 + 2 * s) = LineAt(l, 11 + 2 * s)
    <3>1. Len(l[11 + 2 * c.size]) = 2
      BY DEF PlainGolden
    <3>2. 11 + 2 * s \in 1 .. Len(l)
      BY <1>0
    <3>3. Gives(LineAt(m, 11 + 2 * s), Len(l[11 + 2 * s]))
      BY <1>0, <1>3, <2>2, <3>1
    <3>4. QED
      BY <1>8, <3>2, <3>3, Unhurt
  <2>5. QED
    BY <1>0, <1>1, <2>1, <2>3, <2>4 DEF GoldenHolds
<1>9. ASSUME NEW i \in 1 .. Len(l), OneMissing(l, m, i) PROVE GoldenHolds(m, c)
  <2>1. CASE i <= 5
    <3>1. LineAt(m, 5) = LineAt(l, 6)
      BY <1>9, <2>1 DEF OneMissing
    <3>2. QED
      BY <1>3, <1>5, <3>1 DEF Says
  <2>2. CASE i \in 6 .. 11 + 2 * s
    <3>1. LineAt(m, 4) = LineAt(l, 4)
      BY <1>9, <2>2 DEF OneMissing
    <3>2. LineAt(m, 11 + 2 * s) = LineAt(l, 11 + 2 * s + 1)
      <4>1. 11 + 2 * s \in Nat \ {0} /\ ~(11 + 2 * s < i)
        BY <2>2
      <4>2. QED
        BY <1>9, <4>1 DEF OneMissing
    <3>3. 11 + 2 * s + 1 = 12 + 2 * s
      OBVIOUS
    <3>4. QED
      BY <1>3, <1>5, <1>7, <3>1, <3>2, <3>3
  <2>3. CASE i > 11 + 2 * s
    <3>1. \A k \in 1 .. 11 + 2 * s : k \in Nat \ {0} /\ k < i
      BY <2>3
    <3>2. \A k \in 1 .. 11 + 2 * s : LineAt(m, k) = LineAt(l, k)
      BY <1>9, <3>1 DEF OneMissing
    <3>3. QED
      BY <1>0, <1>1, <3>2, GoldenSame
  <2>4. QED
    BY <2>1, <2>2, <2>3
<1>10. ASSUME NEW e \in 0 .. Len(l) - 1, CutAfter(l, m, e) PROVE GoldenHolds(m, c)
  <2>1. CASE e < 5
    <3>1. LineAt(m, 5) = <<>>
      BY <1>10, <2>1 DEF CutAfter
    <3>2. QED
      BY <1>3, <3>1, NothingGiven DEF Says
  <2>2. CASE e \in 5 .. 10 + 2 * s
    <3>1. LineAt(m, 4) = LineAt(l, 4)
      BY <1>10, <2>2 DEF CutAfter
    <3>2. LineAt(m, 11 + 2 * s) = <<>>
      <4>1. 11 + 2 * s \in Nat \ {0} /\ ~(11 + 2 * s <= e)
        BY <2>2
      <4>2. QED
        BY <1>10, <4>1 DEF CutAfter
    <3>3. QED
      BY <1>3, <1>7, <3>1, <3>2, NothingGiven
  <2>3. CASE e > 10 + 2 * s
    <3>1. \A k \in 1 .. 11 + 2 * s : k \in Nat \ {0} /\ k <= e
      BY <2>3
    <3>2. \A k \in 1 .. 11 + 2 * s : LineAt(m, k) = LineAt(l, k)
      BY <1>10, <3>1 DEF CutAfter
    <3>3. QED
      BY <1>0, <1>1, <3>2, GoldenSame
  <2>4. QED
    BY <2>1, <2>2, <2>3
<1>11. GoldenHolds(m, c)
  BY <1>6, <1>8, <1>9, <1>10, DamageCases
<1>12. QED
  BY <1>6, <1>11

-----------------------------------------------------------------------------
(* A damaged file of the X format.                                         *)

LEMMA XBlank ==
  ASSUME NEW c \in Contents, NEW l \in Seq(Seq(Tokens)), PlainX(l, c)
  PROVE  /\ \A k \in (1 .. 3) \cup {5, 7, 8 + c.size} : NoNumber(LineAt(l, k)) /\ LineAt(l, k) \in Seq(Tokens)
         /\ \A k \in Nat : k >= 9 + 2 * c.size => ~Gives(LineAt(l, k), 2)
<1>0. PICK s \in Nat : c.size = s /\ s > 0 /\ Len(l) \in Nat /\ Len(l) >= 8 + 2 * s
  <2>1. c.size \in Nat /\ Len(l) \in Nat
    BY DEF Contents
  <2>2. c.size > 0 /\ Len(l) >= 8 + 2 * c.size
    BY DEF PlainX, XText
  <2>3. QED
    BY <2>1, <2>2
<1>1. ASSUME NEW k \in (1 .. 3) \cup {5, 7, 8 + c.size}
      PROVE  NoNumber(LineAt(l, k)) /\ LineAt(l, k) \in Seq(Tokens)
  <2>1. NoNumber(l[k])
    BY DEF PlainX
  <2>2. k <= Len(l) /\ k \in Nat \ {0}
    BY <1>0
  <2>3. QED
    BY <2>1, <2>2, LineAtType DEF LineAt
<1>2. ASSUME NEW k \in Nat, k >= 9 + 2 * c.size PROVE ~Gives(LineAt(l, k), 2)
  <2>1. CASE k <= Len(l)
    <3>1. k \in 9 + 2 * c.size .. Len(l)
      BY <1>0, <1>2, <2>1
    <3>2. ~Gives(l[k], 2)
      BY <3>1 DEF PlainX
    <3>3. QED
      BY <2>1, <3>2 DEF LineAt
  <2>2. CASE ~(k <= Len(l))
    BY <2>2, NothingGiven DEF LineAt
  <2>3. QED
    BY <2>1, <2>2
<1>3. QED
  BY <1>1, <1>2

LEMMA XDamagedZk ==
  ASSUME NEW f, NEW p \in Nat, NEW n \in Nat, NEW q, NEW x, NEW y, NEW d, NEW c \in Contents,
         NEW l \in Seq(Seq(Tokens)), PlainX(l, c), f.lines \in Damages(l), f.newline,
         ZkRead(f, p, n, q, x, y, d), p > n + 1
  PROVE  FALSE
<1> DEFINE m == f.lines
<1>1. Known(f, 1)
  BY DEF Known
<1>2. ~Gives(LineAt(m, 1), 2)
  <2>1. NoNumber(LineAt(l, 1)) /\ NoNumber(LineAt(l, 1 + 1))
    BY XBlank
  <2>2. QED
    BY <2>1, StaysBlank
<1> HIDE DEF m
<1>3. QED
  BY <1>1, <1>2 DEF ZkRead, m

LEMMA XDamagedGolden ==
  ASSUME NEW f, NEW p \in Nat, NEW n \in Nat, NEW q, NEW x, NEW y, NEW d, NEW c \in Contents,
         NEW l \in Seq(Seq(Tokens)), PlainX(l, c), f.lines \in Damages(l), f.newline,
         GoldenRead(f, p, n, q, x, y, d), p > 11 + 2 * n
  PROVE  FALSE
<1> DEFINE m == f.lines
<1>0. PICK s \in Nat : c.size = s /\ s > 0 /\ Len(l) \in Nat /\ Len(l) >= 8 + 2 * s
  <2>1. c.size \in Nat /\ Len(l) \in Nat
    BY DEF Contents
  <2>2. c.size > 0 /\ Len(l) >= 8 + 2 * c.size
    BY DEF PlainX, XText
  <2>3. QED
    BY <2>1, <2>2
<1>1. XHolds(l, c)
  BY TextHolds DEF PlainX
<1>2. \A k \in Nat : Known(f, k)
  BY DEF Known
<1>3. Says(LineAt(m, 4), n) /\ Says(LineAt(m, 5), q) /\ Gives(LineAt(m, 11 + 2 * n), 2)
  BY <1>2 DEF GoldenRead
<1>4. ASSUME NEW v \in 1 .. n - 1 PROVE Gives(LineAt(m, 10 + v), 3)
  <2>1. 10 + v < p /\ Known(f, 10 + v)
    BY <1>2
  <2>2. QED
    BY <2>1 DEF GoldenRead, PlaceTaken
<1>5. NoNumber(LineAt(l, 5)) /\ LineAt(l, 5) \in Seq(Tokens)
      /\ NoNumber(LineAt(l, 8 + s)) /\ LineAt(l, 8 + s) \in Seq(Tokens)
  BY <1>0, XBlank
<1>6. ~Gives(AfterColon(LineAt(l, 5)), 1) /\ ~Gives(LineAt(l, 8 + s), 3)
  BY <1>5, NothingAfterColon, FewerGiven
<1>7. f.lines = m
  OBVIOUS
<1> HIDE DEF m
<1>8. ASSUME LineAt(m, 5) = LineAt(l, 5) PROVE FALSE
  BY <1>3, <1>6, <1>8 DEF Says
<1>9. ASSUME NEW i \in 1 .. Len(l), OneHurt(l, m, i) PROVE FALSE
  <2>1. PICK h : Hurt(l[i], h) /\ \A j \in Nat \ {0} : LineAt(m, j) = IF j = i THEN h ELSE LineAt(l, j)
    BY <1>9 DEF OneHurt
  <2>2. CASE i # 5
    BY <1>8, <2>1, <2>2
  <2>3. CASE i = 5
    <3>0. 5 \in Nat \ {0} /\ 5 <= Len(l)
      BY <1>0, <2>3
    <3>1. LineAt(m, 5) = h /\ l[i] = LineAt(l, 5)
      <4>1. LineAt(m, 5) = h
        BY <2>1, <2>3, <3>0
      <4>2. l[5] = LineAt(l, 5)
        BY <3>0 DEF LineAt
      <4>3. QED
        BY <2>3, <4>1, <4>2
    <3>2. h \in Seq(Tokens) /\ NoNumber(h)
      BY <1>5, <2>1, <3>1, HurtLine
    <3>3. QED
      BY <1>3, <3>1, <3>2, NothingAfterColon DEF Says
  <2>4. QED
    BY <2>2, <2>3
<1>10. ASSUME NEW i \in 1 .. Len(l), OneMissing(l, m, i) PROVE FALSE
  <2>1. CASE i > 5
    <3>1. LineAt(m, 5) = LineAt(l, 5)
      BY <1>10, <2>1 DEF OneMissing
    <3>2. QED
      BY <1>8, <3>1
  <2>2. CASE i < 5
    <3>1. LineAt(m, 4) = LineAt(l, 5)
      BY <1>10, <2>2 DEF OneMissing
    <3>2. QED
      BY <1>3, <1>6, <3>1 DEF Says
  <2>3. CASE i = 5
    <3>1. n = s
      <4>1. LineAt(m, 4) = LineAt(l, 4)
        BY <1>10, <2>3 DEF OneMissing
      <4>2. QED
        BY <1>0, <1>1, <1>3, <4>1, SaysOne DEF XHolds
    <3>2. \A k \in Nat : k >= 5 => LineAt(m, k) = LineAt(l, k + 1)
      BY <1>10, <2>3 DEF OneMissing
    <3>3. CASE s >= 4
      <4>1. s - 3 \in 1 .. n - 1 /\ 10 + (s - 3) = 7 + s /\ 7 + s \in Nat /\ 7 + s >= 5 /\ 7 + s + 1 = 8 + s
        BY <3>1, <3>3
      <4>2. Gives(LineAt(m, 7 + s), 3) /\ LineAt(m, 7 + s) = LineAt(l, 8 + s)
        BY <1>4, <3>2, <4>1
      <4>3. QED
        BY <1>6, <4>2
    <3>4. CASE s \in {2, 3}
      <4>1. 1 \in 1 .. n - 1 /\ 10 + 1 = 11
        BY <3>1, <3>4
      <4>2. Gives(LineAt(m, 11), 3) /\ LineAt(m, 11) = LineAt(l, 11 + 1)
        <5>1. Gives(LineAt(m, 10 + 1), 3)
          BY <1>4, <4>1
        <5>2. LineAt(m, 11) = LineAt(l, 11 + 1)
          BY <3>2
        <5>3. QED
          BY <4>1, <5>1, <5>2
      <4>3. 4 - s \in 1 .. s /\ 8 + s + (4 - s) = 12 /\ 12 <= Len(l)
        BY <1>0, <3>4
      <4>4. Len(l[12]) = 2
        BY <1>0, <4>3 DEF PlainX
      <4>5. LineAt(l, 12) = l[12] /\ 11 + 1 = 12
        BY <4>3 DEF LineAt
      <4>6. ~Gives(l[12], 3)
        BY <4>4 DEF Gives
      <4>7. QED
        BY <4>2, <4>5, <4>6
    <3>5. CASE s = 1
      <4>1. 11 + 2 * n = 13 /\ 13 + 1 = 14 /\ LineAt(m, 13) = LineAt(l, 13 + 1)
        BY <3>1, <3>2, <3>5
      <4>2. 14 \in Nat /\ 14 >= 9 + 2 * c.size
        BY <1>0, <3>5
      <4>3. ~Gives(LineAt(l, 14), 2)
        <5>1. \A k \in Nat : k >= 9 + 2 * c.size => ~Gives(LineAt(l, k), 2)
          BY XBlank
        <5>2. QED
          BY <4>2, <5>1
      <4>4. Gives(LineAt(m, 13), 2)
        BY <1>3, <4>1
      <4>5. QED
        BY <4>1, <4>3, <4>4
    <3>6. QED
      BY <1>0, <3>3, <3>4, <3>5
  <2>4. QED
    BY <2>1, <2>2, <2>3
<1>11. ASSUME NEW e \in 0 .. Len(l) - 1, CutAfter(l, m, e) PROVE FALSE
  <2>1. LineAt(m, 5) = LineAt(l, 5) \/ LineAt(m, 5) = <<>>
    BY <1>11 DEF CutAfter
  <2>2. QED
    BY <1>3, <1>8, <2>1, NothingGiven DEF Says
<1>12. QED
  BY <1>7, <1>9, <1>10, <1>11, DamageCases

LEMMA XSame ==
  ASSUME NEW c \in Contents, c.size > 0, NEW l, NEW m, XHolds(l, c),
         \A k \in 1 .. 8 + 2 * c.size : LineAt(m, k) = LineAt(l, k)
  PROVE  XHolds(m, c)
<1>0. PICK s \in Nat : c.size = s /\ s > 0
  BY DEF Contents
<1>1. LineAt(m, 4) = LineAt(l, 4) /\ LineAt(m, 6) = LineAt(l, 6)
  BY <1>0
<1>2. \A v \in 1 .. s : LineAt(m, 7 + v) = LineAt(l, 7 + v) /\ LineAt(m, 8 + s + v) = LineAt(l, 8 + s + v)
  <2> SUFFICES ASSUME NEW v \in 1 .. s
               PROVE  LineAt(m, 7 + v) = LineAt(l, 7 + v) /\ LineAt(m, 8 + s + v) = LineAt(l, 8 + s + v)
    OBVIOUS
  <2>1. 7 + v \in 1 .. 8 + 2 * s /\ 8 + s + v \in 1 .. 8 + 2 * s
    OBVIOUS
  <2>2. QED
    BY <1>0, <2>1
<1>3. QED
  BY <1>0, <1>1, <1>2 DEF XHolds

LEMMA XDamaged ==
  ASSUME NEW f, NEW p \in Nat, NEW n \in Nat, NEW q, NEW x, NEW y, NEW d, NEW c \in Contents,
         NEW l \in Seq(Seq(Tokens)), PlainX(l, c), f.lines \in Damages(l), f.newline,
         XRead(f, p, n, q, x, y, d), p > 8 + 2 * n
  PROVE  XHolds(f.lines, c)
<1> DEFINE m == f.lines
<1>0. PICK s \in Nat : c.size = s /\ s > 0 /\ Len(l) \in Nat /\ Len(l) >= 8 + 2 * s
  <2>1. c.size \in Nat /\ Len(l) \in Nat
    BY DEF Contents
  <2>2. c.size > 0 /\ Len(l) >= 8 + 2 * c.size
    BY DEF PlainX, XText
  <2>3. QED
    BY <2>1, <2>2
<1>1. XHolds(l, c)
  BY TextHolds DEF PlainX
<1>2. \A k \in Nat : Known(f, k)
  BY DEF Known
<1>3. Says(LineAt(m, 4), n) /\ Says(LineAt(m, 6), q)
  BY <1>2 DEF XRead
<1>4. ASSUME NEW v \in 1 .. n
      PROVE  Gives(LineAt(m, 7 + v), 3) /\ Gives(LineAt(m, 8 + n + v), 2)
  <2>1. /\ v - 1 \in 0 .. n - 1 /\ 8 + (v - 1) = 7 + v /\ 9 + n + (v - 1) = 8 + n + v
        /\ 7 + v < p /\ 8 + n + v < p /\ Known(f, 7 + v) /\ Known(f, 8 + n + v)
    BY <1>2
  <2>2. QED
    BY <2>1 DEF XRead, PlaceTaken
<1>5. /\ ~Gives(AfterColon(LineAt(l, 5)), 1) /\ ~Gives(AfterColon(LineAt(l, 7)), 1)
      /\ ~Gives(LineAt(l, 9 + 2 * s), 2)
  <2>1. NoNumber(LineAt(l, 5)) /\ LineAt(l, 5) \in Seq(Tokens) /\ NoNumber(LineAt(l, 7)) /\ LineAt(l, 7) \in Seq(Tokens)
    BY XBlank
  <2>2. 9 + 2 * s \in Nat /\ 9 + 2 * s >= 9 + 2 * c.size
    BY <1>0
  <2>3. QED
    BY <2>1, <2>2, XBlank, NothingAfterColon
<1>6. f.lines = m
  OBVIOUS
<1> HIDE DEF m
<1>7. ASSUME LineAt(m, 4) = LineAt(l, 4)
      PROVE  Gives(LineAt(m, 8 + 2 * s), 2)
  <2>1. n = s
    BY <1>0, <1>1, <1>3, <1>7, SaysOne DEF XHolds
  <2>2. s \in 1 .. n /\ 8 + n + s = 8 + 2 * s
    BY <1>0, <2>1
  <2>3. QED
    BY <1>4, <2>2
<1>8. ASSUME NEW i \in 1 .. Len(l), OneHurt(l, m, i) PROVE XHolds(m, c)
  <2>1. Says(LineAt(m, 4), s) /\ Says(LineAt(m, 6), c.capacity)
    <3>1. l[4] = <<Word, Colon, s>> /\ l[6] = <<Word, Colon, c.capacity>> /\ c.capacity \in Nat
      BY <1>0 DEF PlainX, Contents
    <3>2. Says(LineAt(l, 4), s) /\ Says(LineAt(l, 6), c.capacity)
      BY <1>0, <1>1 DEF XHolds
    <3>3. 4 \in 1 .. Len(l) /\ 6 \in 1 .. Len(l)
      BY <1>0
    <3>4. Gives(AfterColon(LineAt(m, 4)), 1) /\ Gives(AfterColon(LineAt(m, 6)), 1)
      BY <1>3 DEF Says
    <3>5. QED
      BY <1>8, <3>1, <3>2, <3>3, <3>4, KeyUnhurt
  <2>2. n = s
    BY <1>3, <2>1, SaysOne
  <2>3. ASSUME NEW v \in 1 .. s
        PROVE  PlaceLine(LineAt(m, 7 + v), c, v) /\ DemandLine(LineAt(m, 8 + s + v), c, v)
    <3>1. Gives(LineAt(m, 7 + v), 3) /\ Gives(LineAt(m, 8 + s + v), 2)
      BY <1>4, <2>2
    <3>2. Len(l[7 + v]) = 3 /\ Len(l[8 + s + v]) = 2
      BY <1>0 DEF PlainX
    <3>3. 7 + v \in 1 .. Len(l) /\ 8 + s + v \in 1 .. Len(l)
      BY <1>0, Within
    <3>4. LineAt(m, 7 + v) = LineAt(l, 7 + v) /\ LineAt(m, 8 + s + v) = LineAt(l, 8 + s + v)
      BY <1>8, <3>1, <3>2, <3>3, Unhurt
    <3>5. QED
      BY <1>0, <1>1, <3>4 DEF XHolds
  <2>4. QED
    BY <1>0, <2>1, <2>3 DEF XHolds
<1>9. ASSUME NEW i \in 1 .. Len(l), OneMissing(l, m, i) PROVE XHolds(m, c)
  <2>1. CASE i <= 4
    <3>1. LineAt(m, 4) = LineAt(l, 5)
      BY <1>9, <2>1 DEF OneMissing
    <3>2. QED
      BY <1>3, <1>5, <3>1 DEF Says
  <2>2. CASE i \in 5 .. 6
    <3>1. LineAt(m, 6) = LineAt(l, 7)
      BY <1>9, <2>2 DEF OneMissing
    <3>2. QED
      BY <1>3, <1>5, <3>1 DEF Says
  <2>3. CASE i \in 7 .. 8 + 2 * s
    <3>1. LineAt(m, 4) = LineAt(l, 4)
      BY <1>9, <2>3 DEF OneMissing
    <3>2. LineAt(m, 8 + 2 * s) = LineAt(l, 8 + 2 * s + 1)
      <4>1. 8 + 2 * s \in Nat \ {0} /\ ~(8 + 2 * s < i)
        BY <2>3
      <4>2. QED
        BY <1>9, <4>1 DEF OneMissing
    <3>3. 8 + 2 * s + 1 = 9 + 2 * s
      OBVIOUS
    <3>4. QED
      BY <1>5, <1>7, <3>1, <3>2, <3>3
  <2>4. CASE i > 8 + 2 * s
    <3>1. \A k \in 1 .. 8 + 2 * s : k \in Nat \ {0} /\ k < i
      BY <2>4
    <3>2. \A k \in 1 .. 8 + 2 * s : LineAt(m, k) = LineAt(l, k)
      BY <1>9, <3>1 DEF OneMissing
    <3>3. QED
      BY <1>0, <1>1, <3>2, XSame
  <2>5. QED
    BY <2>1, <2>2, <2>3, <2>4
<1>10. ASSUME NEW e \in 0 .. Len(l) - 1, CutAfter(l, m, e) PROVE XHolds(m, c)
  <2>1. CASE e < 4
    <3>1. LineAt(m, 4) = <<>>
      BY <1>10, <2>1 DEF CutAfter
    <3>2. QED
      BY <1>3, <3>1, NothingGiven DEF Says
  <2>2. CASE e \in 4 .. 7 + 2 * s
    <3>1. LineAt(m, 4) = LineAt(l, 4)
      BY <1>10, <2>2 DEF CutAfter
    <3>2. LineAt(m, 8 + 2 * s) = <<>>
      <4>1. 8 + 2 * s \in Nat \ {0} /\ ~(8 + 2 * s <= e)
        BY <2>2
      <4>2. QED
        BY <1>10, <4>1 DEF CutAfter
    <3>3. QED
      BY <1>7, <3>1, <3>2, NothingGiven
  <2>3. CASE e > 7 + 2 * s
    <3>1. \A k \in 1 .. 8 + 2 * s : k \in Nat \ {0} /\ k <= e
      BY <2>3
    <3>2. \A k \in 1 .. 8 + 2 * s : LineAt(m, k) = LineAt(l, k)
      BY <1>10, <3>1 DEF CutAfter
    <3>3. QED
      BY <1>0, <1>1, <3>2, XSame
  <2>4. QED
    BY <2>1, <2>2, <2>3
<1>11. XHolds(m, c)
  BY <1>6, <1>8, <1>9, <1>10, DamageCases
<1>12. QED
  BY <1>6, <1>11

-----------------------------------------------------------------------------
(* A parser that comes to its end.                                         *)

LengthOf(r, n) == IF r = "zk" THEN n + 1 ELSE IF r = "golden" THEN 11 + 2 * n ELSE 8 + 2 * n

TakenSoFar(f, r, p, n, q, x, y, d) ==
  /\ r = "zk" => ZkRead(f, p, n, q, x, y, d)
  /\ r = "golden" => GoldenRead(f, p, n, q, x, y, d)
  /\ r = "x" => XRead(f, p, n, q, x, y, d)

\* An intact file is read by its own parser, or by one that will refuse it.
RightParser(f, r, p) ==
  f.intact =>
    \/ ZkText(f.lines, f.content) /\ r = "zk"
    \/ GoldenText(f.lines, f.content) /\ (r = "golden" \/ (r = "zk" /\ p = 1))
    \/ XText(f.lines, f.content) /\ (r = "x" \/ (r = "zk" /\ p = 1) \/ (r = "golden" /\ p <= 5))

LEMMA SizeOfText ==
  ASSUME NEW f \in FileType, NEW originals, KnownFile(f, originals), f.exists
  PROVE  f.content \in Contents /\ f.content.size > 0
<1>1. f.content \in Contents
  BY DEF FileType, Contents
<1>2. \E l : Text(l, f.content) \/ PlainText(l, f.content)
  BY DEF KnownFile
<1>3. f.content.size > 0
  BY <1>2 DEF Text, PlainText, PlainZk, PlainGolden, PlainX, ZkText, GoldenText, XText
<1>4. QED
  BY <1>1, <1>3

LEMMA IntactFinished ==
  ASSUME NEW f \in FileType, f.intact, f.content.size > 0,
         NEW r \in {"zk", "golden", "x"}, NEW p \in Nat \ {0},
         NEW n \in Nat, NEW q, NEW x, NEW y, NEW d,
         TakenSoFar(f, r, p, n, q, x, y, d), RightParser(f, r, p), p > LengthOf(r, n)
  PROVE  Fits(f.content, n, q, x, y, d)
<1> DEFINE l == f.lines
           c == f.content
<1>1. c \in Contents /\ l \in Seq(Seq(Tokens)) /\ c.size > 0
  BY DEF FileType, Contents
<1>2. Len(l) \in Nat /\ c.size \in Nat
  BY <1>1 DEF Contents
<1>3. \A k \in 1 .. Len(l) : Known(f, k)
  BY <1>2 DEF Known
<1>4. CASE ZkText(l, c) /\ r = "zk"
  <2>1. Len(l) >= c.size + 1
    BY <1>4 DEF ZkText
  <2>2. \A k \in 1 .. c.size + 1 : Known(f, k)
    BY <1>2, <1>3, <2>1
  <2>3. ZkHolds(f.lines, c)
    BY <1>1, <1>4, TextHolds
  <2>4. ZkRead(f, p, n, q, x, y, d) /\ p > n + 1
    BY <1>4 DEF TakenSoFar, LengthOf
  <2>5. QED
    BY <1>1, <2>2, <2>3, <2>4, ZkFits
<1>5. CASE GoldenText(l, c) /\ r = "golden"
  <2>1. Len(l) >= 11 + 2 * c.size
    BY <1>5 DEF GoldenText
  <2>2. \A k \in 1 .. 11 + 2 * c.size : Known(f, k)
    BY <1>2, <1>3, <2>1
  <2>3. GoldenHolds(f.lines, c)
    BY <1>1, <1>5, TextHolds
  <2>4. GoldenRead(f, p, n, q, x, y, d) /\ p > 11 + 2 * n
    BY <1>5 DEF TakenSoFar, LengthOf
  <2>5. QED
    BY <1>1, <2>2, <2>3, <2>4, GoldenFits
<1>6. CASE XText(l, c) /\ r = "x"
  <2>1. Len(l) >= 8 + 2 * c.size
    BY <1>6 DEF XText
  <2>2. \A k \in 1 .. 8 + 2 * c.size : Known(f, k)
    BY <1>2, <1>3, <2>1
  <2>3. XHolds(f.lines, c)
    BY <1>1, <1>6, TextHolds
  <2>4. XRead(f, p, n, q, x, y, d) /\ p > 8 + 2 * n
    BY <1>6 DEF TakenSoFar, LengthOf
  <2>5. QED
    BY <1>1, <2>2, <2>3, <2>4, XFits
<1>7. ~(r = "zk" /\ p = 1) /\ ~(r = "golden" /\ p <= 5)
  BY DEF LengthOf
<1>8. QED
  BY <1>4, <1>5, <1>6, <1>7 DEF RightParser

LEMMA Finished ==
  ASSUME NEW originals, originals \subseteq Seq(Seq(Tokens)),
         NEW f \in FileType, KnownFile(f, originals), f.exists,
         NEW r \in {"zk", "golden", "x"}, NEW p \in Nat \ {0},
         NEW n \in Nat, NEW q, NEW x, NEW y, NEW d,
         TakenSoFar(f, r, p, n, q, x, y, d), RightParser(f, r, p), p > LengthOf(r, n)
  PROVE  Fits(f.content, n, q, x, y, d)
<1> DEFINE c == f.content
<1>1. c \in Contents /\ c.size > 0 /\ c.size \in Nat
  BY SizeOfText DEF Contents
<1>2. CASE f.intact
  BY <1>1, <1>2, IntactFinished
<1>3. CASE ~f.intact
  <2>1. PICK l \in originals : PlainText(l, c) /\ f.lines \in Damages(l)
    BY <1>3 DEF KnownFile
  <2>2. l \in Seq(Seq(Tokens)) /\ f.newline
    BY <1>3 DEF KnownFile
  <2>3. \A k \in Nat : Known(f, k)
    BY <2>2 DEF Known
  <2>4. (\A k \in 1 .. 11 + 2 * c.size : Known(f, k)) /\ (\A k \in 1 .. 8 + 2 * c.size : Known(f, k))
    BY <2>3
  <2>5. CASE r = "zk"
    <3>1. ZkRead(f, p, n, q, x, y, d) /\ p > n + 1
      BY <2>5 DEF TakenSoFar, LengthOf
    <3>2. QED
      BY <1>1, <2>1, <2>2, <3>1, ZkDamagedZk, GoldenDamagedOthers, XDamagedZk DEF PlainText
  <2>6. CASE r = "golden"
    <3>1. GoldenRead(f, p, n, q, x, y, d) /\ p > 11 + 2 * n
      BY <2>6 DEF TakenSoFar, LengthOf
    <3>2. PlainGolden(l, c)
      BY <1>1, <2>1, <2>2, <3>1, ZkDamagedOthers, XDamagedGolden DEF PlainText
    <3>3. GoldenHolds(f.lines, c)
      BY <1>1, <2>1, <2>2, <3>1, <3>2, GoldenDamaged
    <3>4. QED
      BY <1>1, <2>4, <3>1, <3>3, GoldenFits
  <2>7. CASE r = "x"
    <3>1. XRead(f, p, n, q, x, y, d) /\ p > 8 + 2 * n
      BY <2>7 DEF TakenSoFar, LengthOf
    <3>2. PlainX(l, c)
      BY <1>1, <2>1, <2>2, <3>1, ZkDamagedOthers, GoldenDamagedOthers DEF PlainText
    <3>3. XHolds(f.lines, c)
      BY <1>1, <2>1, <2>2, <3>1, <3>2, XDamaged
    <3>4. QED
      BY <1>1, <2>4, <3>1, <3>3, XFits
  <2>8. QED
    BY <2>5, <2>6, <2>7
<1>4. QED
  BY <1>2, <1>3

-----------------------------------------------------------------------------
(* What one getline does.                                                  *)

\* The token that goes to a field, if every conversion succeeds.
Picked(t, l, field, at, old) ==
  IF \E i \in 1 .. Len(t) : t[i] = To(field, at)
  THEN l[CHOOSE i \in 1 .. Len(t) : t[i] = To(field, at)]
  ELSE old

Filled(t, l, f, field) == [v \in DOMAIN f |-> Picked(t, l, field, v, f[v])]

AsSized(t, f, n) == IF \E i \in 1 .. Len(t) : t[i].field = "capacity" THEN Resized(f, n) ELSE f

Effect(t, l) ==
  /\ matrix_size' = Picked(t, l, "size", 0, Picked(t, l, "customers", 0, matrix_size - 1) + 1)
  /\ capacity' = Picked(t, l, "capacity", 0, capacity)
  /\ x_coordinates' = AsSized(t, Filled(t, l, x_coordinates, "x"), matrix_size')
  /\ y_coordinates' = AsSized(t, Filled(t, l, y_coordinates, "y"), matrix_size')
  /\ demands' = AsSized(t, Filled(t, l, demands, "demand"), matrix_size')

ReadFrom == IF Instruction.keyed THEN AfterColon(GetLine) ELSE GetLine

GoesOn == pc' = pc + 1 /\ cursor' = cursor + 1 /\ parser' = parser /\ phase' = phase

LEMMA ReadOn ==
  ASSUME FieldsInv, ReadLine
  PROVE  \/ Gives(ReadFrom, Len(Instruction.targets)) /\ GoesOn /\ Effect(Instruction.targets, ReadFrom)
         \/ ~Gives(ReadFrom, Len(Instruction.targets)) /\ NextParser
<1> DEFINE targets == Instruction.targets
           l == IF Instruction.keyed THEN AfterColon(GetLine) ELSE GetLine
           converted == IF Numbers(l) < Len(targets) THEN Numbers(l) ELSE Len(targets)
           Value(field, at, old) ==
             IF \E i \in 1 .. converted : targets[i] = To(field, at)
             THEN l[CHOOSE i \in 1 .. converted : targets[i] = To(field, at)]
             ELSE old
           Written(f, field) == [v \in DOMAIN f |-> Value(field, v, f[v])]
           allocate == \E i \in 1 .. converted : targets[i].field = "capacity"
           Sized2(f) == IF allocate THEN Resized(f, matrix_size') ELSE f
<1>1. /\ matrix_size' = Value("size", 0, Value("customers", 0, matrix_size - 1) + 1)
      /\ capacity' = Value("capacity", 0, capacity)
      /\ x_coordinates' = Sized2(Written(x_coordinates, "x"))
      /\ y_coordinates' = Sized2(Written(y_coordinates, "y"))
      /\ demands' = Sized2(Written(demands, "demand"))
      /\ \/ /\ converted = Len(targets)
            /\ line' = SubSeq(l, converted + 1, Len(l))
            /\ cursor' = cursor + 1
            /\ pc' = pc + 1
            /\ UNCHANGED <<parser, phase>>
         \/ /\ converted < Len(targets)
            /\ NextParser
  BY DEF ReadLine
<1>2. l \in Seq(Tokens) /\ Len(l) \in Nat
  <2>1. GetLine \in Seq(Tokens) /\ AfterColon(GetLine) \in Seq(Tokens)
    BY GetLineType, AfterColonType
  <2>2. QED
    BY <2>1
<1>3. l = ReadFrom
  BY DEF ReadFrom
<1>4. targets = Instruction.targets
  OBVIOUS
<1>5. Len(targets) \in Nat /\ Numbers(l) \in Nat
  <2>1. Len(targets) \in Nat
    BY InstructionFields
  <2> HIDE DEF l, targets
  <2>2. Numbers(l) \in 0 .. Len(l)
    BY <1>2, NumbersFacts
  <2>3. QED
    BY <1>2, <2>1, <2>2
<1>6. CASE Numbers(l) >= Len(targets)
  <2>1. converted = Len(targets)
    <3> HIDE DEF l, targets
    <3>1. QED
      BY <1>5, <1>6
  <2>2. GoesOn
    <3>1. ~(converted < Len(targets))
      <4> HIDE DEF converted, targets, l
      <4>1. QED
        BY <1>5, <2>1
    <3> HIDE DEF converted, targets, l
    <3>2. QED
      BY <1>1, <3>1 DEF GoesOn
  <2>3. Gives(l, Len(targets))
    <3> HIDE DEF l, targets
    <3>1. QED
      BY <1>2, <1>5, <1>6, GivesNumbers
  <2>4. Effect(targets, l)
    <3>1. \A field, at, old : Value(field, at, old) = Picked(targets, l, field, at, old)
      <4> HIDE DEF converted, targets, l
      <4>1. QED
        BY <2>1 DEF Picked
    <3> HIDE DEF Value
    <3>2. \A f, field : Written(f, field) = Filled(targets, l, f, field)
      BY <3>1 DEF Filled
    <3> HIDE DEF Written
    <3>3. \A f : Sized2(f) = AsSized(targets, f, matrix_size')
      <4> HIDE DEF converted, targets, l
      <4>1. QED
        BY <2>1 DEF AsSized
    <3> HIDE DEF Sized2, converted, targets, l
    <3>4. QED
      BY <1>1, <3>1, <3>2, <3>3 DEF Effect
  <2>5. QED
    BY <1>3, <2>2, <2>3, <2>4
<1>7. CASE ~(Numbers(l) >= Len(targets))
  <2>1. converted < Len(targets)
    <3> HIDE DEF l, targets
    <3>1. QED
      BY <1>5, <1>7
  <2>2. NextParser
    <3>1. converted # Len(targets)
      <4> HIDE DEF l, targets
      <4>1. QED
        BY <1>5, <1>7
    <3> HIDE DEF converted, targets, l
    <3>2. QED
      BY <1>1, <3>1
  <2>3. ~Gives(l, Len(targets))
    <3> HIDE DEF l, targets
    <3>1. QED
      BY <1>2, <1>5, <1>7, GivesNumbers
  <2>4. QED
    BY <1>3, <2>2, <2>3
<1>8. QED
  BY <1>6, <1>7

LEMMA ToSame == \A a, b, c, d : To(a, b) = To(c, d) <=> a = c /\ b = d
BY DEF To

LEMMA PickedIs ==
  ASSUME NEW t, NEW l, NEW field, NEW at, NEW old, NEW i \in 1 .. Len(t),
         t[i] = To(field, at), \A j \in 1 .. Len(t) : t[j] = To(field, at) => j = i
  PROVE  Picked(t, l, field, at, old) = l[i]
<1>1. (CHOOSE j \in 1 .. Len(t) : t[j] = To(field, at)) = i
  OBVIOUS
<1>2. QED
  BY <1>1 DEF Picked

LEMMA PickedNot ==
  ASSUME NEW t, NEW l, NEW field, NEW at, NEW old, \A j \in 1 .. Len(t) : t[j] # To(field, at)
  PROVE  Picked(t, l, field, at, old) = old
BY DEF Picked

\* One vertex of a vector is set, or none.
Put(f, g, n, v, a) == \A u \in AllVertices(n) : g[u] = IF u = v THEN a ELSE f[u]
Keep(f, g, n) == \A u \in AllVertices(n) : g[u] = f[u]

SameSizes == matrix_size' = matrix_size /\ capacity' = capacity

LEMMA NoSizes ==
  ASSUME NEW t, NEW l, Effect(t, l), matrix_size \in Nat,
         \A i \in 1 .. Len(t) : t[i].field \in {"none", "x", "y", "demand"}
  PROVE  /\ SameSizes
         /\ x_coordinates' = Filled(t, l, x_coordinates, "x")
         /\ y_coordinates' = Filled(t, l, y_coordinates, "y")
         /\ demands' = Filled(t, l, demands, "demand")
<1>1. \A field, at : field \in {"size", "customers", "capacity"} =>
        \A i \in 1 .. Len(t) : t[i] # To(field, at)
  BY DEF To
<1>2. \A old : /\ Picked(t, l, "size", 0, old) = old
               /\ Picked(t, l, "customers", 0, old) = old
               /\ Picked(t, l, "capacity", 0, old) = old
  BY <1>1, PickedNot
<1>3. matrix_size - 1 + 1 = matrix_size
  OBVIOUS
<1>4. ~(\E i \in 1 .. Len(t) : t[i].field = "capacity")
  OBVIOUS
<1>5. QED
  BY <1>2, <1>3, <1>4 DEF Effect, AsSized, SameSizes

LEMMA FilledKeeps ==
  ASSUME NEW t, NEW l, NEW f, NEW field, NEW n, DOMAIN f = AllVertices(n),
         \A i \in 1 .. Len(t) : t[i].field # field
  PROVE  Keep(f, Filled(t, l, f, field), n)
<1> SUFFICES ASSUME NEW u \in AllVertices(n) PROVE Filled(t, l, f, field)[u] = f[u]
  BY DEF Keep
<1>1. \A i \in 1 .. Len(t) : t[i] # To(field, u)
  BY DEF To
<1>2. QED
  BY <1>1, PickedNot DEF Filled

LEMMA FilledPuts ==
  ASSUME NEW t, NEW l, NEW f, NEW field, NEW n, DOMAIN f = AllVertices(n), NEW v,
         NEW i \in 1 .. Len(t), t[i] = To(field, v), \A j \in 1 .. Len(t) : t[j].field = field => j = i
  PROVE  Put(f, Filled(t, l, f, field), n, v, l[i])
<1> SUFFICES ASSUME NEW u \in AllVertices(n)
             PROVE  Filled(t, l, f, field)[u] = IF u = v THEN l[i] ELSE f[u]
  BY DEF Put
<1>1. Filled(t, l, f, field)[u] = Picked(t, l, field, u, f[u])
  BY DEF Filled
<1>2. \A j \in 1 .. Len(t) : t[j] = To(field, u) => j = i
  BY DEF To
<1>3. CASE u = v
  <2>1. t[i] = To(field, u)
    BY <1>3
  <2>2. Picked(t, l, field, u, f[u]) = l[i]
    <3>1. (CHOOSE j \in 1 .. Len(t) : t[j] = To(field, u)) = i
      BY <1>2, <2>1
    <3>2. QED
      BY <2>1, <3>1 DEF Picked
  <2>3. QED
    BY <1>1, <1>3, <2>2
<1>4. CASE u # v
  <2>1. \A j \in 1 .. Len(t) : t[j] # To(field, u)
    BY <1>2, <1>4, ToSame
  <2>2. QED
    BY <1>1, <1>4, <2>1, PickedNot
<1>5. QED
  BY <1>3, <1>4

-----------------------------------------------------------------------------
(* The instructions.                                                       *)

Kept == /\ SameSizes
        /\ Keep(x_coordinates, x_coordinates', matrix_size)
        /\ Keep(y_coordinates, y_coordinates', matrix_size)
        /\ Keep(demands, demands', matrix_size)

PlacePut(v, a, b) == /\ SameSizes
                     /\ Put(x_coordinates, x_coordinates', matrix_size, v, a)
                     /\ Put(y_coordinates, y_coordinates', matrix_size, v, b)
                     /\ Keep(demands, demands', matrix_size)

DemandPut(v, a) == /\ SameSizes
                   /\ Keep(x_coordinates, x_coordinates', matrix_size)
                   /\ Keep(y_coordinates, y_coordinates', matrix_size)
                   /\ Put(demands, demands', matrix_size, v, a)

LEMMA SkipEffect ==
  ASSUME NEW l, FieldsInv, Effect(Skip.targets, l)
  PROVE  SameSizes /\ (Sized => Kept)
<1> DEFINE t == Skip.targets
<1>1. Len(t) = 0
  BY DEF Skip, Reads
<1> HIDE DEF t
<1>2. \A i \in 1 .. Len(t) : FALSE
  BY <1>1
<1>3. /\ SameSizes
      /\ x_coordinates' = Filled(t, l, x_coordinates, "x")
      /\ y_coordinates' = Filled(t, l, y_coordinates, "y")
      /\ demands' = Filled(t, l, demands, "demand")
  BY <1>2, NoSizes DEF FieldsInv, t
<1>4. ASSUME Sized PROVE Kept
  BY <1>2, <1>3, <1>4, FilledKeeps DEF Sized, Kept
<1>5. QED
  BY <1>3, <1>4

LEMMA CoordinatesEffect ==
  ASSUME NEW l, NEW v, FieldsInv, Sized, Effect(Coordinates(v).targets, l)
  PROVE  PlacePut(v, l[2], l[3])
<1> DEFINE t == Coordinates(v).targets
<1>1. Len(t) = 3 /\ t[1] = To("none", 0) /\ t[2] = To("x", v) /\ t[3] = To("y", v)
  BY DEF Coordinates, Reads, Index
<1> HIDE DEF t
<1>2. t[1].field = "none" /\ t[2].field = "x" /\ t[3].field = "y" /\ \A i \in 1 .. Len(t) : i \in {1, 2, 3}
  BY <1>1 DEF To
<1>3. \A i \in 1 .. Len(t) : t[i].field \in {"none", "x", "y", "demand"}
  BY <1>2
<1>4. /\ SameSizes
      /\ x_coordinates' = Filled(t, l, x_coordinates, "x")
      /\ y_coordinates' = Filled(t, l, y_coordinates, "y")
      /\ demands' = Filled(t, l, demands, "demand")
  BY <1>3, NoSizes DEF FieldsInv, t
<1>5. Put(x_coordinates, x_coordinates', matrix_size, v, l[2])
  <2>1. 2 \in 1 .. Len(t) /\ \A j \in 1 .. Len(t) : t[j].field = "x" => j = 2
    BY <1>1, <1>2
  <2>2. QED
    BY <1>1, <1>4, <2>1, FilledPuts DEF Sized
<1>6. Put(y_coordinates, y_coordinates', matrix_size, v, l[3])
  <2>1. 3 \in 1 .. Len(t) /\ \A j \in 1 .. Len(t) : t[j].field = "y" => j = 3
    BY <1>1, <1>2
  <2>2. QED
    BY <1>1, <1>4, <2>1, FilledPuts DEF Sized
<1>7. Keep(demands, demands', matrix_size)
  <2>1. \A i \in 1 .. Len(t) : t[i].field # "demand"
    BY <1>2
  <2>2. QED
    BY <1>4, <2>1, FilledKeeps DEF Sized
<1>8. QED
  BY <1>4, <1>5, <1>6, <1>7 DEF PlacePut

LEMMA DemandEffect ==
  ASSUME NEW l, NEW v, FieldsInv, Sized, Effect(DemandOf(v).targets, l)
  PROVE  DemandPut(v, l[2])
<1> DEFINE t == DemandOf(v).targets
<1>1. Len(t) = 2 /\ t[1] = To("none", 0) /\ t[2] = To("demand", v)
  BY DEF DemandOf, Reads, Index
<1> HIDE DEF t
<1>2. t[1].field = "none" /\ t[2].field = "demand" /\ \A i \in 1 .. Len(t) : i \in {1, 2}
  BY <1>1 DEF To
<1>3. \A i \in 1 .. Len(t) : t[i].field \in {"none", "x", "y", "demand"}
  BY <1>2
<1>4. /\ SameSizes
      /\ x_coordinates' = Filled(t, l, x_coordinates, "x")
      /\ y_coordinates' = Filled(t, l, y_coordinates, "y")
      /\ demands' = Filled(t, l, demands, "demand")
  BY <1>3, NoSizes DEF FieldsInv, t
<1>5. Keep(x_coordinates, x_coordinates', matrix_size) /\ Keep(y_coordinates, y_coordinates', matrix_size)
  <2>1. \A i \in 1 .. Len(t) : t[i].field # "x" /\ t[i].field # "y"
    BY <1>2
  <2>2. QED
    BY <1>4, <2>1, FilledKeeps DEF Sized
<1>6. Put(demands, demands', matrix_size, v, l[2])
  <2>1. 2 \in 1 .. Len(t) /\ \A j \in 1 .. Len(t) : t[j].field = "demand" => j = 2
    BY <1>1, <1>2
  <2>2. QED
    BY <1>1, <1>4, <2>1, FilledPuts DEF Sized
<1>7. QED
  BY <1>4, <1>5, <1>6 DEF DemandPut

LEMMA DepotEffect ==
  ASSUME NEW l, FieldsInv, Sized, Effect(Reads(<<To("x", 0), To("y", 0)>>).targets, l)
  PROVE  PlacePut(0, l[1], l[2])
<1> DEFINE t == Reads(<<To("x", 0), To("y", 0)>>).targets
<1>1. Len(t) = 2 /\ t[1] = To("x", 0) /\ t[2] = To("y", 0)
  BY DEF Reads
<1> HIDE DEF t
<1>2. t[1].field = "x" /\ t[2].field = "y" /\ \A i \in 1 .. Len(t) : i \in {1, 2}
  BY <1>1 DEF To
<1>3. \A i \in 1 .. Len(t) : t[i].field \in {"none", "x", "y", "demand"}
  BY <1>2
<1>4. /\ SameSizes
      /\ x_coordinates' = Filled(t, l, x_coordinates, "x")
      /\ y_coordinates' = Filled(t, l, y_coordinates, "y")
      /\ demands' = Filled(t, l, demands, "demand")
  BY <1>3, NoSizes DEF FieldsInv, t
<1>5. Put(x_coordinates, x_coordinates', matrix_size, 0, l[1])
  <2>1. 1 \in 1 .. Len(t) /\ \A j \in 1 .. Len(t) : t[j].field = "x" => j = 1
    BY <1>1, <1>2
  <2>2. QED
    BY <1>1, <1>4, <2>1, FilledPuts DEF Sized
<1>6. Put(y_coordinates, y_coordinates', matrix_size, 0, l[2])
  <2>1. 2 \in 1 .. Len(t) /\ \A j \in 1 .. Len(t) : t[j].field = "y" => j = 2
    BY <1>1, <1>2
  <2>2. QED
    BY <1>1, <1>4, <2>1, FilledPuts DEF Sized
<1>7. Keep(demands, demands', matrix_size)
  <2>1. \A i \in 1 .. Len(t) : t[i].field # "demand"
    BY <1>2
  <2>2. QED
    BY <1>4, <2>1, FilledKeeps DEF Sized
<1>8. QED
  BY <1>4, <1>5, <1>6, <1>7 DEF PlacePut

LEMMA KeyEffect ==
  ASSUME NEW l, FieldsInv
  PROVE  /\ Effect(Keyed("size").targets, l) => matrix_size' = l[1]
         /\ Effect(Keyed("capacity").targets, l) => matrix_size' = matrix_size /\ capacity' = l[1]
<1>1. \A k : Len(Keyed(k).targets) = 1 /\ Keyed(k).targets[1] = To(k, 0)
  BY DEF Keyed
<1>2. matrix_size \in Nat /\ matrix_size - 1 + 1 = matrix_size
  BY DEF FieldsInv
<1>3. ASSUME Effect(Keyed("size").targets, l) PROVE matrix_size' = l[1]
  <2> DEFINE t == Keyed("size").targets
  <2>0. Len(t) = 1 /\ t[1] = To("size", 0)
    BY <1>1
  <2> HIDE DEF t
  <2>1. 1 \in 1 .. Len(t) /\ t[1] = To("size", 0) /\ \A j \in 1 .. Len(t) : j = 1
    BY <2>0
  <2>2. \A old : Picked(t, l, "size", 0, old) = l[1]
    BY <2>1, PickedIs
  <2>3. QED
    BY <1>3, <2>2 DEF Effect, t
<1>4. ASSUME Effect(Keyed("capacity").targets, l)
      PROVE  matrix_size' = matrix_size /\ capacity' = l[1]
  <2> DEFINE t == Keyed("capacity").targets
  <2>0. Len(t) = 1 /\ t[1] = To("capacity", 0)
    BY <1>1
  <2> HIDE DEF t
  <2>1. 1 \in 1 .. Len(t) /\ t[1] = To("capacity", 0) /\ \A j \in 1 .. Len(t) : j = 1
    BY <2>0
  <2>2. \A old : Picked(t, l, "capacity", 0, old) = l[1]
    BY <2>1, PickedIs
  <2>3. \A j \in 1 .. Len(t) : t[j] # To("size", 0) /\ t[j] # To("customers", 0)
    BY <2>1, ToSame
  <2>4. \A old : Picked(t, l, "size", 0, old) = old /\ Picked(t, l, "customers", 0, old) = old
    BY <2>3, PickedNot
  <2>5. QED
    BY <1>2, <1>4, <2>2, <2>4 DEF Effect, t
<1>5. QED
  BY <1>3, <1>4

LEMMA ZkFirstEffect ==
  ASSUME NEW l, Effect(<<To("customers", 0), To("capacity", 0)>>, l)
  PROVE  matrix_size' = l[1] + 1 /\ capacity' = l[2]
<1> DEFINE t == <<To("customers", 0), To("capacity", 0)>>
<1>1. Len(t) = 2 /\ t[1] = To("customers", 0) /\ t[2] = To("capacity", 0)
  OBVIOUS
<1> HIDE DEF t
<1>2. 1 \in 1 .. Len(t) /\ 2 \in 1 .. Len(t) /\ \A j \in 1 .. Len(t) : j \in {1, 2}
  BY <1>1
<1>3. \A j \in 1 .. Len(t) : t[j] # To("size", 0)
  BY <1>1, <1>2, ToSame
<1>4. (\A j \in 1 .. Len(t) : t[j] = To("customers", 0) => j = 1)
      /\ (\A j \in 1 .. Len(t) : t[j] = To("capacity", 0) => j = 2)
  BY <1>1, <1>2, ToSame
<1>5. \A old : /\ Picked(t, l, "size", 0, old) = old
               /\ Picked(t, l, "customers", 0, old) = l[1]
               /\ Picked(t, l, "capacity", 0, old) = l[2]
  <2> TAKE old
  <2>1. Picked(t, l, "size", 0, old) = old
    BY <1>3, PickedNot
  <2>2. Picked(t, l, "customers", 0, old) = l[1]
    <3>1. (CHOOSE j \in 1 .. Len(t) : t[j] = To("customers", 0)) = 1
      BY <1>1, <1>2, <1>4
    <3>2. QED
      BY <1>1, <1>2, <3>1 DEF Picked
  <2>3. Picked(t, l, "capacity", 0, old) = l[2]
    <3>1. (CHOOSE j \in 1 .. Len(t) : t[j] = To("capacity", 0)) = 2
      BY <1>1, <1>2, <1>4
    <3>2. QED
      BY <1>1, <1>2, <3>1 DEF Picked
  <2>4. QED
    BY <2>1, <2>2, <2>3
<1>6. QED
  BY <1>5 DEF Effect, t

LEMMA ZkOtherEffect ==
  ASSUME NEW l, NEW v, FieldsInv, Sized,
         Effect(<<Index, To("x", v), To("y", v), To("demand", v)>>, l)
  PROVE  /\ SameSizes
         /\ Put(x_coordinates, x_coordinates', matrix_size, v, l[2])
         /\ Put(y_coordinates, y_coordinates', matrix_size, v, l[3])
         /\ Put(demands, demands', matrix_size, v, l[4])
<1> DEFINE t == <<Index, To("x", v), To("y", v), To("demand", v)>>
<1>1. Len(t) = 4 /\ t[1] = To("none", 0) /\ t[2] = To("x", v) /\ t[3] = To("y", v) /\ t[4] = To("demand", v)
  BY DEF Index
<1> HIDE DEF t
<1>2. /\ t[1].field = "none" /\ t[2].field = "x" /\ t[3].field = "y" /\ t[4].field = "demand"
      /\ \A i \in 1 .. Len(t) : i \in {1, 2, 3, 4}
  BY <1>1 DEF To
<1>3. \A i \in 1 .. Len(t) : t[i].field \in {"none", "x", "y", "demand"}
  BY <1>2
<1>4. /\ SameSizes
      /\ x_coordinates' = Filled(t, l, x_coordinates, "x")
      /\ y_coordinates' = Filled(t, l, y_coordinates, "y")
      /\ demands' = Filled(t, l, demands, "demand")
  BY <1>3, NoSizes DEF FieldsInv, t
<1>5. Put(x_coordinates, x_coordinates', matrix_size, v, l[2])
  <2>1. 2 \in 1 .. Len(t) /\ \A j \in 1 .. Len(t) : t[j].field = "x" => j = 2
    BY <1>1, <1>2
  <2>2. QED
    BY <1>1, <1>4, <2>1, FilledPuts DEF Sized
<1>6. Put(y_coordinates, y_coordinates', matrix_size, v, l[3])
  <2>1. 3 \in 1 .. Len(t) /\ \A j \in 1 .. Len(t) : t[j].field = "y" => j = 3
    BY <1>1, <1>2
  <2>2. QED
    BY <1>1, <1>4, <2>1, FilledPuts DEF Sized
<1>7. Put(demands, demands', matrix_size, v, l[4])
  <2>1. 4 \in 1 .. Len(t) /\ \A j \in 1 .. Len(t) : t[j].field = "demand" => j = 4
    BY <1>1, <1>2
  <2>2. QED
    BY <1>1, <1>4, <2>1, FilledPuts DEF Sized
<1>8. QED
  BY <1>4, <1>5, <1>6, <1>7

-----------------------------------------------------------------------------
(* The steps of each parser: what it accepts and what it takes.            *)

ZkAccepts(k, l) == Gives(l, IF k = 1 THEN 2 ELSE 4)

GoldenAccepts(n, k, l) ==
  /\ k \in {4, 5} => Gives(AfterColon(l), 1)
  /\ k \in 11 .. 9 + n => Gives(l, 3)
  /\ k \in 11 + n .. 9 + 2 * n => Gives(l, 2)
  /\ k = 11 + 2 * n => Gives(l, 2)

XAccepts(n, k, l) ==
  /\ k \in {4, 6} => Gives(AfterColon(l), 1)
  /\ k \in 8 .. 7 + n => Gives(l, 3)
  /\ k \in 9 + n .. 8 + 2 * n => Gives(l, 2)

ZkTakes(l) ==
  /\ pc = 1 => matrix_size' = l[1] + 1 /\ capacity' = l[2]
  /\ pc # 1 => /\ SameSizes
               /\ Put(x_coordinates, x_coordinates', matrix_size, pc - 2, l[2])
               /\ Put(y_coordinates, y_coordinates', matrix_size, pc - 2, l[3])
               /\ Put(demands, demands', matrix_size, pc - 2, l[4])

GoldenTakes(l) ==
  /\ pc = 4 => Says(l, matrix_size')
  /\ pc = 5 => matrix_size' = matrix_size /\ Says(l, capacity')
  /\ pc > 5 =>
       \/ pc \in 11 .. 9 + matrix_size /\ PlacePut(pc - 10, l[2], l[3])
       \/ pc \in 11 + matrix_size .. 9 + 2 * matrix_size /\ DemandPut(pc - 10 - matrix_size, l[2])
       \/ pc = 11 + 2 * matrix_size /\ PlacePut(0, l[1], l[2])
       \/ /\ pc \notin (11 .. 9 + matrix_size) \cup (11 + matrix_size .. 9 + 2 * matrix_size) \cup {11 + 2 * matrix_size}
          /\ Kept

XTakes(l) ==
  /\ pc = 4 => Says(l, matrix_size')
  /\ pc = 5 => matrix_size' = matrix_size
  /\ pc = 6 => matrix_size' = matrix_size /\ Says(l, capacity')
  /\ pc > 6 =>
       \/ pc \in 8 .. 7 + matrix_size /\ PlacePut(pc - 8, l[2], l[3])
       \/ pc \in 9 + matrix_size .. 8 + 2 * matrix_size /\ DemandPut(pc - 9 - matrix_size, l[2])
       \/ /\ pc \notin (8 .. 7 + matrix_size) \cup (9 + matrix_size .. 8 + 2 * matrix_size)
          /\ Kept

LEMMA Lengths ==
  /\ \A n : Len(Coordinates(n).targets) = 3 /\ ~Coordinates(n).keyed
  /\ \A n : Len(DemandOf(n).targets) = 2 /\ ~DemandOf(n).keyed
  /\ \A k : Len(Keyed(k).targets) = 1 /\ Keyed(k).keyed
  /\ Len(Skip.targets) = 0 /\ ~Skip.keyed
  /\ Len(Reads(<<To("x", 0), To("y", 0)>>).targets) = 2 /\ ~Reads(<<To("x", 0), To("y", 0)>>).keyed
BY DEF Coordinates, DemandOf, Keyed, Skip, Reads

LEMMA ZkStep ==
  ASSUME FieldsInv, ReadLine, parser = "zk"
  PROVE  \/ ZkAccepts(pc, GetLine) /\ GoesOn /\ ZkTakes(GetLine)
         \/ ~ZkAccepts(pc, GetLine) /\ NextParser
<1>1. Instruction = ZkLine(pc) /\ phase = "parse"
  BY DEF Instruction, ReadLine
<1>2. CASE pc = 1
  <2>1. Instruction = [keyed |-> FALSE, targets |-> <<To("customers", 0), To("capacity", 0)>>]
    BY <1>1, <1>2 DEF ZkLine, Reads
  <2>2. ReadFrom = GetLine /\ Len(Instruction.targets) = 2
    BY <2>1 DEF ReadFrom
  <2>3. Effect(Instruction.targets, GetLine) => ZkTakes(GetLine)
    BY <1>2, <2>1, ZkFirstEffect DEF ZkTakes
  <2>4. ZkAccepts(pc, GetLine) <=> Gives(ReadFrom, Len(Instruction.targets))
    BY <1>2, <2>2 DEF ZkAccepts
  <2>5. QED
    BY <2>2, <2>3, <2>4, ReadOn
<1>3. CASE pc # 1
  <2>1. Instruction = [keyed |-> FALSE,
                       targets |-> <<Index, To("x", pc - 2), To("y", pc - 2), To("demand", pc - 2)>>]
    BY <1>1, <1>3 DEF ZkLine, Reads
  <2>2. ReadFrom = GetLine /\ Len(Instruction.targets) = 4
    BY <2>1 DEF ReadFrom
  <2>3. Sized
    BY <1>1, <1>3 DEF FieldsInv, CapacityLine
  <2>4. Effect(Instruction.targets, GetLine) => ZkTakes(GetLine)
    BY <1>3, <2>1, <2>3, ZkOtherEffect DEF ZkTakes
  <2>5. ZkAccepts(pc, GetLine) <=> Gives(ReadFrom, Len(Instruction.targets))
    BY <1>3, <2>2 DEF ZkAccepts
  <2>6. QED
    BY <2>2, <2>4, <2>5, ReadOn
<1>4. QED
  BY <1>2, <1>3

LEMMA KeyStep ==
  ASSUME FieldsInv, ReadLine, NEW k \in {"size", "capacity"}, Instruction = Keyed(k)
  PROVE  \/ /\ Gives(AfterColon(GetLine), 1) /\ GoesOn
            /\ k = "size" => Says(GetLine, matrix_size')
            /\ k = "capacity" => matrix_size' = matrix_size /\ Says(GetLine, capacity')
         \/ ~Gives(AfterColon(GetLine), 1) /\ NextParser
<1> DEFINE l == AfterColon(GetLine)
<1>1. ReadFrom = l /\ Len(Instruction.targets) = 1
  BY Lengths DEF ReadFrom
<1>2. AfterColon(GetLine) = l
  OBVIOUS
<1> HIDE DEF l
<1>3. CASE ~Gives(l, 1)
  BY <1>1, <1>2, <1>3, ReadOn
<1>4. CASE Gives(l, 1)
  <2>1. GoesOn /\ Effect(Keyed(k).targets, l)
    BY <1>1, <1>4, ReadOn
  <2>2. CASE k = "size"
    <3>1. matrix_size' = l[1]
      BY <2>1, <2>2, KeyEffect
    <3>2. QED
      BY <1>2, <1>4, <2>1, <2>2, <3>1 DEF Says
  <2>3. CASE k = "capacity"
    <3>1. matrix_size' = matrix_size /\ capacity' = l[1]
      BY <2>1, <2>3, KeyEffect
    <3>2. QED
      BY <1>2, <1>4, <2>1, <2>3, <3>1 DEF Says
  <2>4. QED
    BY <2>2, <2>3
<1>5. QED
  BY <1>3, <1>4

LEMMA SkipStep ==
  ASSUME FieldsInv, ReadLine, Instruction = Skip
  PROVE  GoesOn /\ SameSizes /\ (Sized => Kept)
<1>1. Len(Instruction.targets) = 0 /\ Gives(ReadFrom, 0)
  <2>1. ReadFrom \in Seq(Tokens)
    BY GetLineType, AfterColonType DEF ReadFrom
  <2>2. Len(Instruction.targets) = 0
    BY Lengths
  <2>3. QED
    BY <2>1, <2>2 DEF Gives
<1>2. GoesOn /\ Effect(Skip.targets, ReadFrom)
  BY <1>1, ReadOn
<1>3. QED
  BY <1>2, SkipEffect

LEMMA CoordinatesStep ==
  ASSUME FieldsInv, ReadLine, NEW v, Instruction = Coordinates(v), Sized
  PROVE  \/ Gives(GetLine, 3) /\ GoesOn /\ PlacePut(v, GetLine[2], GetLine[3])
         \/ ~Gives(GetLine, 3) /\ NextParser
<1>1. Len(Instruction.targets) = 3 /\ ReadFrom = GetLine
  BY Lengths DEF ReadFrom
<1>2. QED
  BY <1>1, ReadOn, CoordinatesEffect

LEMMA DemandStep ==
  ASSUME FieldsInv, ReadLine, NEW v, Instruction = DemandOf(v), Sized
  PROVE  \/ Gives(GetLine, 2) /\ GoesOn /\ DemandPut(v, GetLine[2])
         \/ ~Gives(GetLine, 2) /\ NextParser
<1>1. Len(Instruction.targets) = 2 /\ ReadFrom = GetLine
  BY Lengths DEF ReadFrom
<1>2. QED
  BY <1>1, ReadOn, DemandEffect

LEMMA DepotStep ==
  ASSUME FieldsInv, ReadLine, Instruction = Reads(<<To("x", 0), To("y", 0)>>), Sized
  PROVE  \/ Gives(GetLine, 2) /\ GoesOn /\ PlacePut(0, GetLine[1], GetLine[2])
         \/ ~Gives(GetLine, 2) /\ NextParser
<1>1. Len(Instruction.targets) = 2 /\ ReadFrom = GetLine
  BY Lengths DEF ReadFrom
<1>2. QED
  BY <1>1, ReadOn, DepotEffect

LEMMA GoldenStep ==
  ASSUME FieldsInv, ReadLine, parser = "golden"
  PROVE  \/ GoldenAccepts(matrix_size, pc, GetLine) /\ GoesOn /\ GoldenTakes(GetLine)
         \/ ~GoldenAccepts(matrix_size, pc, GetLine) /\ NextParser
<1>0. PICK n \in Nat : matrix_size = n
  BY DEF FieldsInv
<1>1. Instruction = GoldenLine(pc) /\ phase = "parse" /\ pc \in Nat \ {0}
  BY DEF Instruction, ReadLine, FieldsInv
<1>2. pc > 5 => Sized
  BY <1>1 DEF FieldsInv, CapacityLine
<1>3. CASE pc = 4
  <2>1. Instruction = Keyed("size")
    BY <1>0, <1>1, <1>3 DEF GoldenLine
  <2>2. GoldenAccepts(matrix_size, pc, GetLine) <=> Gives(AfterColon(GetLine), 1)
    BY <1>0, <1>3 DEF GoldenAccepts
  <2>3. Says(GetLine, matrix_size') => GoldenTakes(GetLine)
    BY <1>3 DEF GoldenTakes
  <2>4. QED
    BY <2>1, <2>2, <2>3, KeyStep
<1>4. CASE pc = 5
  <2>1. Instruction = Keyed("capacity")
    BY <1>0, <1>1, <1>4 DEF GoldenLine
  <2>2. GoldenAccepts(matrix_size, pc, GetLine) <=> Gives(AfterColon(GetLine), 1)
    BY <1>0, <1>4 DEF GoldenAccepts
  <2>3. matrix_size' = matrix_size /\ Says(GetLine, capacity') => GoldenTakes(GetLine)
    BY <1>4 DEF GoldenTakes
  <2>4. QED
    BY <2>1, <2>2, <2>3, KeyStep
<1>5. CASE pc \in 11 .. 9 + n
  <2>1. Instruction = Coordinates(pc - 10)
    BY <1>0, <1>1, <1>5 DEF GoldenLine
  <2>2. GoldenAccepts(n, pc, GetLine) <=> Gives(GetLine, 3)
    BY <1>5 DEF GoldenAccepts
  <2>3. PlacePut(pc - 10, GetLine[2], GetLine[3]) => GoldenTakes(GetLine)
    BY <1>0, <1>5 DEF GoldenTakes
  <2>4. QED
    BY <1>0, <1>2, <1>5, <2>1, <2>2, <2>3, CoordinatesStep
<1>6. CASE pc \in 11 + n .. 9 + 2 * n
  <2>1. Instruction = DemandOf(pc - 10 - n)
    BY <1>0, <1>1, <1>6 DEF GoldenLine
  <2>2. GoldenAccepts(n, pc, GetLine) <=> Gives(GetLine, 2)
    BY <1>6 DEF GoldenAccepts
  <2>3. DemandPut(pc - 10 - n, GetLine[2]) => GoldenTakes(GetLine)
    BY <1>0, <1>6 DEF GoldenTakes
  <2>4. QED
    BY <1>0, <1>2, <1>6, <2>1, <2>2, <2>3, DemandStep
<1>7. CASE pc = 11 + 2 * n
  <2>1. Instruction = Reads(<<To("x", 0), To("y", 0)>>)
    BY <1>0, <1>1, <1>7 DEF GoldenLine
  <2>2. GoldenAccepts(n, pc, GetLine) <=> Gives(GetLine, 2)
    BY <1>7 DEF GoldenAccepts
  <2>3. PlacePut(0, GetLine[1], GetLine[2]) => GoldenTakes(GetLine)
    BY <1>0, <1>7 DEF GoldenTakes
  <2>4. QED
    BY <1>0, <1>2, <1>7, <2>1, <2>2, <2>3, DepotStep
<1>8. CASE pc \notin {4, 5} \cup (11 .. 9 + n) \cup (11 + n .. 9 + 2 * n) \cup {11 + 2 * n}
  <2>1. Instruction = Skip
    BY <1>0, <1>1, <1>8 DEF GoldenLine
  <2>2. GoldenAccepts(n, pc, GetLine)
    BY <1>8 DEF GoldenAccepts
  <2>3. (pc > 5 => Kept) => GoldenTakes(GetLine)
    BY <1>0, <1>1, <1>8 DEF GoldenTakes
  <2>4. QED
    BY <1>0, <1>2, <2>1, <2>2, <2>3, SkipStep
<1>9. QED
  BY <1>3, <1>4, <1>5, <1>6, <1>7, <1>8

LEMMA XStep ==
  ASSUME FieldsInv, ReadLine, parser = "x"
  PROVE  \/ XAccepts(matrix_size, pc, GetLine) /\ GoesOn /\ XTakes(GetLine)
         \/ ~XAccepts(matrix_size, pc, GetLine) /\ NextParser
<1>0. PICK n \in Nat : matrix_size = n
  BY DEF FieldsInv
<1>1. Instruction = XLine(pc) /\ phase = "parse" /\ pc \in Nat \ {0}
  BY DEF Instruction, ReadLine, FieldsInv
<1>2. pc > 6 => Sized
  BY <1>1 DEF FieldsInv, CapacityLine
<1>3. CASE pc = 4
  <2>1. Instruction = Keyed("size")
    BY <1>0, <1>1, <1>3 DEF XLine
  <2>2. XAccepts(matrix_size, pc, GetLine) <=> Gives(AfterColon(GetLine), 1)
    BY <1>0, <1>3 DEF XAccepts
  <2>3. Says(GetLine, matrix_size') => XTakes(GetLine)
    BY <1>3 DEF XTakes
  <2>4. QED
    BY <2>1, <2>2, <2>3, KeyStep
<1>4. CASE pc = 6
  <2>1. Instruction = Keyed("capacity")
    BY <1>0, <1>1, <1>4 DEF XLine
  <2>2. XAccepts(matrix_size, pc, GetLine) <=> Gives(AfterColon(GetLine), 1)
    BY <1>0, <1>4 DEF XAccepts
  <2>3. matrix_size' = matrix_size /\ Says(GetLine, capacity') => XTakes(GetLine)
    BY <1>4 DEF XTakes
  <2>4. QED
    BY <2>1, <2>2, <2>3, KeyStep
<1>5. CASE pc \in 8 .. 7 + n
  <2>1. Instruction = Coordinates(pc - 8)
    BY <1>0, <1>1, <1>5 DEF XLine
  <2>2. XAccepts(n, pc, GetLine) <=> Gives(GetLine, 3)
    BY <1>5 DEF XAccepts
  <2>3. PlacePut(pc - 8, GetLine[2], GetLine[3]) => XTakes(GetLine)
    BY <1>0, <1>5 DEF XTakes
  <2>4. QED
    BY <1>0, <1>2, <1>5, <2>1, <2>2, <2>3, CoordinatesStep
<1>6. CASE pc \in 9 + n .. 8 + 2 * n
  <2>1. Instruction = DemandOf(pc - 9 - n)
    BY <1>0, <1>1, <1>6 DEF XLine
  <2>2. XAccepts(n, pc, GetLine) <=> Gives(GetLine, 2)
    BY <1>6 DEF XAccepts
  <2>3. DemandPut(pc - 9 - n, GetLine[2]) => XTakes(GetLine)
    BY <1>0, <1>6 DEF XTakes
  <2>4. QED
    BY <1>0, <1>2, <1>6, <2>1, <2>2, <2>3, DemandStep
<1>7. CASE pc \notin {4, 6} \cup (8 .. 7 + n) \cup (9 + n .. 8 + 2 * n)
  <2>1. Instruction = Skip
    BY <1>0, <1>1, <1>7 DEF XLine
  <2>2. XAccepts(n, pc, GetLine)
    BY <1>7 DEF XAccepts
  <2>3. SameSizes /\ (pc > 6 => Kept) => XTakes(GetLine)
    BY <1>0, <1>1, <1>7 DEF XTakes, SameSizes
  <2>4. QED
    BY <1>0, <1>2, <2>1, <2>2, <2>3, SkipStep
<1>8. QED
  BY <1>3, <1>4, <1>5, <1>6, <1>7

-----------------------------------------------------------------------------
(* What has been taken stays taken, and the line just read is added to it. *)

ReadNow == /\ FieldsInv
           /\ Known(file, pc) => GetLine = LineAt(file.lines, pc)

LEMMA ZkTaken ==
  ASSUME ReadNow, pc <= matrix_size + 1, ZkAccepts(pc, GetLine), ZkTakes(GetLine),
         ZkRead(file, pc, matrix_size, capacity, x_coordinates, y_coordinates, demands)
  PROVE  ZkRead(file, pc + 1, matrix_size', capacity', x_coordinates', y_coordinates', demands')
<1>0. pc \in Nat \ {0} /\ matrix_size \in Nat
  BY DEF ReadNow, FieldsInv
<1> DEFINE L(k) == LineAt(file.lines, k)
           X == x_coordinates'
           Y == y_coordinates'
           D == demands'
           n == matrix_size'
<1>1. CASE pc = 1
  <2>1. Known(file, 1) => Gives(L(1), 2) /\ n = L(1)[1] + 1 /\ capacity' = L(1)[2]
    BY <1>1 DEF ReadNow, ZkAccepts, ZkTakes
  <2>2. ~(\E v \in 0 .. n - 1 : 2 + v < pc + 1)
    BY <1>1
  <2> HIDE DEF L, X, Y, D, n
  <2>3. QED
    BY <2>1, <2>2 DEF ZkRead, L, X, Y, D, n
<1>2. CASE pc # 1
  <2>1. SameSizes /\ n = matrix_size /\ capacity' = capacity
    BY <1>2 DEF ZkTakes, SameSizes
  <2>2. 1 < pc + 1 /\ Known(file, 1) => Gives(L(1), 2) /\ n = L(1)[1] + 1 /\ capacity' = L(1)[2]
    <3>1. 1 < pc
      BY <1>0, <1>2
    <3>2. QED
      BY <2>1, <3>1 DEF ZkRead
  <2>3. ASSUME NEW v \in 0 .. n - 1, 2 + v < pc + 1, Known(file, 2 + v)
        PROVE  Gives(L(2 + v), 4) /\ PlaceTaken(L(2 + v), X, Y, v) /\ D[v] = L(2 + v)[4]
    <3>1. v \in AllVertices(matrix_size) /\ v \in 0 .. matrix_size - 1
      BY <2>1 DEF AllVertices
    <3>2. /\ X[v] = (IF v = pc - 2 THEN GetLine[2] ELSE x_coordinates[v])
          /\ Y[v] = (IF v = pc - 2 THEN GetLine[3] ELSE y_coordinates[v])
          /\ D[v] = (IF v = pc - 2 THEN GetLine[4] ELSE demands[v])
      BY <1>2, <3>1 DEF ZkTakes, Put
    <3>3. CASE 2 + v = pc
      <4>1. v = pc - 2 /\ L(2 + v) = GetLine /\ Gives(GetLine, 4)
        BY <1>0, <1>2, <2>3, <3>3 DEF ReadNow, ZkAccepts
      <4>2. Gives(GetLine, 3)
        BY <4>1 DEF Gives
      <4>3. QED
        BY <3>2, <4>1, <4>2 DEF PlaceTaken
    <3>4. CASE 2 + v < pc
      <4>1. /\ Gives(L(2 + v), 4) /\ PlaceTaken(L(2 + v), x_coordinates, y_coordinates, v)
            /\ demands[v] = L(2 + v)[4]
        BY <2>3, <3>1, <3>4 DEF ZkRead
      <4>2. v # pc - 2
        BY <1>0, <3>4
      <4>3. QED
        BY <3>2, <4>1, <4>2 DEF PlaceTaken
    <3>5. QED
      BY <1>0, <2>3, <3>3, <3>4
  <2> HIDE DEF L, X, Y, D, n
  <2>4. QED
    BY <2>2, <2>3 DEF ZkRead, L, X, Y, D, n
<1>3. QED
  BY <1>1, <1>2

LEMMA GoldenEarly ==
  ASSUME NEW f, NEW p \in Nat, p <= 6, NEW n \in Nat, NEW q, NEW x, NEW y, NEW d,
         4 < p /\ Known(f, 4) => Says(LineAt(f.lines, 4), n),
         5 < p /\ Known(f, 5) => Says(LineAt(f.lines, 5), q)
  PROVE  GoldenRead(f, p, n, q, x, y, d)
<1>1. \A v \in 1 .. n - 1 : ~(10 + v < p) /\ ~(10 + n + v < p)
  OBVIOUS
<1>2. ~(11 + 2 * n < p)
  OBVIOUS
<1>3. QED
  BY <1>1, <1>2 DEF GoldenRead

LEMMA XEarly ==
  ASSUME NEW f, NEW p \in Nat, p <= 7, NEW n \in Nat, NEW q, NEW x, NEW y, NEW d,
         4 < p /\ Known(f, 4) => Says(LineAt(f.lines, 4), n),
         6 < p /\ Known(f, 6) => Says(LineAt(f.lines, 6), q)
  PROVE  XRead(f, p, n, q, x, y, d)
<1>1. \A v \in 0 .. n - 1 : ~(8 + v < p) /\ ~(9 + n + v < p)
  OBVIOUS
<1>2. QED
  BY <1>1 DEF XRead

\* The vertex whose coordinates, or whose demand, the line at hand gives.
GoldenSets(n, l, X, Y, D) ==
  /\ \A v \in 1 .. n - 1 :
       /\ X[v] = IF pc = 10 + v THEN l[2] ELSE x_coordinates[v]
       /\ Y[v] = IF pc = 10 + v THEN l[3] ELSE y_coordinates[v]
       /\ D[v] = IF pc = 10 + n + v THEN l[2] ELSE demands[v]
  /\ n > 0 => /\ X[0] = IF pc = 11 + 2 * n THEN l[1] ELSE x_coordinates[0]
              /\ Y[0] = IF pc = 11 + 2 * n THEN l[2] ELSE y_coordinates[0]

LEMMA GoldenTakesSets ==
  ASSUME NEW n \in Nat, matrix_size = n, pc \in Nat, pc > 5, NEW l, GoldenTakes(l)
  PROVE  SameSizes /\ GoldenSets(n, l, x_coordinates', y_coordinates', demands')
<1>1. AllVertices(n) = 0 .. n - 1
  BY DEF AllVertices
<1>2. CASE pc \in 11 .. 9 + n /\ PlacePut(pc - 10, l[2], l[3])
  <2>1. \A u \in 0 .. n - 1 : /\ x_coordinates'[u] = IF u = pc - 10 THEN l[2] ELSE x_coordinates[u]
                              /\ y_coordinates'[u] = IF u = pc - 10 THEN l[3] ELSE y_coordinates[u]
                              /\ demands'[u] = demands[u]
    BY <1>1, <1>2 DEF PlacePut, Put, Keep
  <2>2. \A v \in 1 .. n - 1 : v \in 0 .. n - 1 /\ (v = pc - 10 <=> pc = 10 + v) /\ pc # 10 + n + v
    BY <1>2
  <2>3. n > 0 => 0 \in 0 .. n - 1 /\ 0 # pc - 10 /\ pc # 11 + 2 * n
    BY <1>2
  <2>4. SameSizes
    BY <1>2 DEF PlacePut
  <2>5. QED
    BY <2>1, <2>2, <2>3, <2>4 DEF GoldenSets
<1>3. CASE pc \in 11 + n .. 9 + 2 * n /\ DemandPut(pc - 10 - n, l[2])
  <2>1. \A u \in 0 .. n - 1 : /\ x_coordinates'[u] = x_coordinates[u] /\ y_coordinates'[u] = y_coordinates[u]
                              /\ demands'[u] = IF u = pc - 10 - n THEN l[2] ELSE demands[u]
    BY <1>1, <1>3 DEF DemandPut, Put, Keep
  <2>2. \A v \in 1 .. n - 1 : v \in 0 .. n - 1 /\ (v = pc - 10 - n <=> pc = 10 + n + v) /\ pc # 10 + v
    BY <1>3
  <2>3. n > 0 => 0 \in 0 .. n - 1 /\ pc # 11 + 2 * n
    BY <1>3
  <2>4. SameSizes
    BY <1>3 DEF DemandPut
  <2>5. QED
    BY <2>1, <2>2, <2>3, <2>4 DEF GoldenSets
<1>4. CASE pc = 11 + 2 * n /\ PlacePut(0, l[1], l[2])
  <2>1. \A u \in 0 .. n - 1 : /\ x_coordinates'[u] = IF u = 0 THEN l[1] ELSE x_coordinates[u]
                              /\ y_coordinates'[u] = IF u = 0 THEN l[2] ELSE y_coordinates[u]
                              /\ demands'[u] = demands[u]
    BY <1>1, <1>4 DEF PlacePut, Put, Keep
  <2>2. \A v \in 1 .. n - 1 : v \in 0 .. n - 1 /\ v # 0 /\ pc # 10 + v /\ pc # 10 + n + v
    BY <1>4
  <2>3. n > 0 => 0 \in 0 .. n - 1
    OBVIOUS
  <2>4. SameSizes
    BY <1>4 DEF PlacePut
  <2>5. QED
    BY <1>4, <2>1, <2>2, <2>3, <2>4 DEF GoldenSets
<1>5. CASE /\ pc \notin (11 .. 9 + n) \cup (11 + n .. 9 + 2 * n) \cup {11 + 2 * n}
           /\ Kept
  <2>1. \A u \in 0 .. n - 1 : /\ x_coordinates'[u] = x_coordinates[u] /\ y_coordinates'[u] = y_coordinates[u]
                              /\ demands'[u] = demands[u]
    BY <1>1, <1>5 DEF Kept, Keep
  <2>2. \A v \in 1 .. n - 1 : v \in 0 .. n - 1 /\ pc # 10 + v /\ pc # 10 + n + v
    <3> SUFFICES ASSUME NEW v \in 1 .. n - 1 PROVE v \in 0 .. n - 1 /\ pc # 10 + v /\ pc # 10 + n + v
      OBVIOUS
    <3>1. 10 + v \in 11 .. 9 + n /\ 10 + n + v \in 11 + n .. 9 + 2 * n
      OBVIOUS
    <3>2. QED
      BY <1>5, <3>1
  <2>3. n > 0 => 0 \in 0 .. n - 1
    OBVIOUS
  <2>4. SameSizes /\ pc # 11 + 2 * n
    BY <1>5 DEF Kept
  <2>5. QED
    BY <2>1, <2>2, <2>3, <2>4 DEF GoldenSets
<1>6. QED
  BY <1>2, <1>3, <1>4, <1>5 DEF GoldenTakes

LEMMA GoldenTaken ==
  ASSUME ReadNow, matrix_size' \in Nat, GoldenAccepts(matrix_size, pc, GetLine), GoldenTakes(GetLine),
         GoldenRead(file, pc, matrix_size, capacity, x_coordinates, y_coordinates, demands)
  PROVE  GoldenRead(file, pc + 1, matrix_size', capacity', x_coordinates', y_coordinates', demands')
<1>0. pc \in Nat \ {0} /\ matrix_size \in Nat /\ (Known(file, pc) => GetLine = LineAt(file.lines, pc))
  BY DEF ReadNow, FieldsInv
<1>1. ASSUME pc <= 5,
             4 < pc + 1 /\ Known(file, 4) => Says(LineAt(file.lines, 4), matrix_size'),
             5 < pc + 1 /\ Known(file, 5) => Says(LineAt(file.lines, 5), capacity')
      PROVE  GoldenRead(file, pc + 1, matrix_size', capacity', x_coordinates', y_coordinates', demands')
  <2>1. pc + 1 \in Nat /\ pc + 1 <= 6
    BY <1>0, <1>1
  <2>2. QED
    BY <1>1, <2>1, GoldenEarly
<1>2. CASE pc <= 4
  <2>1. 4 < pc + 1 /\ Known(file, 4) => Says(LineAt(file.lines, 4), matrix_size')
    <3>1. 4 < pc + 1 => pc = 4
      BY <1>0, <1>2
    <3>2. QED
      BY <1>0, <3>1 DEF GoldenTakes
  <2>2. ~(5 < pc + 1) /\ pc <= 5
    BY <1>0, <1>2
  <2>3. QED
    BY <1>1, <2>1, <2>2
<1>3. CASE pc = 5
  <2>1. Known(file, 4) => Says(LineAt(file.lines, 4), matrix_size')
    BY <1>0, <1>3 DEF GoldenTakes, GoldenRead
  <2>2. Known(file, 5) => Says(LineAt(file.lines, 5), capacity')
    BY <1>0, <1>3 DEF GoldenTakes
  <2>3. QED
    BY <1>1, <1>3, <2>1, <2>2
<1>4. CASE pc > 5
  <2> DEFINE n == matrix_size
             X == x_coordinates'
             Y == y_coordinates'
             D == demands'
             L(k) == LineAt(file.lines, k)
  <2>1. matrix_size' = n /\ capacity' = capacity /\ GoldenSets(n, GetLine, X, Y, D) /\ n \in Nat
    BY <1>0, <1>4, GoldenTakesSets DEF SameSizes
  <2>2. GoldenAccepts(n, pc, GetLine)
    OBVIOUS
  <2>3. GoldenRead(file, pc, n, capacity, x_coordinates, y_coordinates, demands)
    OBVIOUS
  <2> HIDE DEF n, X, Y, D
  <2>4. Known(file, 4) => Says(L(4), n)
    BY <1>4, <2>3, <1>0 DEF GoldenRead
  <2>5. Known(file, 5) => Says(L(5), capacity)
    BY <1>4, <2>3, <1>0 DEF GoldenRead
  <2>6. ASSUME NEW v \in 1 .. n - 1, 10 + v < pc + 1, Known(file, 10 + v)
        PROVE  PlaceTaken(L(10 + v), X, Y, v)
    <3>1. CASE pc = 10 + v
      <4>1. X[v] = GetLine[2] /\ Y[v] = GetLine[3]
        BY <2>1, <3>1 DEF GoldenSets
      <4>2. pc \in 11 .. 9 + n
        BY <2>1, <3>1
      <4>3. Gives(GetLine, 3) /\ GetLine = L(10 + v)
        BY <1>0, <2>2, <2>6, <3>1, <4>2 DEF GoldenAccepts
      <4>4. QED
        BY <4>1, <4>3 DEF PlaceTaken
    <3>2. CASE 10 + v < pc
      <4>1. X[v] = x_coordinates[v] /\ Y[v] = y_coordinates[v]
        BY <1>0, <2>1, <3>2 DEF GoldenSets
      <4>2. PlaceTaken(L(10 + v), x_coordinates, y_coordinates, v)
        BY <2>3, <2>6, <3>2 DEF GoldenRead
      <4>3. QED
        BY <4>1, <4>2 DEF PlaceTaken
    <3>3. QED
      BY <1>0, <2>1, <2>6, <3>1, <3>2
  <2>7. ASSUME NEW v \in 1 .. n - 1, 10 + n + v < pc + 1, Known(file, 10 + n + v)
        PROVE  Gives(L(10 + n + v), 2) /\ D[v] = L(10 + n + v)[2]
    <3>1. CASE pc = 10 + n + v
      <4>1. D[v] = GetLine[2]
        BY <2>1, <3>1 DEF GoldenSets
      <4>2. pc \in 11 + n .. 9 + 2 * n
        BY <2>1, <3>1
      <4>3. Gives(GetLine, 2) /\ GetLine = L(10 + n + v)
        BY <1>0, <2>2, <2>7, <3>1, <4>2 DEF GoldenAccepts
      <4>4. QED
        BY <4>1, <4>3
    <3>2. CASE 10 + n + v < pc
      <4>1. D[v] = demands[v]
        BY <1>0, <2>1, <3>2 DEF GoldenSets
      <4>2. Gives(L(10 + n + v), 2) /\ demands[v] = L(10 + n + v)[2]
        BY <2>3, <2>7, <3>2 DEF GoldenRead
      <4>3. QED
        BY <4>1, <4>2
    <3>3. QED
      BY <1>0, <2>1, <2>7, <3>1, <3>2
  <2>8. ASSUME 11 + 2 * n < pc + 1, Known(file, 11 + 2 * n)
        PROVE  /\ Gives(L(11 + 2 * n), 2)
               /\ n > 0 => X[0] = L(11 + 2 * n)[1] /\ Y[0] = L(11 + 2 * n)[2]
    <3>1. CASE pc = 11 + 2 * n
      <4>1. n > 0 => X[0] = GetLine[1] /\ Y[0] = GetLine[2]
        BY <2>1, <3>1 DEF GoldenSets
      <4>2. Gives(GetLine, 2) /\ GetLine = L(11 + 2 * n)
        BY <1>0, <2>2, <2>8, <3>1 DEF GoldenAccepts
      <4>3. QED
        BY <4>1, <4>2
    <3>2. CASE 11 + 2 * n < pc
      <4>1. n > 0 => X[0] = x_coordinates[0] /\ Y[0] = y_coordinates[0]
        BY <1>0, <2>1, <3>2 DEF GoldenSets
      <4>2. /\ Gives(L(11 + 2 * n), 2)
            /\ n > 0 => x_coordinates[0] = L(11 + 2 * n)[1] /\ y_coordinates[0] = L(11 + 2 * n)[2]
        BY <2>3, <2>8, <3>2 DEF GoldenRead
      <4>3. QED
        BY <4>1, <4>2
    <3>3. QED
      BY <1>0, <2>1, <2>8, <3>1, <3>2
  <2>9. GoldenRead(file, pc + 1, n, capacity, X, Y, D)
    BY <2>4, <2>5, <2>6, <2>7, <2>8 DEF GoldenRead
  <2>10. QED
    BY <2>1, <2>9 DEF X, Y, D
<1>5. QED
  BY <1>0, <1>2, <1>3, <1>4

XSets(n, l, X, Y, D) ==
  \A v \in 0 .. n - 1 :
    /\ X[v] = IF pc = 8 + v THEN l[2] ELSE x_coordinates[v]
    /\ Y[v] = IF pc = 8 + v THEN l[3] ELSE y_coordinates[v]
    /\ D[v] = IF pc = 9 + n + v THEN l[2] ELSE demands[v]

LEMMA XTakesSets ==
  ASSUME NEW n \in Nat, matrix_size = n, pc \in Nat, pc > 6, NEW l, XTakes(l)
  PROVE  SameSizes /\ XSets(n, l, x_coordinates', y_coordinates', demands')
<1>1. AllVertices(n) = 0 .. n - 1
  BY DEF AllVertices
<1>2. CASE pc \in 8 .. 7 + n /\ PlacePut(pc - 8, l[2], l[3])
  <2>1. \A u \in 0 .. n - 1 : /\ x_coordinates'[u] = IF u = pc - 8 THEN l[2] ELSE x_coordinates[u]
                              /\ y_coordinates'[u] = IF u = pc - 8 THEN l[3] ELSE y_coordinates[u]
                              /\ demands'[u] = demands[u]
    BY <1>1, <1>2 DEF PlacePut, Put, Keep
  <2>2. \A v \in 0 .. n - 1 : (v = pc - 8 <=> pc = 8 + v) /\ pc # 9 + n + v
    BY <1>2
  <2>3. SameSizes
    BY <1>2 DEF PlacePut
  <2>4. QED
    BY <2>1, <2>2, <2>3 DEF XSets
<1>3. CASE pc \in 9 + n .. 8 + 2 * n /\ DemandPut(pc - 9 - n, l[2])
  <2>1. \A u \in 0 .. n - 1 : /\ x_coordinates'[u] = x_coordinates[u] /\ y_coordinates'[u] = y_coordinates[u]
                              /\ demands'[u] = IF u = pc - 9 - n THEN l[2] ELSE demands[u]
    BY <1>1, <1>3 DEF DemandPut, Put, Keep
  <2>2. \A v \in 0 .. n - 1 : (v = pc - 9 - n <=> pc = 9 + n + v) /\ pc # 8 + v
    BY <1>3
  <2>3. SameSizes
    BY <1>3 DEF DemandPut
  <2>4. QED
    BY <2>1, <2>2, <2>3 DEF XSets
<1>4. CASE pc \notin (8 .. 7 + n) \cup (9 + n .. 8 + 2 * n) /\ Kept
  <2>1. \A u \in 0 .. n - 1 : /\ x_coordinates'[u] = x_coordinates[u] /\ y_coordinates'[u] = y_coordinates[u]
                              /\ demands'[u] = demands[u]
    BY <1>1, <1>4 DEF Kept, Keep
  <2>2. \A v \in 0 .. n - 1 : pc # 8 + v /\ pc # 9 + n + v
    <3> SUFFICES ASSUME NEW v \in 0 .. n - 1 PROVE pc # 8 + v /\ pc # 9 + n + v
      OBVIOUS
    <3>1. 8 + v \in 8 .. 7 + n /\ 9 + n + v \in 9 + n .. 8 + 2 * n
      OBVIOUS
    <3>2. QED
      BY <1>4, <3>1
  <2>3. SameSizes
    BY <1>4 DEF Kept
  <2>4. QED
    BY <2>1, <2>2, <2>3 DEF XSets
<1>5. QED
  BY <1>2, <1>3, <1>4 DEF XTakes

LEMMA XTaken ==
  ASSUME ReadNow, matrix_size' \in Nat, XAccepts(matrix_size, pc, GetLine), XTakes(GetLine),
         XRead(file, pc, matrix_size, capacity, x_coordinates, y_coordinates, demands)
  PROVE  XRead(file, pc + 1, matrix_size', capacity', x_coordinates', y_coordinates', demands')
<1>0. pc \in Nat \ {0} /\ matrix_size \in Nat /\ (Known(file, pc) => GetLine = LineAt(file.lines, pc))
  BY DEF ReadNow, FieldsInv
<1>1. ASSUME pc <= 6,
             4 < pc + 1 /\ Known(file, 4) => Says(LineAt(file.lines, 4), matrix_size'),
             6 < pc + 1 /\ Known(file, 6) => Says(LineAt(file.lines, 6), capacity')
      PROVE  XRead(file, pc + 1, matrix_size', capacity', x_coordinates', y_coordinates', demands')
  <2>1. pc + 1 \in Nat /\ pc + 1 <= 7
    BY <1>0, <1>1
  <2>2. QED
    BY <1>1, <2>1, XEarly
<1>2. CASE pc <= 4
  <2>1. 4 < pc + 1 /\ Known(file, 4) => Says(LineAt(file.lines, 4), matrix_size')
    <3>1. 4 < pc + 1 => pc = 4
      BY <1>0, <1>2
    <3>2. QED
      BY <1>0, <3>1 DEF XTakes
  <2>2. ~(6 < pc + 1) /\ pc <= 6
    BY <1>0, <1>2
  <2>3. QED
    BY <1>1, <2>1, <2>2
<1>3. CASE pc \in {5, 6}
  <2>1. Known(file, 4) => Says(LineAt(file.lines, 4), matrix_size')
    <3>1. matrix_size' = matrix_size
      BY <1>3 DEF XTakes
    <3>2. Known(file, 4) => Says(LineAt(file.lines, 4), matrix_size)
      BY <1>0, <1>3 DEF XRead
    <3>3. QED
      BY <3>1, <3>2
  <2>2. 6 < pc + 1 /\ Known(file, 6) => Says(LineAt(file.lines, 6), capacity')
    <3>1. 6 < pc + 1 => pc = 6
      BY <1>0, <1>3
    <3>2. QED
      BY <1>0, <3>1 DEF XTakes
  <2>3. pc <= 6
    BY <1>3
  <2>4. QED
    BY <1>1, <2>1, <2>2, <2>3
<1>4. CASE pc > 6
  <2> DEFINE n == matrix_size
             X == x_coordinates'
             Y == y_coordinates'
             D == demands'
             L(k) == LineAt(file.lines, k)
  <2>1. matrix_size' = n /\ capacity' = capacity /\ XSets(n, GetLine, X, Y, D) /\ n \in Nat
    BY <1>0, <1>4, XTakesSets DEF SameSizes
  <2>2. XAccepts(n, pc, GetLine)
    OBVIOUS
  <2>3. XRead(file, pc, n, capacity, x_coordinates, y_coordinates, demands)
    OBVIOUS
  <2> HIDE DEF n, X, Y, D
  <2>4. Known(file, 4) => Says(L(4), n)
    BY <1>4, <2>3, <1>0 DEF XRead
  <2>5. Known(file, 6) => Says(L(6), capacity)
    BY <1>4, <2>3, <1>0 DEF XRead
  <2>6. ASSUME NEW v \in 0 .. n - 1, 8 + v < pc + 1, Known(file, 8 + v)
        PROVE  PlaceTaken(L(8 + v), X, Y, v)
    <3>1. CASE pc = 8 + v
      <4>1. X[v] = GetLine[2] /\ Y[v] = GetLine[3]
        BY <2>1, <3>1 DEF XSets
      <4>2. pc \in 8 .. 7 + n
        BY <2>1, <3>1
      <4>3. Gives(GetLine, 3) /\ GetLine = L(8 + v)
        BY <1>0, <2>2, <2>6, <3>1, <4>2 DEF XAccepts
      <4>4. QED
        BY <4>1, <4>3 DEF PlaceTaken
    <3>2. CASE 8 + v < pc
      <4>1. X[v] = x_coordinates[v] /\ Y[v] = y_coordinates[v]
        BY <1>0, <2>1, <3>2 DEF XSets
      <4>2. PlaceTaken(L(8 + v), x_coordinates, y_coordinates, v)
        BY <2>3, <2>6, <3>2 DEF XRead
      <4>3. QED
        BY <4>1, <4>2 DEF PlaceTaken
    <3>3. QED
      BY <1>0, <2>1, <2>6, <3>1, <3>2
  <2>7. ASSUME NEW v \in 0 .. n - 1, 9 + n + v < pc + 1, Known(file, 9 + n + v)
        PROVE  Gives(L(9 + n + v), 2) /\ D[v] = L(9 + n + v)[2]
    <3>1. CASE pc = 9 + n + v
      <4>1. D[v] = GetLine[2]
        BY <2>1, <3>1 DEF XSets
      <4>2. pc \in 9 + n .. 8 + 2 * n
        BY <2>1, <3>1
      <4>3. Gives(GetLine, 2) /\ GetLine = L(9 + n + v)
        BY <1>0, <2>2, <2>7, <3>1, <4>2 DEF XAccepts
      <4>4. QED
        BY <4>1, <4>3
    <3>2. CASE 9 + n + v < pc
      <4>1. D[v] = demands[v]
        BY <1>0, <2>1, <3>2 DEF XSets
      <4>2. Gives(L(9 + n + v), 2) /\ demands[v] = L(9 + n + v)[2]
        BY <2>3, <2>7, <3>2 DEF XRead
      <4>3. QED
        BY <4>1, <4>2
    <3>3. QED
      BY <1>0, <2>1, <2>7, <3>1, <3>2
  <2>8. XRead(file, pc + 1, n, capacity, X, Y, D)
    BY <2>4, <2>5, <2>6, <2>7 DEF XRead
  <2>9. QED
    BY <2>1, <2>8 DEF X, Y, D
<1>5. QED
  BY <1>0, <1>2, <1>3, <1>4

LEMMA KnownLine ==
  ASSUME FieldsInv, cursor = pc, Known(file, pc)
  PROVE  GetLine = LineAt(file.lines, pc)
BY DEF GetLine, LineAt, Known

-----------------------------------------------------------------------------
(* An intact file is accepted by its own parser, line by line, and refused *)
(* by the ones before it.                                                  *)

Accepts(r, n, k, l) ==
  /\ r = "zk" => ZkAccepts(k, l)
  /\ r = "golden" => GoldenAccepts(n, k, l)
  /\ r = "x" => XAccepts(n, k, l)

LEMMA IntactStep ==
  ASSUME NEW f \in FileType, f.intact, f.content.size > 0, NEW r \in {"zk", "golden", "x"},
         NEW p \in Nat \ {0}, NEW n \in Nat, NEW q, NEW x, NEW y, NEW d,
         TakenSoFar(f, r, p, n, q, x, y, d), RightParser(f, r, p), p <= LengthOf(r, n)
  PROVE  /\ Known(f, p)
         /\ Accepts(r, n, p, LineAt(f.lines, p)) => RightParser(f, r, p + 1)
         /\ ~Accepts(r, n, p, LineAt(f.lines, p)) =>
              r # "x" /\ RightParser(f, IF r = "zk" THEN "golden" ELSE "x", 1)
<1> DEFINE l == f.lines
           c == f.content
           L == LineAt(l, p)
<1>1. c \in Contents /\ l \in Seq(Seq(Tokens)) /\ c.size > 0
  BY DEF FileType, Contents
<1>2. PICK s \in Nat : c.size = s /\ s > 0
  BY <1>1 DEF Contents
<1>3. Len(l) \in Nat
  BY <1>1
<1>4. \A k \in 1 .. Len(l) : Known(f, k) /\ LineAt(l, k) = l[k]
  BY <1>3 DEF Known, LineAt
<1>5. CASE ZkText(l, c) /\ r = "zk"
  <2>1. ZkHolds(l, c) /\ Len(l) >= s + 1
    BY <1>1, <1>2, <1>5, TextHolds DEF ZkText
  <2>2. ZkRead(f, p, n, q, x, y, d) /\ p <= n + 1
    BY <1>5 DEF TakenSoFar, LengthOf
  <2>3. CASE p = 1
    <3>1. Known(f, p) /\ ZkAccepts(p, L)
      BY <1>2, <1>3, <1>4, <2>1, <2>3 DEF ZkHolds, ZkAccepts
    <3>2. QED
      BY <1>5, <3>1 DEF Accepts, RightParser
  <2>4. CASE p # 1
    <3>1. n = s
      <4>1. 1 < p /\ Known(f, 1)
        BY <1>3, <1>4, <2>1, <2>4
      <4>2. n = LineAt(l, 1)[1] + 1
        BY <2>2, <4>1 DEF ZkRead
      <4>3. QED
        BY <1>2, <2>1, <4>2 DEF ZkHolds
    <3>2. p - 1 \in 1 .. s /\ 1 + (p - 1) = p /\ p \in 1 .. Len(l)
      BY <1>3, <2>1, <2>2, <2>4, <3>1
    <3>3. ZkCustomerLine(L, c, p - 1)
      BY <1>2, <2>1, <3>2 DEF ZkHolds
    <3>4. ZkAccepts(p, L)
      BY <2>4, <3>3 DEF ZkCustomerLine, ZkAccepts
    <3>5. QED
      BY <1>4, <1>5, <3>2, <3>4 DEF Accepts, RightParser
  <2>5. QED
    BY <2>3, <2>4
<1>6. CASE (GoldenText(l, c) \/ XText(l, c)) /\ r = "zk" /\ p = 1
  <2>1. Len(l) >= 1
    BY <1>2, <1>3, <1>6 DEF GoldenText, XText
  <2>2. Known(f, 1) /\ LineAt(l, 1) = l[1]
    BY <1>3, <1>4, <2>1
  <2>3. ~Gives(l[1], 2)
    BY <1>6 DEF GoldenText, XText
  <2>4. ~Accepts(r, n, p, L)
    BY <1>6, <2>2, <2>3 DEF Accepts, ZkAccepts
  <2>5. RightParser(f, "golden", 1)
    BY <1>6 DEF RightParser
  <2>6. QED
    BY <1>6, <2>2, <2>4, <2>5
<1>7. CASE GoldenText(l, c) /\ r = "golden"
  <2>1. GoldenHolds(l, c) /\ Len(l) >= 11 + 2 * s
    BY <1>1, <1>2, <1>7, TextHolds DEF GoldenText
  <2>2. GoldenRead(f, p, n, q, x, y, d) /\ p <= 11 + 2 * n
    BY <1>7 DEF TakenSoFar, LengthOf
  <2>3. p > 4 => n = s
    <3> SUFFICES ASSUME p > 4 PROVE n = s
      OBVIOUS
    <3>1. 4 < p /\ Known(f, 4)
      BY <1>3, <1>4, <2>1
    <3>2. Says(LineAt(l, 4), n)
      BY <2>2, <3>1 DEF GoldenRead
    <3>3. Says(LineAt(l, 4), s)
      BY <1>2, <2>1 DEF GoldenHolds
    <3>4. QED
      BY <3>2, <3>3, SaysOne
  <2>4. p \in 1 .. Len(l)
    BY <1>3, <2>1, <2>2, <2>3
  <2>5. GoldenAccepts(n, p, L)
    <3>1. p \in {4, 5} => Gives(AfterColon(L), 1)
      BY <2>1 DEF GoldenHolds, Says
    <3>2. ASSUME p \in 11 .. 9 + n PROVE Gives(L, 3)
      <4>1. p - 9 \in 2 .. s /\ 9 + (p - 9) = p
        BY <2>3, <3>2
      <4>2. PlaceLine(L, c, p - 9)
        BY <1>2, <2>1, <4>1 DEF GoldenHolds
      <4>3. QED
        BY <4>2 DEF PlaceLine
    <3>3. ASSUME p \in 11 + n .. 9 + 2 * n PROVE Gives(L, 2)
      <4>1. p - 9 - s \in 2 .. s /\ 9 + s + (p - 9 - s) = p
        BY <2>3, <3>3
      <4>2. DemandLine(LineAt(l, 9 + s + (p - 9 - s)), c, p - 9 - s)
        BY <1>2, <2>1, <4>1 DEF GoldenHolds
      <4>3. QED
        BY <4>1, <4>2 DEF DemandLine
    <3>4. ASSUME p = 11 + 2 * n PROVE Gives(L, 2)
      <4>1. p = 11 + 2 * s
        BY <2>3, <3>4
      <4>2. QED
        BY <1>2, <2>1, <4>1 DEF GoldenHolds
    <3>5. QED
      BY <3>1, <3>2, <3>3, <3>4 DEF GoldenAccepts
  <2>6. QED
    BY <1>4, <1>7, <2>4, <2>5 DEF Accepts, RightParser
<1>8. CASE XText(l, c) /\ r = "golden" /\ p <= 5
  <2>1. XHolds(l, c) /\ Len(l) >= 8 + 2 * s /\ ~Gives(AfterColon(l[5]), 1)
    BY <1>1, <1>2, <1>8, TextHolds DEF XText
  <2>2. p \in 1 .. Len(l)
    BY <1>2, <1>3, <1>8, <2>1
  <2>3. p = 5 => ~GoldenAccepts(n, p, L)
    BY <1>4, <2>1, <2>2 DEF GoldenAccepts
  <2>4. RightParser(f, "x", 1) /\ (p # 5 => RightParser(f, r, p + 1))
    BY <1>8 DEF RightParser
  <2>5. QED
    BY <1>4, <1>8, <2>2, <2>3, <2>4 DEF Accepts
<1>9. CASE XText(l, c) /\ r = "x"
  <2>1. XHolds(l, c) /\ Len(l) >= 8 + 2 * s
    BY <1>1, <1>2, <1>9, TextHolds DEF XText
  <2>2. XRead(f, p, n, q, x, y, d) /\ p <= 8 + 2 * n
    BY <1>9 DEF TakenSoFar, LengthOf
  <2>3. p > 4 => n = s
    <3> SUFFICES ASSUME p > 4 PROVE n = s
      OBVIOUS
    <3>1. 4 < p /\ Known(f, 4)
      BY <1>3, <1>4, <2>1
    <3>2. Says(LineAt(l, 4), n)
      BY <2>2, <3>1 DEF XRead
    <3>3. Says(LineAt(l, 4), s)
      BY <1>2, <2>1 DEF XHolds
    <3>4. QED
      BY <3>2, <3>3, SaysOne
  <2>4. p \in 1 .. Len(l)
    BY <1>3, <2>1, <2>2, <2>3
  <2>5. XAccepts(n, p, L)
    <3>1. p \in {4, 6} => Gives(AfterColon(L), 1)
      BY <2>1 DEF XHolds, Says
    <3>2. ASSUME p \in 8 .. 7 + n PROVE Gives(L, 3)
      <4>1. p - 7 \in 1 .. s /\ 7 + (p - 7) = p
        BY <2>3, <3>2
      <4>2. PlaceLine(L, c, p - 7)
        BY <1>2, <2>1, <4>1 DEF XHolds
      <4>3. QED
        BY <4>2 DEF PlaceLine
    <3>3. ASSUME p \in 9 + n .. 8 + 2 * n PROVE Gives(L, 2)
      <4>1. p - 8 - s \in 1 .. s /\ 8 + s + (p - 8 - s) = p
        BY <2>3, <3>3
      <4>2. DemandLine(LineAt(l, 8 + s + (p - 8 - s)), c, p - 8 - s)
        BY <1>2, <2>1, <4>1 DEF XHolds
      <4>3. QED
        BY <4>1, <4>2 DEF DemandLine
    <3>4. QED
      BY <3>1, <3>2, <3>3 DEF XAccepts
  <2>6. QED
    BY <1>4, <1>9, <2>4, <2>5 DEF Accepts, RightParser
<1>10. QED
  BY <1>5, <1>6, <1>7, <1>8, <1>9 DEF RightParser

-----------------------------------------------------------------------------
(* The invariant: what the parsers have taken so far, and what they made   *)
(* of the file in the end.                                                 *)

InstanceRead(originals) ==
  /\ KnownFile(file, originals)
  /\ valid => file.exists
  /\ phase = "parse" /\ file.exists =>
       /\ cursor = pc
       /\ TakenSoFar(file, parser, pc, matrix_size, capacity, x_coordinates, y_coordinates, demands)
       /\ RightParser(file, parser, pc)
  /\ phase # "parse" /\ file.exists /\ (valid \/ file.intact) =>
       Fits(file.content, matrix_size, capacity, x_coordinates, y_coordinates, demands)
  /\ phase = "done" /\ file.exists /\ file.intact =>
       (valid <=> \A c \in 1 .. matrix_size - 1 : demands[c] # 0)

SavedRead(originals) == saved.exists => KnownFile(saved, originals)

LEMMA NothingTaken ==
  ASSUME NEW f, NEW r \in {"zk", "golden", "x"}, NEW n \in Nat, NEW q, NEW x, NEW y, NEW d
  PROVE  TakenSoFar(f, r, 1, n, q, x, y, d)
<1>1. \A v \in 0 .. n - 1 : ~(2 + v < 1) /\ ~(8 + v < 1) /\ ~(9 + n + v < 1)
  OBVIOUS
<1>2. \A v \in 1 .. n - 1 : ~(10 + v < 1) /\ ~(10 + n + v < 1)
  OBVIOUS
<1>3. ~(11 + 2 * n < 1)
  OBVIOUS
<1>4. ZkRead(f, 1, n, q, x, y, d)
  BY <1>1 DEF ZkRead
<1>5. GoldenRead(f, 1, n, q, x, y, d)
  BY <1>2, <1>3 DEF GoldenRead
<1>6. XRead(f, 1, n, q, x, y, d)
  BY <1>1 DEF XRead
<1>7. QED
  BY <1>4, <1>5, <1>6 DEF TakenSoFar

LEMMA StartsRight ==
  ASSUME NEW f, NEW originals, KnownFile(f, originals), f.exists
  PROVE  RightParser(f, "zk", 1)
BY DEF KnownFile, Text, RightParser

LEMMA InitRead ==
  ASSUME NEW originals, \A f \in Files : KnownFile(f, originals), Init
  PROVE  InstanceRead(originals)
<1>1. KnownFile(file, originals) /\ ~valid /\ phase = "parse" /\ cursor = pc /\ pc = 1 /\ parser = "zk" /\ matrix_size = 0
  BY DEF Init
<1>2. TakenSoFar(file, parser, pc, matrix_size, capacity, x_coordinates, y_coordinates, demands)
  BY <1>1, NothingTaken
<1>3. file.exists => RightParser(file, parser, pc)
  BY <1>1, StartsRight
<1>4. QED
  BY <1>1, <1>2, <1>3 DEF InstanceRead

LEMMA OpenedRead ==
  ASSUME NEW f, NEW originals, KnownFile(f, originals), Opened(f)
  PROVE  InstanceRead(originals)'
<1>1. /\ file' = f /\ ~valid' /\ phase' = "parse" /\ cursor' = 1 /\ pc' = 1 /\ parser' = "zk"
      /\ matrix_size' = 0
  BY DEF Opened
<1>2. TakenSoFar(file', parser', pc', matrix_size', capacity', x_coordinates', y_coordinates', demands')
  BY <1>1, NothingTaken
<1>3. file'.exists => RightParser(file', parser', pc')
  BY <1>1, StartsRight
<1>4. KnownFile(file', originals)
  BY <1>1
<1>5. QED
  BY <1>1, <1>2, <1>3, <1>4 DEF InstanceRead

LEMMA ReadKept ==
  ASSUME NEW originals, InstanceRead(originals), UNCHANGED <<file, phase, parser, pc, cursor, valid, fieldVars>>
  PROVE  InstanceRead(originals)'
BY DEF InstanceRead, fieldVars

LEMMA OpenFailsRead ==
  ASSUME NEW originals, InstanceRead(originals), OpenFails
  PROVE  InstanceRead(originals)'
<1>1. ~file.exists /\ file' = file /\ valid' = valid /\ KnownFile(file, originals) /\ (valid => file.exists)
  BY DEF OpenFails, InstanceRead
<1>2. KnownFile(file', originals) /\ ~file'.exists /\ ~valid'
  BY <1>1
<1>3. QED
  BY <1>2 DEF InstanceRead

\* One getline, whatever the parser.
LEMMA ParserStep ==
  ASSUME FieldsInv, ReadLine, cursor = pc,
         TakenSoFar(file, parser, pc, matrix_size, capacity, x_coordinates, y_coordinates, demands)
  PROVE  \/ /\ Accepts(parser, matrix_size, pc, GetLine) /\ GoesOn
            /\ TakenSoFar(file, parser, pc + 1, matrix_size', capacity', x_coordinates', y_coordinates', demands')
         \/ ~Accepts(parser, matrix_size, pc, GetLine) /\ NextParser
<1>1. ReadNow
  BY KnownLine DEF ReadNow
<1>2. matrix_size' \in Nat
  BY ReadLineFields DEF FieldsInv
<1>3. parser \in {"zk", "golden", "x"} /\ pc <= ProgramLength
  BY DEF FieldsInv, ReadLine
<1>4. CASE parser = "zk"
  <2>1. pc <= matrix_size + 1
    BY <1>3, <1>4 DEF ProgramLength, ZkLength
  <2>2. ZkRead(file, pc, matrix_size, capacity, x_coordinates, y_coordinates, demands)
    BY <1>4 DEF TakenSoFar
  <2>3. ZkAccepts(pc, GetLine) /\ ZkTakes(GetLine) =>
          ZkRead(file, pc + 1, matrix_size', capacity', x_coordinates', y_coordinates', demands')
    BY <1>1, <2>1, <2>2, ZkTaken
  <2>4. QED
    BY <1>4, <2>3, ZkStep DEF Accepts, TakenSoFar
<1>5. CASE parser = "golden"
  <2>1. GoldenRead(file, pc, matrix_size, capacity, x_coordinates, y_coordinates, demands)
    BY <1>5 DEF TakenSoFar
  <2>2. GoldenAccepts(matrix_size, pc, GetLine) /\ GoldenTakes(GetLine) =>
          GoldenRead(file, pc + 1, matrix_size', capacity', x_coordinates', y_coordinates', demands')
    BY <1>1, <1>2, <2>1, GoldenTaken
  <2>3. QED
    BY <1>5, <2>2, GoldenStep DEF Accepts, TakenSoFar
<1>6. CASE parser = "x"
  <2>1. XRead(file, pc, matrix_size, capacity, x_coordinates, y_coordinates, demands)
    BY <1>6 DEF TakenSoFar
  <2>2. XAccepts(matrix_size, pc, GetLine) /\ XTakes(GetLine) =>
          XRead(file, pc + 1, matrix_size', capacity', x_coordinates', y_coordinates', demands')
    BY <1>1, <1>2, <2>1, XTaken
  <2>3. QED
    BY <1>6, <2>2, XStep DEF Accepts, TakenSoFar
<1>7. QED
  BY <1>3, <1>4, <1>5, <1>6

LEMMA LengthIs ==
  ASSUME FieldsInv
  PROVE  ProgramLength = LengthOf(parser, matrix_size)
BY DEF FieldsInv, ProgramLength, LengthOf, ZkLength, GoldenLength, XLength

LEMMA ReadLineRead ==
  ASSUME NEW originals, FieldsInv, InstanceRead(originals), ReadLine
  PROVE  InstanceRead(originals)'
<1>1. /\ phase = "parse" /\ file.exists /\ pc <= LengthOf(parser, matrix_size)
      /\ file' = file /\ valid' = valid
  BY LengthIs DEF ReadLine
<1>2. /\ KnownFile(file, originals) /\ ~valid /\ cursor = pc
      /\ TakenSoFar(file, parser, pc, matrix_size, capacity, x_coordinates, y_coordinates, demands)
      /\ RightParser(file, parser, pc)
  BY <1>1 DEF InstanceRead, FieldsInv
<1>3. /\ file \in FileType /\ parser \in {"zk", "golden", "x"} /\ pc \in Nat \ {0} /\ matrix_size \in Nat
      /\ matrix_size' \in Nat
  BY ReadLineFields DEF FieldsInv
<1>4. file.content.size > 0
  BY <1>1, <1>2, <1>3, SizeOfText
<1>5. file.intact =>
        /\ Known(file, pc)
        /\ Accepts(parser, matrix_size, pc, LineAt(file.lines, pc)) => RightParser(file, parser, pc + 1)
        /\ ~Accepts(parser, matrix_size, pc, LineAt(file.lines, pc)) =>
             parser # "x" /\ RightParser(file, IF parser = "zk" THEN "golden" ELSE "x", 1)
  BY <1>1, <1>2, <1>3, <1>4, IntactStep
<1>6. Known(file, pc) => GetLine = LineAt(file.lines, pc)
  BY <1>2, KnownLine
<1>7. /\ Accepts(parser, matrix_size, pc, GetLine) => RightParser(file, parser, pc + 1)
      /\ ~Accepts(parser, matrix_size, pc, GetLine) /\ parser # "x" =>
           RightParser(file, IF parser = "zk" THEN "golden" ELSE "x", 1)
      /\ ~Accepts(parser, matrix_size, pc, GetLine) /\ parser = "x" => ~file.intact
  <2>1. CASE file.intact
    BY <1>5, <1>6, <2>1
  <2>2. CASE ~file.intact
    BY <2>2 DEF RightParser
  <2>3. QED
    BY <2>1, <2>2
<1>8. KnownFile(file', originals) /\ ~valid'
  BY <1>1, <1>2
<1>9. CASE /\ Accepts(parser, matrix_size, pc, GetLine) /\ GoesOn
           /\ TakenSoFar(file, parser, pc + 1, matrix_size', capacity', x_coordinates', y_coordinates', demands')
  <2>1. phase' = "parse" /\ cursor' = pc'
    BY <1>1, <1>2, <1>9 DEF GoesOn
  <2>2. TakenSoFar(file', parser', pc', matrix_size', capacity', x_coordinates', y_coordinates', demands')
    BY <1>1, <1>9 DEF GoesOn
  <2>3. RightParser(file', parser', pc')
    BY <1>1, <1>7, <1>9 DEF GoesOn
  <2>4. QED
    BY <1>8, <2>1, <2>2, <2>3 DEF InstanceRead
<1>10. CASE ~Accepts(parser, matrix_size, pc, GetLine) /\ NextParser
  <2>1. CASE parser # "x"
    <3>1. /\ parser' = IF parser = "zk" THEN "golden" ELSE "x"
          /\ pc' = 1 /\ cursor' = 1 /\ phase' = "parse"
      BY <1>1, <1>10, <2>1 DEF NextParser
    <3>2. TakenSoFar(file', parser', pc', matrix_size', capacity', x_coordinates', y_coordinates', demands')
      <4>1. parser' \in {"zk", "golden", "x"}
        BY <3>1
      <4>2. QED
        BY <1>3, <3>1, <4>1, NothingTaken
    <3>3. RightParser(file', parser', pc')
      BY <1>1, <1>7, <1>10, <2>1, <3>1
    <3>4. QED
      BY <1>8, <3>1, <3>2, <3>3 DEF InstanceRead
  <2>2. CASE parser = "x"
    <3>1. phase' = "done" /\ ~file'.intact
      BY <1>1, <1>7, <1>10, <2>2 DEF NextParser
    <3>2. QED
      BY <1>8, <3>1 DEF InstanceRead
  <2>3. QED
    BY <2>1, <2>2
<1>11. QED
  BY <1>2, <1>9, <1>10, ParserStep

LEMMA ParsedRead ==
  ASSUME NEW originals, originals \subseteq Seq(Seq(Tokens)), FieldsInv, InstanceRead(originals), Parsed
  PROVE  InstanceRead(originals)'
<1>1. /\ phase = "parse" /\ file.exists /\ pc > LengthOf(parser, matrix_size)
      /\ UNCHANGED <<file, matrix_size, capacity, x_coordinates, y_coordinates>>
      /\ phase' = "matrix"
      /\ demands' = IF parser = "golden" THEN [demands EXCEPT ![0] = 0] ELSE demands
  BY LengthIs DEF Parsed
<1>2. /\ KnownFile(file, originals)
      /\ TakenSoFar(file, parser, pc, matrix_size, capacity, x_coordinates, y_coordinates, demands)
      /\ RightParser(file, parser, pc)
  BY <1>1 DEF InstanceRead
<1>3. /\ file \in FileType /\ parser \in {"zk", "golden", "x"} /\ pc \in Nat \ {0} /\ matrix_size \in Nat
  BY DEF FieldsInv
<1>4. Fits(file.content, matrix_size, capacity, x_coordinates, y_coordinates, demands)
  BY <1>1, <1>2, <1>3, Finished
<1>5. DOMAIN demands = AllVertices(matrix_size)
  <2>1. FieldsInv' /\ valid'
    BY ParsedFields DEF Parsed
  <2>2. DOMAIN demands' = AllVertices(matrix_size')
    BY <2>1 DEF FieldsInv, Sized
  <2>3. DOMAIN demands' = DOMAIN demands
    BY <1>1
  <2>4. QED
    BY <1>1, <2>2, <2>3
<1>6. \A v \in AllVertices(matrix_size) : v # 0 => demands'[v] = demands[v]
  BY <1>1, <1>5
<1>7. Fits(file.content, matrix_size, capacity, x_coordinates, y_coordinates, demands')
  BY <1>4, <1>6 DEF Fits
<1>8. Fits(file'.content, matrix_size', capacity', x_coordinates', y_coordinates', demands')
  BY <1>1, <1>7
<1>9. KnownFile(file', originals) /\ file'.exists
  BY <1>1, <1>2
<1>10. QED
  BY <1>1, <1>8, <1>9 DEF InstanceRead

LEMMA CheckRead ==
  ASSUME NEW originals, FieldsInv, InstanceRead(originals), CheckDemands
  PROVE  InstanceRead(originals)'
<1>1. /\ phase = "sort" /\ phase' = "done" /\ UNCHANGED <<file, fieldVars>> /\ valid
      /\ valid' = (\A c \in 1 .. matrix_size - 1 : demands[c] # 0)
  BY DEF CheckDemands, FieldsInv
<1>2. KnownFile(file, originals) /\ file.exists
      /\ Fits(file.content, matrix_size, capacity, x_coordinates, y_coordinates, demands)
  BY <1>1 DEF InstanceRead
<1>3. KnownFile(file', originals) /\ file'.exists
      /\ Fits(file'.content, matrix_size', capacity', x_coordinates', y_coordinates', demands')
  BY <1>1, <1>2 DEF fieldVars
<1>4. valid' <=> \A c \in 1 .. matrix_size' - 1 : demands'[c] # 0
  BY <1>1 DEF fieldVars
<1>5. QED
  BY <1>1, <1>3, <1>4 DEF InstanceRead

LEMMA MatrixRead ==
  ASSUME NEW originals, FieldsInv, InstanceRead(originals), FillMatrix \/ SortNeighbors
  PROVE  InstanceRead(originals)'
<1>1. /\ phase \in {"matrix", "sort"} /\ phase' = "sort" /\ UNCHANGED <<file, fieldVars, valid>> /\ valid
  BY DEF FillMatrix, SortNeighbors, FieldsInv
<1>2. KnownFile(file, originals) /\ file.exists
      /\ Fits(file.content, matrix_size, capacity, x_coordinates, y_coordinates, demands)
  BY <1>1 DEF InstanceRead
<1>3. KnownFile(file', originals) /\ file'.exists
      /\ Fits(file'.content, matrix_size', capacity', x_coordinates', y_coordinates', demands')
  BY <1>1, <1>2 DEF fieldVars
<1>4. QED
  BY <1>1, <1>3 DEF InstanceRead

-----------------------------------------------------------------------------
(* serialize_TSPLIB: the file that it writes is one of the third format.   *)

LEMMA Joined ==
  ASSUME NEW S, NEW s \in Seq(S), NEW t \in Seq(S)
  PROVE  /\ s \o t \in Seq(S) /\ Len(s \o t) = Len(s) + Len(t)
         /\ \A i \in 1 .. Len(s) : (s \o t)[i] = s[i]
         /\ \A i \in 1 .. Len(t) : (s \o t)[Len(s) + i] = t[i]
<1>1. s \o t \in Seq(S) /\ Len(s \o t) = Len(s) + Len(t)
  OBVIOUS
<1>2. \A i \in 1 .. Len(s) : (s \o t)[i] = s[i]
  OBVIOUS
<1>3. \A i \in 1 .. Len(t) : (s \o t)[Len(s) + i] = t[i]
  OBVIOUS
<1>4. QED
  BY <1>1, <1>2, <1>3

\* Where the parts of a file are.
InParts(l, a, b, c, d, e) ==
  /\ Len(l) = Len(a) + Len(b) + Len(c) + Len(d) + Len(e)
  /\ \A i \in 1 .. Len(a) : l[i] = a[i]
  /\ \A i \in 1 .. Len(b) : l[Len(a) + i] = b[i]
  /\ \A i \in 1 .. Len(d) : l[Len(a) + Len(b) + Len(c) + i] = d[i]

LEMMA FiveParts ==
  ASSUME NEW S, NEW a \in Seq(S), NEW b \in Seq(S), NEW c \in Seq(S), NEW d \in Seq(S), NEW e \in Seq(S)
  PROVE  InParts(a \o b \o c \o d \o e, a, b, c, d, e)
<1> DEFINE l2 == a \o b
           l3 == l2 \o c
           l4 == l3 \o d
           l5 == l4 \o e
<1>1. /\ l2 \in Seq(S) /\ Len(l2) = Len(a) + Len(b)
      /\ \A i \in 1 .. Len(a) : l2[i] = a[i]
      /\ \A i \in 1 .. Len(b) : l2[Len(a) + i] = b[i]
  BY Joined
<1>2. l2 \in Seq(S)
  BY <1>1
<1>3. l5 = a \o b \o c \o d \o e
  OBVIOUS
<1> HIDE DEF l2
<1>4. /\ l3 \in Seq(S) /\ Len(l3) = Len(l2) + Len(c)
      /\ \A i \in 1 .. Len(l2) : l3[i] = l2[i]
  BY <1>2, Joined
<1>5. l3 \in Seq(S)
  BY <1>4
<1> HIDE DEF l3
<1>6. /\ l4 \in Seq(S) /\ Len(l4) = Len(l3) + Len(d)
      /\ \A i \in 1 .. Len(l3) : l4[i] = l3[i]
      /\ \A i \in 1 .. Len(d) : l4[Len(l3) + i] = d[i]
  BY <1>5, Joined
<1>7. l4 \in Seq(S)
  BY <1>6
<1> HIDE DEF l4
<1>8. /\ Len(l5) = Len(l4) + Len(e)
      /\ \A i \in 1 .. Len(l4) : l5[i] = l4[i]
  BY <1>7, Joined
<1> HIDE DEF l5
<1>9. PICK A \in Nat, B \in Nat, C \in Nat, D \in Nat, E \in Nat :
        Len(a) = A /\ Len(b) = B /\ Len(c) = C /\ Len(d) = D /\ Len(e) = E
  OBVIOUS
<1>10. Len(l2) = A + B /\ Len(l3) = A + B + C /\ Len(l4) = A + B + C + D /\ Len(l5) = A + B + C + D + E
  BY <1>1, <1>4, <1>6, <1>8, <1>9
<1>11. ASSUME NEW i \in 1 .. A + B PROVE l5[i] = l2[i]
  <2>1. i \in 1 .. Len(l2) /\ i \in 1 .. Len(l3) /\ i \in 1 .. Len(l4)
    BY <1>10
  <2>2. QED
    BY <1>4, <1>6, <1>8, <2>1
<1>12. ASSUME NEW i \in 1 .. A PROVE l5[i] = a[i]
  <2>1. i \in 1 .. A + B /\ i \in 1 .. Len(a)
    BY <1>9
  <2>2. QED
    BY <1>1, <1>11, <2>1
<1>13. ASSUME NEW i \in 1 .. B PROVE l5[A + i] = b[i]
  <2>1. A + i \in 1 .. A + B
    OBVIOUS
  <2>2. l2[A + i] = b[i]
    BY <1>1, <1>9
  <2>3. QED
    BY <1>11, <2>1, <2>2
<1>14. ASSUME NEW i \in 1 .. D PROVE l5[A + B + C + i] = d[i]
  <2>1. A + B + C + i \in 1 .. Len(l4)
    BY <1>10
  <2>2. l4[A + B + C + i] = d[i]
    BY <1>6, <1>9, <1>10
  <2>3. QED
    BY <1>8, <2>1, <2>2
<1>15. QED
  BY <1>3, <1>9, <1>10, <1>12, <1>13, <1>14 DEF InParts

\* A header line, and what is behind its colon.
LEMMA HeaderLine ==
  /\ ~Gives(<<Word, Colon, Word>>, 2)
  /\ ~Gives(AfterColon(<<Word, Colon, Word>>), 1)
  /\ \A a \in Nat : Says(<<Word, Colon, a>>, a)
<1>1. \A a \in Tokens : LET l == <<Word, Colon, a>> IN
        /\ l \in Seq(Tokens) /\ Len(l) = 3 /\ l[1] = Word /\ l[2] = Colon /\ l[3] = a /\ 2 \in 1 .. Len(l)
        /\ \A j \in 1 .. 2 - 1 : l[j] # Colon
  BY MarksDiffer, LineTypes
<1>2. \A a \in Tokens : LET l == <<Word, Colon, a>> IN
        /\ l[3] \in Nat => Says(l, l[3])
        /\ l[3] \notin Nat => ~Gives(AfterColon(l), 1)
  <2> TAKE a \in Tokens
  <2> DEFINE l == <<Word, Colon, a>>
  <2>1. /\ l \in Seq(Tokens) /\ Len(l) = 3 /\ l[2] = Colon /\ 2 \in 1 .. Len(l)
        /\ \A j \in 1 .. 2 - 1 : l[j] # Colon
    BY <1>1
  <2> HIDE DEF l
  <2>2. 2 < Len(l) /\ 2 + 1 = 3
    BY <2>1
  <2>3. /\ l[2 + 1] \in Nat => Says(l, l[2 + 1])
        /\ l[2 + 1] \notin Nat => ~Gives(AfterColon(l), 1)
    BY <2>1, <2>2, ColonSays
  <2>4. /\ l[3] \in Nat => Says(l, l[3])
        /\ l[3] \notin Nat => ~Gives(AfterColon(l), 1)
    BY <2>2, <2>3
  <2>5. QED
    BY <2>4 DEF l
<1>3. \A a \in Nat : Says(<<Word, Colon, a>>, a)
  BY <1>2 DEF Tokens
<1>4. ~Gives(AfterColon(<<Word, Colon, Word>>), 1)
  BY <1>2, MarksDiffer
<1>5. ~Gives(<<Word, Colon, Word>>, 2)
  BY MarksDiffer DEF Gives
<1>6. QED
  BY <1>3, <1>4, <1>5

\* What serialize writes of n vertices.
Lines(n, q, X, Y, D) ==
  <<<<Word, Colon, Word>>, <<Word, Colon, Word>>, <<Word, Colon, Word>>,
    <<Word, Colon, n>>, <<Word, Colon, Word>>, <<Word, Colon, q>>, <<Word>>>>
  \o [v \in 1 .. n |-> <<v, X[v], Y[v]>>]
  \o <<<<Word>>>>
  \o [v \in 1 .. n |-> <<v, IF v = 1 THEN 0 ELSE D[v]>>]
  \o <<<<Word>>, <<1>>, <<Word>>, <<Word>>>>

LEMMA LinesText ==
  ASSUME NEW n \in Nat \ {0}, NEW q \in Nat,
         NEW X \in [1 .. n -> Nat], NEW Y \in [1 .. n -> Nat], NEW D \in [1 .. n -> Nat]
  PROVE  XText(Lines(n, q, X, Y, D), [size |-> n, capacity |-> q, x |-> X, y |-> Y, demand |-> D])
<1> DEFINE c == [size |-> n, capacity |-> q, x |-> X, y |-> Y, demand |-> D]
           head == <<<<Word, Colon, Word>>, <<Word, Colon, Word>>, <<Word, Colon, Word>>,
                     <<Word, Colon, n>>, <<Word, Colon, Word>>, <<Word, Colon, q>>, <<Word>>>>
           coords == [v \in 1 .. n |-> <<v, X[v], Y[v]>>]
           rows == [v \in 1 .. n |-> <<v, IF v = 1 THEN 0 ELSE D[v]>>]
           end == <<<<Word>>, <<1>>, <<Word>>, <<Word>>>>
           S == Seq(Tokens)
           l == Lines(n, q, X, Y, D)
<1>1. Word \in Tokens /\ Colon \in Tokens /\ Nat \subseteq Tokens /\ n \in Tokens /\ q \in Tokens /\ 1 \in Tokens
  BY MarksDiffer DEF Tokens
<1>2. /\ <<Word, Colon, Word>> \in S /\ <<Word, Colon, n>> \in S
      /\ <<Word, Colon, q>> \in S /\ <<Word>> \in S /\ <<1>> \in S
  BY <1>1, LineTypes
<1>3. head \in Seq(S) /\ <<<<Word>>>> \in Seq(S) /\ end \in Seq(S)
  <2> HIDE DEF S
  <2>1. ASSUME NEW a \in S, NEW b \in S, NEW e \in S, NEW f \in S, NEW g \in S
        PROVE  /\ <<a, a, a, b, a, e, f>> \in Seq(S) /\ <<f>> \in Seq(S) /\ <<f, g, f, f>> \in Seq(S)
    OBVIOUS
  <2>2. QED
    BY <1>2, <2>1
<1>4. /\ Len(head) = 7 /\ Len(<<<<Word>>>>) = 1 /\ Len(end) = 4
      /\ head[1] = <<Word, Colon, Word>> /\ head[4] = <<Word, Colon, n>>
      /\ head[5] = <<Word, Colon, Word>> /\ head[6] = <<Word, Colon, q>>
  OBVIOUS
<1>5. coords \in Seq(S) /\ rows \in Seq(S) /\ Len(coords) = n /\ Len(rows) = n
  <2>1. ASSUME NEW v \in 1 .. n
        PROVE  <<v, X[v], Y[v]>> \in S /\ <<v, IF v = 1 THEN 0 ELSE D[v]>> \in S
    <3> DEFINE d == IF v = 1 THEN 0 ELSE D[v]
    <3>1. v \in Tokens /\ X[v] \in Tokens /\ Y[v] \in Tokens /\ d \in Tokens
      <4>1. X[v] \in Nat /\ Y[v] \in Nat /\ D[v] \in Nat /\ v \in Nat /\ 0 \in Nat
        OBVIOUS
      <4> HIDE DEF d
      <4>2. d \in Nat
        BY <4>1 DEF d
      <4>3. QED
        BY <4>1, <4>2, <1>1
    <3> HIDE DEF d
    <3>2. <<v, X[v], Y[v]>> \in S /\ <<v, d>> \in S
      BY <3>1, LineTypes
    <3>3. QED
      BY <3>2 DEF d
  <2> HIDE DEF S
  <2>2. coords \in [1 .. n -> S] /\ rows \in [1 .. n -> S]
    BY <2>1
  <2> HIDE DEF coords, rows
  <2>3. QED
    BY <2>2, Listed
<1>6. l = head \o coords \o <<<<Word>>>> \o rows \o end
  BY DEF Lines
<1>7. \A v \in 1 .. n : coords[v] = <<v, X[v], Y[v]>> /\ rows[v] = <<v, IF v = 1 THEN 0 ELSE D[v]>>
  OBVIOUS
<1>8. c.size = n /\ c.capacity = q /\ c.x = X /\ c.y = Y /\ c.demand = D
  OBVIOUS
<1> HIDE DEF head, coords, rows, end, S, c, l
<1>9. /\ Len(l) = 12 + 2 * n
      /\ \A i \in 1 .. 7 : l[i] = head[i]
      /\ \A v \in 1 .. n : l[7 + v] = coords[v] /\ l[8 + n + v] = rows[v]
  <2>1. head \in Seq(S) /\ coords \in Seq(S) /\ <<<<Word>>>> \in Seq(S) /\ rows \in Seq(S) /\ end \in Seq(S)
    BY <1>3, <1>5
  <2> DEFINE mid == <<<<Word>>>>
  <2> HIDE DEF mid
  <2>2. mid \in Seq(S) /\ l = head \o coords \o mid \o rows \o end /\ Len(mid) = 1
    BY <1>4, <1>6, <2>1 DEF mid
  <2>3. /\ Len(l) = Len(head) + Len(coords) + Len(mid) + Len(rows) + Len(end)
        /\ \A i \in 1 .. Len(head) : l[i] = head[i]
        /\ \A i \in 1 .. Len(coords) : l[Len(head) + i] = coords[i]
        /\ \A i \in 1 .. Len(rows) : l[Len(head) + Len(coords) + Len(mid) + i] = rows[i]
    <3>1. mid \in Seq(S)
      BY <2>2
    <3>2. head \in Seq(S) /\ coords \in Seq(S) /\ rows \in Seq(S) /\ end \in Seq(S)
      BY <2>1
    <3>3. InParts(head \o coords \o mid \o rows \o end, head, coords, mid, rows, end)
      BY <3>1, <3>2, FiveParts
    <3>4. InParts(l, head, coords, mid, rows, end)
      BY <2>2, <3>3
    <3>5. QED
      BY <3>4 DEF InParts
  <2>4. Len(l) = 12 + 2 * n /\ \A i \in 1 .. 7 : l[i] = head[i]
    <3>1. Len(head) = 7 /\ Len(mid) = 1 /\ Len(end) = 4 /\ Len(coords) = n /\ Len(rows) = n
      BY <1>4, <1>5, <2>2
    <3>2. Len(l) = 7 + n + 1 + n + 4
      BY <2>3, <3>1
    <3>3. QED
      BY <2>3, <3>1, <3>2
  <2>5. ASSUME NEW v \in 1 .. n PROVE l[7 + v] = coords[v]
    BY <1>4, <1>5, <2>2, <2>3
  <2>6. ASSUME NEW v \in 1 .. n PROVE l[8 + n + v] = rows[v]
    <3>1. 7 + n + 1 + v = 8 + n + v
      OBVIOUS
    <3>2. Len(head) + Len(coords) + Len(mid) + v = 7 + n + 1 + v /\ v \in 1 .. Len(rows)
      BY <1>4, <1>5, <2>2
    <3>3. QED
      BY <2>3, <3>1, <3>2
  <2>7. QED
    BY <2>4, <2>5, <2>6
<1>10. l[1] = <<Word, Colon, Word>> /\ l[4] = <<Word, Colon, n>>
       /\ l[5] = <<Word, Colon, Word>> /\ l[6] = <<Word, Colon, q>>
  BY <1>4, <1>9
<1>11. ~Gives(l[1], 2) /\ Says(l[4], n) /\ Says(l[6], q) /\ ~Gives(AfterColon(l[5]), 1)
  BY <1>10, HeaderLine
<1>12. ASSUME NEW v \in 1 .. n
       PROVE  PlaceLine(l[7 + v], c, v) /\ DemandLine(l[8 + n + v], c, v)
  <2>1. l[7 + v] = <<v, X[v], Y[v]>> /\ l[8 + n + v] = <<v, IF v = 1 THEN 0 ELSE D[v]>>
    BY <1>7, <1>9
  <2>2. X[v] \in Nat /\ Y[v] \in Nat /\ D[v] \in Nat /\ v \in Nat /\ 0 \in Nat
    OBVIOUS
  <2>3. ASSUME NEW a \in Nat, NEW b \in Nat, NEW e \in Nat
        PROVE  Gives(<<a, b, e>>, 3) /\ Gives(<<a, b>>, 2)
    <3>1. \A i \in 1 .. 3 : i = 1 \/ i = 2 \/ i = 3
      OBVIOUS
    <3>2. \A i \in 1 .. 2 : i = 1 \/ i = 2
      OBVIOUS
    <3>3. QED
      BY <3>1, <3>2 DEF Gives
  <2>4. Gives(l[7 + v], 3) /\ Gives(l[8 + n + v], 2)
    BY <2>1, <2>2, <2>3
  <2>5. l[7 + v][2] = X[v] /\ l[7 + v][3] = Y[v] /\ (v # 1 => l[8 + n + v][2] = D[v])
    BY <2>1
  <2>6. QED
    BY <1>8, <2>4, <2>5 DEF PlaceLine, DemandLine
<1>13. Len(l) >= 8 + 2 * n /\ n > 0
  BY <1>9
<1>14. XText(l, c)
  BY <1>8, <1>11, <1>12, <1>13 DEF XText
<1>15. QED
  BY <1>14 DEF c, l

LEMMA WrittenText ==
  ASSUME FieldsInv, ChainInv, MatrixInv, ViewsInv, HasDepot, phase = "done", valid
  PROVE  XText(WrittenLines(Depth), ContentOf(Depth))
<1>2. PICK m \in Nat : /\ RootVertex[Depth] \in [0 .. m -> AllVertices(matrix_size)]
                      /\ VerticesOf(Depth) = 0 .. m /\ Cardinality(VerticesOf(Depth)) = m + 1
  BY LevelVertices
<1>3. VerticesOf(Depth) = 0 .. m /\ Cardinality(VerticesOf(Depth)) = m + 1
  BY <1>2
<1>4. ASSUME NEW v \in 1 .. m + 1
      PROVE  /\ Printed(get_x_coordinate(Depth, v - 1)) \in Nat
             /\ Printed(get_y_coordinate(Depth, v - 1)) \in Nat
             /\ get_demand(Depth, v - 1) \in Nat
  <2>1. v - 1 \in 0 .. m
    BY <1>2
  <2>2. QED
    BY <1>2, <2>1, LevelNumbers, PrintedNumber
<1>5. PICK size \in Nat \ {0} : size = m + 1
  BY <1>2
<1> DEFINE X == [v \in 1 .. size |-> Printed(get_x_coordinate(Depth, v - 1))]
           Y == [v \in 1 .. size |-> Printed(get_y_coordinate(Depth, v - 1))]
           D == [v \in 1 .. size |-> get_demand(Depth, v - 1)]
<1>6. X \in [1 .. size -> Nat] /\ Y \in [1 .. size -> Nat] /\ D \in [1 .. size -> Nat]
  BY <1>4, <1>5
<1>7. ContentOf(Depth) = [size |-> size, capacity |-> capacity, x |-> X, y |-> Y, demand |-> D]
  BY <1>3, <1>5 DEF ContentOf
<1>8. WrittenLines(Depth) = Lines(size, capacity, X, Y, D)
  <2> DEFINE d(v) == get_demand(Depth, v - 1)
  <2>1. /\ \A v \in 1 .. size : <<v, X[v], Y[v]>> = <<v, Printed(get_x_coordinate(Depth, v - 1)), Printed(get_y_coordinate(Depth, v - 1))>>
        /\ \A v \in 1 .. size : <<v, IF v = 1 THEN 0 ELSE D[v]>> = <<v, IF v = 1 THEN 0 ELSE d(v)>>
    OBVIOUS
  <2>2. /\ [v \in 1 .. size |-> <<v, X[v], Y[v]>>]
             = [v \in 1 .. size |-> <<v, Printed(get_x_coordinate(Depth, v - 1)), Printed(get_y_coordinate(Depth, v - 1))>>]
        /\ [v \in 1 .. size |-> <<v, IF v = 1 THEN 0 ELSE D[v]>>]
             = [v \in 1 .. size |-> <<v, IF v = 1 THEN 0 ELSE d(v)>>]
    <3> HIDE DEF X, Y, D, d
    <3>1. QED
      BY <2>1
  <2>3. Cardinality(VerticesOf(Depth)) = size
    BY <1>3, <1>5
  <2> DEFINE coords == [v \in 1 .. size |-> <<v, Printed(get_x_coordinate(Depth, v - 1)), Printed(get_y_coordinate(Depth, v - 1))>>]
             rows == [v \in 1 .. size |-> <<v, IF v = 1 THEN 0 ELSE d(v)>>]
             head == <<<<Word, Colon, Word>>, <<Word, Colon, Word>>, <<Word, Colon, Word>>,
                       <<Word, Colon, size>>, <<Word, Colon, Word>>, <<Word, Colon, capacity>>, <<Word>>>>
             tail == <<<<Word>>, <<1>>, <<Word>>, <<Word>>>>
  <2>4. WrittenLines(Depth) = head \o coords \o <<<<Word>>>> \o rows \o tail
    BY <2>3 DEF WrittenLines
  <2>5. Lines(size, capacity, X, Y, D) =
          head \o [v \in 1 .. size |-> <<v, X[v], Y[v]>>] \o <<<<Word>>>>
               \o [v \in 1 .. size |-> <<v, IF v = 1 THEN 0 ELSE D[v]>>] \o tail
    <3> HIDE DEF X, Y, D
    <3>1. QED
      BY DEF Lines
  <2>6. QED
    <3> HIDE DEF head, tail, X, Y, D, d
    <3>1. QED
      BY <2>2, <2>4, <2>5
<1> HIDE DEF X, Y, D
<1>9. capacity \in Nat
  BY DEF FieldsInv
<1>10. XText(Lines(size, capacity, X, Y, D), [size |-> size, capacity |-> capacity, x |-> X, y |-> Y, demand |-> D])
  BY <1>6, <1>9, LinesText
<1>11. QED
  BY <1>7, <1>8, <1>10

-----------------------------------------------------------------------------
(* The steps.                                                              *)

LEMMA SerializeRead ==
  ASSUME NEW originals, SubInv, HasDepot, serialize
  PROVE  SavedRead(originals)'
<1>1. FieldsInv /\ ChainInv /\ MatrixInv /\ ViewsInv /\ phase = "done" /\ valid
  BY DEF SubInv, serialize, Usable
<1> DEFINE l == WrittenLines(Depth)
           c == ContentOf(Depth)
<1>2. saved' = [exists |-> TRUE, lines |-> l, newline |-> TRUE, intact |-> TRUE, content |-> c]
  BY DEF serialize
<1>3. XText(l, c)
  BY <1>1, WrittenText
<1> HIDE DEF l, c
<1>4. saved'.intact /\ saved'.lines = l /\ saved'.content = c
  BY <1>2
<1>5. KnownFile(saved', originals)
  BY <1>3, <1>4 DEF KnownFile, Text
<1>6. QED
  BY <1>5 DEF SavedRead

LEMMA RootRead ==
  ASSUME NEW originals, InstanceRead(originals), UNCHANGED instanceVars
  PROVE  InstanceRead(originals)'
BY ReadKept DEF instanceVars, parseVars

LEMMA ConstructRead ==
  ASSUME NEW originals, originals \subseteq Seq(Seq(Tokens)), FieldsInv, InstanceRead(originals), Construct
  PROVE  InstanceRead(originals)'
BY OpenFailsRead, ReadLineRead, ParsedRead, MatrixRead, CheckRead DEF Construct

LEMMA ReadStep ==
  ASSUME NEW originals, originals \subseteq Seq(Seq(Tokens)),
         SubInv, HasDepot, InstanceRead(originals), SavedRead(originals), [Step]_vars
  PROVE  InstanceRead(originals)' /\ SavedRead(originals)'
<1>0. FieldsInv
  BY DEF SubInv
<1>1. saved' = saved => SavedRead(originals)'
  BY DEF SavedRead
<1>2. CASE ConstructInstance
  BY <1>0, <1>1, <1>2, ConstructRead DEF ConstructInstance, subVars
<1>3. CASE SortSubNeighbors \/ Decompose
  <2>1. UNCHANGED instanceVars /\ UNCHANGED saved
    BY <1>3 DEF SortSubNeighbors, Decompose
  <2>2. QED
    BY <1>1, <2>1, RootRead
<1>4. CASE \E k \in 1 .. Depth : \E v \in VerticesOf(k - 1) : get_reverse_mapping(k, v)
  <2>1. UNCHANGED instanceVars /\ UNCHANGED saved
    BY <1>4 DEF get_reverse_mapping
  <2>2. QED
    BY <1>1, <2>1, RootRead
<1>5. CASE serialize
  <2>1. UNCHANGED instanceVars
    BY <1>5 DEF serialize
  <2>2. QED
    BY <1>5, <2>1, RootRead, SerializeRead
<1>6. CASE Reopen
  <2>1. saved.exists /\ Opened(saved) /\ saved' = Nothing
    BY <1>6 DEF Reopen
  <2>2. KnownFile(saved, originals) /\ ~saved'.exists
    BY <2>1 DEF SavedRead, Nothing
  <2>3. QED
    BY <2>1, <2>2, OpenedRead DEF SavedRead
<1>7. CASE UNCHANGED vars
  <2>1. UNCHANGED instanceVars /\ UNCHANGED saved
    BY <1>7 DEF vars, subVars
  <2>2. QED
    BY <1>1, <2>1, RootRead
<1>8. QED
  BY <1>2, <1>3, <1>4, <1>5, <1>6, <1>7 DEF Step

LEMMA ReadDepot ==
  ASSUME NEW originals, SubInv, InstanceRead(originals)
  PROVE  HasDepot
<1>1. FieldsInv
  BY DEF SubInv
<1> SUFFICES ASSUME valid PROVE matrix_size > 0
  BY DEF HasDepot
<1>2. file.exists /\ phase # "parse" /\ file \in FileType /\ KnownFile(file, originals)
  BY <1>1 DEF InstanceRead, FieldsInv
<1>3. Fits(file.content, matrix_size, capacity, x_coordinates, y_coordinates, demands)
  BY <1>2 DEF InstanceRead
<1>4. QED
  BY <1>2, <1>3, SizeOfText DEF Fits

ReadInv(originals) == SubInv /\ InstanceRead(originals) /\ SavedRead(originals)

LEMMA ReadInvStep ==
  ASSUME NEW originals, originals \subseteq Seq(Seq(Tokens))
  PROVE  ReadInv(originals) /\ [Step]_vars => ReadInv(originals)'
<1> SUFFICES ASSUME ReadInv(originals), [Step]_vars PROVE ReadInv(originals)'
  OBVIOUS
<1>1. SubInv /\ InstanceRead(originals) /\ SavedRead(originals) /\ HasDepot
  BY ReadDepot DEF ReadInv
<1>2. SubInv'
  BY <1>1, SubStep
<1>3. InstanceRead(originals)' /\ SavedRead(originals)'
  BY <1>1, ReadStep
<1>4. QED
  BY <1>2, <1>3 DEF ReadInv

LEMMA ReadInvStart ==
  ASSUME NEW originals, \A f \in Files : KnownFile(f, originals)
  PROVE  SubInit => ReadInv(originals)
<1> SUFFICES ASSUME SubInit PROVE ReadInv(originals)
  OBVIOUS
<1>1. InstanceRead(originals)
  BY InitRead DEF SubInit
<1>2. SavedRead(originals)
  BY DEF SubInit, SavedRead, Nothing
<1>3. QED
  BY <1>1, <1>2, SubStart DEF ReadInv

LEMMA ReadInvContent ==
  ASSUME NEW originals
  PROVE  ReadInv(originals) => ReadAsWritten
<1> SUFFICES ASSUME ReadInv(originals), phase = "done", valid PROVE HoldsContent
  BY DEF ReadAsWritten
<1>1. InstanceRead(originals) /\ file.exists
  BY DEF ReadInv, InstanceRead
<1>2. Fits(file.content, matrix_size, capacity, x_coordinates, y_coordinates, demands)
  BY <1>1 DEF InstanceRead
<1>3. QED
  BY <1>2 DEF Fits, HoldsContent

LEMMA ReadInvAccepts ==
  ASSUME NEW originals
  PROVE  ReadInv(originals) => IntactAccepted
<1> SUFFICES ASSUME ReadInv(originals), phase = "done", file.exists, file.intact
             PROVE  valid <=> \A c \in 2 .. file.content.size : file.content.demand[c] # 0
  BY DEF IntactAccepted
<1>1. /\ Fits(file.content, matrix_size, capacity, x_coordinates, y_coordinates, demands)
      /\ valid <=> \A c \in 1 .. matrix_size - 1 : demands[c] # 0
  BY DEF ReadInv, InstanceRead
<1>2. PICK n \in Nat : matrix_size = n
  BY DEF ReadInv, SubInv, FieldsInv
<1>3. file.content.size = n /\ \A v \in 1 .. n - 1 : demands[v] = file.content.demand[v + 1]
  BY <1>1, <1>2 DEF Fits, AllVertices
<1>4. ASSUME NEW c \in 2 .. n, \A v \in 1 .. n - 1 : demands[v] # 0 PROVE file.content.demand[c] # 0
  <2>1. c - 1 \in 1 .. n - 1 /\ (c - 1) + 1 = c
    OBVIOUS
  <2>2. QED
    BY <1>3, <1>4, <2>1
<1>5. ASSUME NEW v \in 1 .. n - 1, \A c \in 2 .. n : file.content.demand[c] # 0 PROVE demands[v] # 0
  <2>1. v + 1 \in 2 .. n
    OBVIOUS
  <2>2. QED
    BY <1>3, <1>5, <2>1
<1>6. QED
  BY <1>1, <1>2, <1>3, <1>4, <1>5

LEMMA ReadInvSound ==
  ASSUME NEW originals
  PROVE  ReadInv(originals) => TypeOK /\ InstanceSound /\ HasDepot
<1> SUFFICES ASSUME ReadInv(originals) PROVE TypeOK /\ InstanceSound /\ HasDepot
  OBVIOUS
<1>1. SubInv /\ HasDepot
  BY ReadDepot DEF ReadInv
<1>2. QED
  BY <1>1, InvTypes, InvSound

-----------------------------------------------------------------------------
(* The theorems.  originals are the files of which Files holds damaged     *)
(* copies.                                                                 *)

\* No known file, intact or damaged, passes for another instance: what calls itself valid
\* is what the author of the file wrote, and so is a view that serialize wrote and an
\* instance read again (Instance.cpp:13, Instance_parsers.cpp, AbstractInstance.cpp:22-45).
THEOREM ReadCorrect ==
  ASSUME NEW originals, originals \subseteq Seq(Seq(Tokens)),
         \A f \in Files : KnownFile(f, originals)
  PROVE  Spec => []ReadAsWritten
<1>1. SubInit => ReadInv(originals)
  BY ReadInvStart
<1>2. ReadInv(originals) /\ [Step]_vars => ReadInv(originals)'
  BY ReadInvStep
<1>3. ReadInv(originals) => ReadAsWritten
  BY ReadInvContent
<1>4. QED
  BY <1>1, <1>2, <1>3, PTL DEF Spec

\* No parser takes a well-formed file of another format for its own, nor does what a failed
\* one left in the fields spoil the file for the right one; only a customer without demand
\* makes the instance invalid (Instance_parsers.cpp:33-36, Instance.cpp:81-86).
THEOREM IntactCorrect ==
  ASSUME NEW originals, originals \subseteq Seq(Seq(Tokens)),
         \A f \in Files : KnownFile(f, originals)
  PROVE  Spec => []IntactAccepted
<1>1. SubInit => ReadInv(originals)
  BY ReadInvStart
<1>2. ReadInv(originals) /\ [Step]_vars => ReadInv(originals)'
  BY ReadInvStep
<1>3. ReadInv(originals) => IntactAccepted
  BY ReadInvAccepts
<1>4. QED
  BY <1>1, <1>2, <1>3, PTL DEF Spec

\* What the file of a view says of a coordinate of at most six digits is the coordinate
\* itself: with ReadCorrect, such a view is read again as it was
\* (AbstractInstance.cpp:30-32).
ShortCoordinatesKept ==
  serialize => \A v \in VerticesOf(Depth) :
    /\ SixDigits(get_x_coordinate(Depth, v)) => saved'.content.x[v + 1] = get_x_coordinate(Depth, v)
    /\ SixDigits(get_y_coordinate(Depth, v)) => saved'.content.y[v + 1] = get_y_coordinate(Depth, v)

LEMMA SerializeShort ==
  ASSUME SubInv, HasDepot
  PROVE  ShortCoordinatesKept
<1> SUFFICES ASSUME serialize, NEW v \in VerticesOf(Depth)
             PROVE  /\ SixDigits(get_x_coordinate(Depth, v)) =>
                         saved'.content.x[v + 1] = get_x_coordinate(Depth, v)
                    /\ SixDigits(get_y_coordinate(Depth, v)) =>
                         saved'.content.y[v + 1] = get_y_coordinate(Depth, v)
  BY DEF ShortCoordinatesKept
<1>1. FieldsInv /\ ChainInv /\ MatrixInv /\ ViewsInv /\ phase = "done" /\ valid
  BY DEF SubInv, serialize, Usable
<1>2. saved'.content = ContentOf(Depth)
  BY DEF serialize
<1>3. PICK m \in Nat : /\ RootVertex[Depth] \in [0 .. m -> AllVertices(matrix_size)]
                      /\ VerticesOf(Depth) = 0 .. m /\ Cardinality(VerticesOf(Depth)) = m + 1
  BY <1>1, LevelVertices
<1>4. v \in 0 .. m /\ v + 1 \in 1 .. m + 1 /\ (v + 1) - 1 = v
  BY <1>3
<1>5. get_x_coordinate(Depth, v) \in Nat /\ get_y_coordinate(Depth, v) \in Nat
  BY <1>1, <1>3, <1>4, LevelNumbers
<1>6. /\ saved'.content.x[v + 1] = Printed(get_x_coordinate(Depth, v))
      /\ saved'.content.y[v + 1] = Printed(get_y_coordinate(Depth, v))
  BY <1>2, <1>3, <1>4 DEF ContentOf
<1>7. QED
  BY <1>5, <1>6, PrintedInFull

\* A coordinate of at most six digits is written in full: with ReadCorrect above, what
\* is read of the file of a view of such coordinates is that view
\* (AbstractInstance.cpp:30-32).
THEOREM ShortCoordinatesWritten ==
  ASSUME NEW originals, originals \subseteq Seq(Seq(Tokens)),
         \A f \in Files : KnownFile(f, originals)
  PROVE  Spec => [][ShortCoordinatesKept]_vars
<1>1. SubInit => ReadInv(originals)
  BY ReadInvStart
<1>2. ReadInv(originals) /\ [Step]_vars => ReadInv(originals)'
  BY ReadInvStep
<1>3. ReadInv(originals) => ShortCoordinatesKept
  BY ReadInvSound, SerializeShort DEF ReadInv
<1>4. QED
  BY <1>1, <1>2, <1>3, PTL DEF Spec

\* On these files the hypothesis of TypeCorrect and SoundCorrect holds: an instance that
\* calls itself valid has a depot (Instance_parsers.cpp:95 takes it for granted).  So its
\* fields are sound, and so is every view over it.
THEOREM DepotThere ==
  ASSUME NEW originals, originals \subseteq Seq(Seq(Tokens)),
         \A f \in Files : KnownFile(f, originals)
  PROVE  Spec => []HasDepot /\ []TypeOK /\ []InstanceSound
<1>1. SubInit => ReadInv(originals)
  BY ReadInvStart
<1>2. ReadInv(originals) /\ [Step]_vars => ReadInv(originals)'
  BY ReadInvStep
<1>3. ReadInv(originals) => TypeOK /\ InstanceSound /\ HasDepot
  BY ReadInvSound
<1>4. QED
  BY <1>1, <1>2, <1>3, PTL DEF Spec
=============================================================================
