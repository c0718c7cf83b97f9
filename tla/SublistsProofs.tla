--------------------------- MODULE SublistsProofs ---------------------------
(***************************************************************************)
(* What Only keeps of a sequence that is appended to, cut or put together. *)
(* Only is defined by recursion; that the recursion has a value, and that  *)
(* it is unique, is shown with the least number that would contradict it.  *)
(***************************************************************************)
EXTENDS Sublists, SequenceTheorems, WellFoundedInduction, TLAPS

(* A set of numbers that has an element has a least one.                   *)
LEMMA Least ==
    ASSUME NEW B \in SUBSET Nat, B # {}
    PROVE  \E n \in B : \A m \in B : n <= m
<1>1. IsWellFoundedOn(OpToRel(<,Nat), Nat)
  BY NatLessThanWellFounded
<1>2. PICK n \in B : \A m \in B : <<m, n>> \notin OpToRel(<,Nat)
  BY <1>1, WFMin
<1>3. \A m \in B : ~(m < n)
  BY <1>2 DEF OpToRel
<1> QED
  BY <1>3

(* f[n] is what the recursion of Only comes to after n elements of s.      *)
Builds(f, s, T, n) ==
    /\ f = [k \in 0..n |-> f[k]]
    /\ f[0] = <<>>
    /\ \A k \in 1..n :
          f[k] = IF s[k] \in T THEN Append(f[k - 1], s[k]) ELSE f[k - 1]

(* There is such a function for every number of elements.                  *)
LEMMA BuildsExists ==
    ASSUME NEW s, NEW T, NEW n \in Nat
    PROVE  \E f : Builds(f, s, T, n)
<1> DEFINE B == {k \in Nat : ~\E f : Builds(f, s, T, k)}
<1> SUFFICES ASSUME B # {} PROVE FALSE
  OBVIOUS
<1>1. PICK k \in B : \A m \in B : k <= m
  BY Least
<1>2. k \in Nat /\ ~\E f : Builds(f, s, T, k)
  OBVIOUS
<1>3. CASE k = 0
  <2> DEFINE f == [j \in 0..0 |-> <<>>]
  <2>1. Builds(f, s, T, 0)
    BY DEF Builds
  <2> QED
    BY <1>2, <1>3, <2>1
<1>4. CASE k # 0
  <2>1. k - 1 \in Nat /\ k - 1 \notin B
    BY <1>1, <1>2, <1>4
  <2>2. PICK g : Builds(g, s, T, k - 1)
    BY <2>1
  <2> DEFINE last == IF s[k] \in T THEN Append(g[k - 1], s[k]) ELSE g[k - 1]
             f == [j \in 0..k |-> IF j = k THEN last ELSE g[j]]
  <2>3. /\ \A j \in 0..(k - 1) : f[j] = g[j]
        /\ f[k] = last
        /\ f = [j \in 0..k |-> f[j]]
    <3>1. k \in 0..k /\ \A j \in 0..(k - 1) : j \in 0..k /\ j # k
      BY <1>2, <1>4
    <3> QED
      BY <3>1
  <2> HIDE DEF f
  <2>4. f[0] = <<>>
    BY <1>2, <1>4, <2>2, <2>3 DEF Builds
  <2>5. ASSUME NEW j \in 1..k
        PROVE  f[j] = IF s[j] \in T THEN Append(f[j - 1], s[j]) ELSE f[j - 1]
    <3>1. j - 1 \in 0..(k - 1)
      BY <1>2
    <3>2. CASE j = k
      BY <2>3, <3>1, <3>2
    <3>3. CASE j # k
      <4>1. j \in 1..(k - 1) /\ j \in 0..(k - 1)
        BY <1>2, <3>3
      <4> QED
        BY <2>2, <2>3, <3>1, <4>1 DEF Builds
    <3> QED
      BY <3>2, <3>3
  <2>6. Builds(f, s, T, k)
    BY <2>3, <2>4, <2>5 DEF Builds
  <2> QED
    BY <1>2, <2>6
<1> QED
  BY <1>3, <1>4

(* Two of them agree as long as their sequences do.                        *)
LEMMA BuildsUnique ==
    ASSUME NEW s, NEW t, NEW T, NEW n \in Nat, NEW m \in Nat, NEW f, NEW g,
           Builds(f, s, T, n), Builds(g, t, T, m), n <= m,
           \A k \in 1..n : s[k] = t[k]
    PROVE  \A k \in 0..n : f[k] = g[k]
<1> DEFINE B == {k \in Nat : k <= n /\ f[k] # g[k]}
<1> SUFFICES ASSUME B # {} PROVE FALSE
  OBVIOUS
<1>1. PICK k \in B : \A j \in B : k <= j
  BY Least
<1>2. k \in Nat /\ k <= n /\ f[k] # g[k]
  OBVIOUS
<1>3. CASE k = 0
  BY <1>2, <1>3 DEF Builds
<1>4. CASE k # 0
  <2>1. k - 1 \in Nat /\ k - 1 <= n /\ ~(k <= k - 1)
    BY <1>2, <1>4
  <2>2. f[k - 1] = g[k - 1]
    BY <1>1, <2>1
  <2>3. k \in 1..n /\ k \in 1..m
    BY <1>2, <1>4
  <2> QED
    BY <1>2, <2>2, <2>3 DEF Builds
<1> QED
  BY <1>3, <1>4

(* Only is the last value of any such function.                            *)
LEMMA OnlyIs ==
    ASSUME NEW S, NEW s \in Seq(S), NEW T, NEW f, Builds(f, s, T, Len(s))
    PROVE  Only(s, T) = f[Len(s)]
<1> DEFINE R(h) == h = [n \in 0..Len(s) |->
                          IF n = 0 THEN <<>>
                          ELSE IF s[n] \in T THEN Append(h[n - 1], s[n])
                                             ELSE h[n - 1]]
           h0 == CHOOSE h : R(h)
<1>1. Len(s) \in Nat
  OBVIOUS
<1>2. R(f)
  <2>1. \A k \in 0..Len(s) :
           f[k] = IF k = 0 THEN <<>>
                  ELSE IF s[k] \in T THEN Append(f[k - 1], s[k])
                                     ELSE f[k - 1]
    <3> SUFFICES ASSUME NEW k \in 0..Len(s)
                 PROVE  f[k] = IF k = 0 THEN <<>>
                               ELSE IF s[k] \in T
                                    THEN Append(f[k - 1], s[k])
                                    ELSE f[k - 1]
      OBVIOUS
    <3>1. CASE k = 0
      BY <3>1 DEF Builds
    <3>2. CASE k # 0
      <4>1. k \in 1..Len(s)
        BY <1>1, <3>2
      <4> QED
        BY <3>2, <4>1 DEF Builds
    <3> QED
      BY <3>1, <3>2
  <2>2. f = [k \in 0..Len(s) |-> f[k]]
    BY DEF Builds
  <2>3. [k \in 0..Len(s) |-> f[k]]
          = [n \in 0..Len(s) |-> IF n = 0 THEN <<>>
                          ELSE IF s[n] \in T THEN Append(f[n - 1], s[n])
                                             ELSE f[n - 1]]
    BY <2>1
  <2> QED
    BY <2>2, <2>3
<1>3. R(h0)
  BY <1>2
<1>4. Only(s, T) = h0[Len(s)]
  BY Zenon DEF Only
<1> HIDE DEF h0
<1>5. Builds(h0, s, T, Len(s))
  <2>1. \A k \in 0..Len(s) :
           h0[k] = IF k = 0 THEN <<>>
                   ELSE IF s[k] \in T THEN Append(h0[k - 1], s[k])
                                      ELSE h0[k - 1]
    BY <1>3
  <2>2. h0 = [k \in 0..Len(s) |-> h0[k]]
    BY <1>3
  <2>3. h0[0] = <<>>
    BY <1>1, <2>1
  <2>4. \A k \in 1..Len(s) : h0[k] = IF s[k] \in T
                                     THEN Append(h0[k - 1], s[k])
                                     ELSE h0[k - 1]
    BY <1>1, <2>1
  <2> QED
    BY <2>2, <2>3, <2>4 DEF Builds
<1>6. \A k \in 0..Len(s) : h0[k] = f[k]
  BY <1>1, <1>5, BuildsUnique
<1> QED
  BY <1>1, <1>4, <1>6

(* A function that builds Only.                                            *)
LEMMA OnlyBuilt ==
    ASSUME NEW S, NEW s \in Seq(S), NEW T
    PROVE  \E f : Builds(f, s, T, Len(s)) /\ Only(s, T) = f[Len(s)]
<1>1. Len(s) \in Nat
  OBVIOUS
<1>2. PICK f : Builds(f, s, T, Len(s))
  BY <1>1, BuildsExists
<1> QED
  BY <1>2, OnlyIs

-----------------------------------------------------------------------------
(* Only, element by element.                                               *)

(* Of nothing Only takes nothing.                                          *)
LEMMA OnlyEmpty == \A T : Only(<<>>, T) = <<>>
<1> SUFFICES ASSUME NEW T PROVE Only(<<>>, T) = <<>>
  OBVIOUS
<1>1. <<>> \in Seq({}) /\ Len(<<>>) = 0
  BY EmptySeq
<1>2. PICK f : Builds(f, <<>>, T, 0) /\ Only(<<>>, T) = f[0]
  BY <1>1, OnlyBuilt
<1> QED
  BY <1>2 DEF Builds

(* What is appended is kept or left out.                                   *)
LEMMA OnlyAppend ==
    ASSUME NEW S, NEW s \in Seq(S), NEW e \in S, NEW T
    PROVE  Only(Append(s, e), T) = IF e \in T THEN Append(Only(s, T), e)
                                              ELSE Only(s, T)
<1> DEFINE t == Append(s, e)
           n == Len(s)
<1>1. /\ t \in Seq(S) /\ n \in Nat /\ Len(t) = n + 1
      /\ t[n + 1] = e /\ \A k \in 1..n : s[k] = t[k]
  OBVIOUS
<1> HIDE DEF t, n
<1>2. PICK f : Builds(f, s, T, n) /\ Only(s, T) = f[n]
  BY OnlyBuilt DEF n
<1>3. PICK g : Builds(g, t, T, n + 1) /\ Only(t, T) = g[n + 1]
  BY <1>1, OnlyBuilt
<1>4. f[n] = g[n]
  <2> DEFINE m == n + 1
  <2>1. m \in Nat /\ n <= m /\ n \in 0..n
    BY <1>1
  <2>2. Builds(g, t, T, m)
    BY <1>3
  <2> HIDE DEF m
  <2>3. \A k \in 0..n : f[k] = g[k]
    BY <1>1, <1>2, <2>1, <2>2, BuildsUnique
  <2> QED
    BY <2>1, <2>3
<1>5. n + 1 \in 1..(n + 1) /\ (n + 1) - 1 = n
  BY <1>1
<1>6. g[n + 1] = IF t[n + 1] \in T THEN Append(g[n], t[n + 1]) ELSE g[n]
  BY <1>3, <1>5 DEF Builds
<1> QED
  BY <1>1, <1>2, <1>3, <1>4, <1>6 DEF t

(* The elements are the sequence's own, and of T.                          *)
LEMMA OnlyType ==
    ASSUME NEW S, NEW s \in Seq(S), NEW T
    PROVE  Only(s, T) \in Seq(S \cap T)
<1> DEFINE U == S \cap T
<1>1. Len(s) \in Nat
  OBVIOUS
<1>2. PICK f : Builds(f, s, T, Len(s)) /\ Only(s, T) = f[Len(s)]
  BY OnlyBuilt
<1> DEFINE B == {k \in Nat : k <= Len(s) /\ f[k] \notin Seq(U)}
<1>3. CASE B = {}
  BY <1>1, <1>2, <1>3
<1>4. CASE B # {}
  <2>1. PICK k \in B : \A j \in B : k <= j
    BY <1>4, Least
  <2>2. k \in Nat /\ k <= Len(s) /\ f[k] \notin Seq(U)
    OBVIOUS
  <2>3. k # 0
    <3>1. <<>> \in Seq(U)
      BY EmptySeq
    <3> QED
      BY <1>2, <2>2, <3>1 DEF Builds
  <2>4. k - 1 \in Nat /\ k - 1 <= Len(s) /\ ~(k <= k - 1) /\ k \in 1..Len(s)
    BY <1>1, <2>2, <2>3
  <2>5. f[k - 1] \in Seq(U)
    BY <2>1, <2>4
  <2>6. f[k] = IF s[k] \in T THEN Append(f[k - 1], s[k]) ELSE f[k - 1]
    BY <1>2, <2>4 DEF Builds
  <2>7. s[k] \in S
    BY <2>4
  <2>8. s[k] \in T => Append(f[k - 1], s[k]) \in Seq(U)
    BY <2>5, <2>7
  <2> QED
    BY <2>2, <2>5, <2>6, <2>8
<1> QED
  BY <1>3, <1>4

(* Of a sequence put together Only takes the same, in the same order.      *)
LEMMA OnlyJoined ==
    ASSUME NEW S, NEW s \in Seq(S), NEW t \in Seq(S), NEW T
    PROVE  Only(s \o t, T) = Only(s, T) \o Only(t, T)
<1> DEFINE part(k) == SubSeq(t, 1, k)
           B == {k \in Nat : /\ k <= Len(t)
                             /\ Only(s \o part(k), T)
                                  # Only(s, T) \o Only(part(k), T)}
<1>1. Len(t) \in Nat /\ part(Len(t)) = t
  BY SubSeqFull
<1>2. CASE B = {}
  <2>1. Len(t) \notin B
    BY <1>2
  <2>2. Only(s \o part(Len(t)), T) = Only(s, T) \o Only(part(Len(t)), T)
    BY <1>1, <2>1
  <2> HIDE DEF part
  <2> QED
    BY <1>1, <2>2
<1>3. CASE B # {}
  <2>1. PICK k \in B : \A j \in B : k <= j
    BY <1>3, Least
  <2>2. /\ k \in Nat /\ k <= Len(t)
        /\ Only(s \o part(k), T) # Only(s, T) \o Only(part(k), T)
    OBVIOUS
  <2>3. Only(s, T) \in Seq(S)
    <3>1. Only(s, T) \in Seq(S \cap T)
      BY OnlyType
    <3> QED
      BY <3>1, SeqMonotonic
  <2>4. k # 0
    <3> SUFFICES ASSUME k = 0 PROVE FALSE
      OBVIOUS
    <3>1. part(0) = <<>>
      BY SubSeqEmpty
    <3>2. s \o <<>> = s /\ Only(s, T) \o <<>> = Only(s, T)
      BY <2>3, ConcatEmptySeq
    <3> QED
      BY <2>2, <3>1, <3>2, OnlyEmpty
  <2>5. k - 1 \in Nat /\ k - 1 <= Len(t) /\ ~(k <= k - 1) /\ k \in 1..Len(t)
    BY <1>1, <2>2, <2>4
  <2>6. Only(s \o part(k - 1), T) = Only(s, T) \o Only(part(k - 1), T)
    BY <2>1, <2>5
  <2> DEFINE r == part(k - 1)
             e == t[k]
  <2>7. r \in Seq(S) /\ e \in S
    BY <2>5, SubSeqProperties
  <2>8. part(k) = Append(r, e)
    BY <2>5
  <2> HIDE DEF part, r, e, B
  <2>9. s \o Append(r, e) = Append(s \o r, e) /\ s \o r \in Seq(S)
    BY <2>7
  <2>10. Only(r, T) \in Seq(S)
    <3>1. Only(r, T) \in Seq(S \cap T)
      BY <2>7, OnlyType
    <3> QED
      BY <3>1, SeqMonotonic
  <2>11. Only(s, T) \o Append(Only(r, T), e)
           = Append(Only(s, T) \o Only(r, T), e)
    BY <2>3, <2>7, <2>10
  <2>12. Only(Append(s \o r, e), T) = IF e \in T
                                      THEN Append(Only(s \o r, T), e)
                                      ELSE Only(s \o r, T)
    BY <2>7, <2>9, OnlyAppend
  <2>13. Only(Append(r, e), T) = IF e \in T THEN Append(Only(r, T), e)
                                            ELSE Only(r, T)
    BY <2>7, OnlyAppend
  <2>14. Only(s \o r, T) = Only(s, T) \o Only(r, T)
    BY <2>6 DEF r
  <2> QED
    BY <2>2, <2>8, <2>9, <2>11, <2>12, <2>13, <2>14
<1> QED
  BY <1>2, <1>3

(* Of one element Only takes that, or nothing.                             *)
LEMMA OnlyOne ==
    \A e, T : Only(<<e>>, T) = IF e \in T THEN <<e>> ELSE <<>>
<1> SUFFICES ASSUME NEW e, NEW T
             PROVE  Only(<<e>>, T) = IF e \in T THEN <<e>> ELSE <<>>
  OBVIOUS
<1>1. <<>> \in Seq({e}) /\ Append(<<>>, e) = <<e>>
  OBVIOUS
<1>2. e \in {e}
  OBVIOUS
<1>3. Only(Append(<<>>, e), T) = IF e \in T THEN Append(Only(<<>>, T), e)
                                            ELSE Only(<<>>, T)
  BY <1>1, <1>2, OnlyAppend, Zenon
<1> QED
  BY <1>1, <1>3, OnlyEmpty

(* Of a sequence without its first element: the rest.                      *)
LEMMA OnlyTail ==
    ASSUME NEW S, NEW s \in Seq(S), s # <<>>, NEW T
    PROVE  Only(s, T) = IF Head(s) \in T
                        THEN <<Head(s)>> \o Only(Tail(s), T)
                        ELSE Only(Tail(s), T)
<1> DEFINE h == Head(s)
           r == Tail(s)
<1>1. h \in S /\ r \in Seq(S) /\ s = <<h>> \o r /\ <<h>> \in Seq(S)
  OBVIOUS
<1> HIDE DEF h, r
<1>2. Only(s, T) = Only(<<h>>, T) \o Only(r, T)
  <2> DEFINE one == <<h>>
  <2>1. one \in Seq(S) /\ r \in Seq(S) /\ s = one \o r
    BY <1>1
  <2> HIDE DEF one
  <2>2. Only(one \o r, T) = Only(one, T) \o Only(r, T)
    BY <2>1, OnlyJoined
  <2> QED
    BY <2>1, <2>2 DEF one
<1>3. <<>> \o Only(r, T) = Only(r, T)
  <2>1. Only(r, T) \in Seq(S \cap T)
    BY <1>1, OnlyType
  <2> QED
    BY <2>1, ConcatEmptySeq
<1> QED
  BY <1>2, <1>3, OnlyOne DEF h, r

(* A sequence cut in two.                                                  *)
LEMMA OnlyCut ==
    ASSUME NEW S, NEW s \in Seq(S), NEW n \in 1..Len(s), NEW T
    PROVE  Only(s, T) = Only(SubSeq(s, 1, n), T)
                          \o Only(SubSeq(s, n + 1, Len(s)), T)
<1>1. Len(s) \in Nat /\ n \in Nat /\ 1 <= n /\ n <= Len(s)
  OBVIOUS
<1>2. /\ SubSeq(s, 1, n) \in Seq(S)
      /\ SubSeq(s, n + 1, Len(s)) \in Seq(S)
  BY <1>1
<1>3. SubSeq(s, 1, n) \o SubSeq(s, n + 1, Len(s)) = s
  <2>1. /\ 1 \in 1..(Len(s) + 1) /\ n \in (1 - 1)..Len(s)
        /\ Len(s) \in n..Len(s)
    BY <1>1
  <2>2. SubSeq(s, 1, n) \o SubSeq(s, n + 1, Len(s)) = SubSeq(s, 1, Len(s))
    BY <2>1, ConcatAdjacentSubSeq
  <2> QED
    BY <2>2, SubSeqFull
<1> DEFINE a == SubSeq(s, 1, n)
           b == SubSeq(s, n + 1, Len(s))
<1> HIDE DEF a, b
<1>4. a \in Seq(S) /\ b \in Seq(S)
  BY <1>2 DEF a, b
<1>5. Only(a \o b, T) = Only(a, T) \o Only(b, T)
  BY <1>4, OnlyJoined
<1>6. a \o b = s
  BY <1>3 DEF a, b
<1> QED
  BY <1>5, <1>6 DEF a, b

-----------------------------------------------------------------------------
(* Queues that pass elements on.                                           *)

(* An appended element is a sequence of its own.                           *)
LEMMA AppendOne ==
    ASSUME NEW S, NEW s \in Seq(S), NEW e \in S
    PROVE  Append(s, e) = s \o <<e>> /\ <<e>> \in Seq(S)
OBVIOUS

(* A sequence in four parts: what is appended to the last one is appended  *)
(* to the whole, and what moves from the front of one to the end of the    *)
(* one before it leaves the whole as it was.                               *)
LEMMA PartsMove ==
    ASSUME NEW S, NEW a \in Seq(S), NEW b \in Seq(S), NEW e \in S
    PROVE  /\ a \o Append(b, e) = Append(a \o b, e)
           /\ Append(a, e) \o b = a \o (<<e>> \o b)
<1> DEFINE one == <<e>>
<1>1. one \in Seq(S) /\ Append(b, e) = b \o one /\ Append(a, e) = a \o one
  BY AppendOne
<1>2. a \o b \in Seq(S)
  BY ConcatProperties
<1>3. Append(a \o b, e) = (a \o b) \o one
  BY <1>2, AppendOne
<1> HIDE DEF one
<1>4. (a \o b) \o one = a \o (b \o one)
  BY <1>1, ConcatAssociative
<1>5. (a \o one) \o b = a \o (one \o b)
  BY <1>1, ConcatAssociative
<1> QED
  BY <1>1, <1>3, <1>4, <1>5 DEF one

(* t is s with e appended; e is the element of all behind as many as g has.*)
IsAppend(t, s, e) == t = Append(s, e)
IsNext(all, g, e) == Len(g) < Len(all) /\ all[Len(g) + 1] = e

(* Three queues in a row, the one read last first.                         *)
InRow(a, b, c) == (a \o b) \o c

(* What is appended to the last queue is appended to the row.              *)
LEMMA RowGrows ==
    ASSUME NEW S, NEW a \in Seq(S), NEW b \in Seq(S), NEW c \in Seq(S),
           NEW e \in S, NEW c1, IsAppend(c1, c, e),
           NEW all, InRow(a, b, c) = all, NEW all1, IsAppend(all1, all, e)
    PROVE  InRow(a, b, c1) = all1
<1> DEFINE ab == a \o b
<1>1. ab \in Seq(S)
  BY ConcatProperties
<1> HIDE DEF ab
<1>2. ab \o Append(c, e) = Append(ab \o c, e)
  BY <1>1, PartsMove
<1> QED
  BY <1>2 DEF ab, InRow, IsAppend

(* An element that passes to the queue before leaves the row as it was.    *)
LEMMA RowPasses ==
    ASSUME NEW S, NEW a \in Seq(S), NEW b \in Seq(S), NEW c \in Seq(S),
           NEW e \in S
    PROVE  /\ InRow(a, Append(b, e), c) = InRow(a, b, <<e>> \o c)
           /\ InRow(Append(a, e), b, c) = InRow(a, <<e>> \o b, c)
<1> DEFINE ab == a \o b
<1>1. ab \in Seq(S)
  BY ConcatProperties
<1> HIDE DEF ab
<1>2. (a \o Append(b, e)) \o c = ab \o (<<e>> \o c)
  <2>1. a \o Append(b, e) = Append(ab, e)
    BY PartsMove DEF ab
  <2>2. Append(ab, e) \o c = ab \o (<<e>> \o c)
    BY <1>1, PartsMove
  <2> QED
    BY <2>1, <2>2
<1>3. Append(a, e) \o b = a \o (<<e>> \o b)
  BY PartsMove
<1> QED
  BY <1>2, <1>3 DEF ab, InRow

(* What passes to the front queue is the next element of the row.          *)
LEMMA RowNext ==
    ASSUME NEW S, NEW a \in Seq(S), NEW b \in Seq(S), NEW c \in Seq(S),
           NEW e \in S, NEW a1, IsAppend(a1, a, e),
           NEW all, InRow(a1, b, c) = all
    PROVE  IsNext(all, a, e)
<1> DEFINE ae == a1
           ab == ae \o b
<1>1. /\ ae \in Seq(S) /\ Len(ae) = Len(a) + 1 /\ Len(a) \in Nat
      /\ ae[Len(a) + 1] = e
  BY AppendProperties DEF IsAppend
<1> HIDE DEF ae
<1>2. /\ ab \in Seq(S) /\ Len(ab) >= Len(ae)
      /\ \A i \in 1..Len(ae) : ab[i] = ae[i]
  BY <1>1
<1> HIDE DEF ab
<1>3. /\ Len(ab \o c) >= Len(ab)
      /\ \A i \in 1..Len(ab) : (ab \o c)[i] = ab[i]
  BY <1>2
<1>4. all = ab \o c
  BY DEF ab, ae, InRow
<1>5. Len(a) + 1 \in 1..Len(ae) /\ Len(a) + 1 \in 1..Len(ab)
  BY <1>1, <1>2
<1>6. all[Len(a) + 1] = e
  BY <1>1, <1>2, <1>3, <1>4, <1>5
<1>7. Len(a) < Len(all)
  <2>1. Len(ab) \in Nat /\ Len(ab \o c) \in Nat
    BY <1>2
  <2> QED
    BY <1>1, <1>3, <1>4, <1>5, <2>1
<1> QED
  BY <1>6, <1>7 DEF IsNext
=============================================================================
