------------------------ MODULE OutboundBufferProofs ------------------------
(***************************************************************************)
(* Proofs about OutboundBuffer, for any slices, limits and partial writes. *)
(***************************************************************************)
EXTENDS OutboundBuffer, SequenceTheorems, WellFoundedInduction, TLAPS

(* A set of numbers has a least one.                                       *)
LEMMA Least ==
  ASSUME NEW S \in SUBSET Nat, S # {}
  PROVE  \E x \in S : \A y \in S : x <= y
<1>1. PICK x \in S : \A y \in S : ~(<<y, x>> \in OpToRel(<, Nat))
  BY NatLessThanWellFounded, WFMin, Zenon
<1>2. ASSUME NEW y \in S PROVE x <= y
  <2>1. ~(<<y, x>> \in OpToRel(<, Nat))
    BY <1>1, Zenon
  <2>2. ~(y < x)
    BY <2>1, Zenon DEF OpToRel
  <2> QED
    BY <2>2
<1> QED
  BY <1>2

-----------------------------------------------------------------------------
(* The bytes of several slices.                                            *)

(* g[i] is what the first i slices of q hold, for i up to n.               *)
Chain(g, q, n) ==
  \A i \in 1..n : g[i] = IF i = 1 THEN q[1] ELSE g[i - 1] \o q[i]

Same(g, h, n) == g[n] = h[n]

Agree(p, q, n) == \A i \in 1..n : Same(p, q, i)

(* FlattenSeq is the end of a function that is defined by itself.          *)
LEMMA FlattenDef ==
  ASSUME NEW q, Len(q) # 0
  PROVE  FlattenSeq(q) =
           (CHOOSE f : f = [i \in 1..Len(q) |->
              IF i = 1 THEN q[i] ELSE f[i - 1] \o q[i]])[Len(q)]
  BY DEF FlattenSeq

(* There is such a function,                                               *)
LEMMA ChainExists ==
  ASSUME NEW q, NEW n \in Nat
  PROVE  \E g : Chain(g, q, n)
<1> DEFINE Bad == {m \in 0..n : ~\E g : Chain(g, q, m)}
<1>1. SUFFICES ASSUME Bad # {} PROVE FALSE
  BY <1>1
<1>2. PICK m \in Bad : \A l \in Bad : m <= l
  <2>1. Bad \in SUBSET Nat
    OBVIOUS
  <2> HIDE DEF Bad
  <2> QED
    BY <1>1, <2>1, Least
<1>3. m \in 0..n /\ ~\E g : Chain(g, q, m)
  BY <1>2
<1>4. m # 0
  BY <1>3 DEF Chain
<1>5. m - 1 \in 0..n /\ m - 1 \notin Bad
  BY <1>2, <1>3, <1>4
<1>6. PICK g : Chain(g, q, m - 1)
  BY <1>5
<1> HIDE DEF Bad
<1> PICK e : e = IF m = 1 THEN q[1] ELSE g[m - 1] \o q[m]
  OBVIOUS
<1> PICK h : h = [i \in 1..m |-> IF i = m THEN e ELSE g[i]]
  OBVIOUS
<1>7. \A i \in 1..m : h[i] = IF i = m THEN e ELSE g[i]
  OBVIOUS
<1>8. ASSUME NEW i \in 1..m
      PROVE  h[i] = IF i = 1 THEN q[1] ELSE h[i - 1] \o q[i]
  <2>1. CASE i = m /\ m = 1
    BY <1>7, <2>1
  <2>2. CASE i = m /\ m # 1
    <3>1. m \in 1..m /\ m - 1 \in 1..m /\ m - 1 # m
      BY <1>3, <1>4, <2>2
    <3>2. h[m] = e /\ h[m - 1] = g[m - 1]
      BY <1>7, <3>1
    <3>3. e = g[m - 1] \o q[m]
      BY <2>2
    <3> QED
      BY <2>2, <3>2, <3>3
  <2>3. CASE i # m
    <3>1. i \in 1..(m - 1) /\ h[i] = g[i] /\ (i # 1 => h[i - 1] = g[i - 1])
      BY <1>3, <1>7, <2>3
    <3>2. g[i] = IF i = 1 THEN q[1] ELSE g[i - 1] \o q[i]
      BY <1>6, <3>1 DEF Chain
    <3> QED
      BY <3>1, <3>2
  <2> QED
    BY <2>1, <2>2, <2>3
<1>9. Chain(h, q, m)
  BY <1>8 DEF Chain
<1> QED
  BY <1>3, <1>9

(* FlattenSeq is its last value,                                           *)
LEMMA FlattenChain ==
  ASSUME NEW q, Len(q) \in Nat \ {0}
  PROVE  \E g : Chain(g, q, Len(q)) /\ FlattenSeq(q) = g[Len(q)]
<1> PICK n \in Nat : n = Len(q)
  OBVIOUS
<1>1. PICK g : Chain(g, q, n)
  BY ChainExists
<1> DEFINE Fix(f) == f = [i \in 1..n |-> IF i = 1 THEN q[i] ELSE f[i - 1] \o q[i]]
           c == CHOOSE f : Fix(f)
<1> PICK f : f = [i \in 1..n |-> g[i]]
  OBVIOUS
<1>2. Fix(f)
  <2>1. ASSUME NEW i \in 1..n
        PROVE  f[i] = IF i = 1 THEN q[i] ELSE f[i - 1] \o q[i]
    <3>1. g[i] = IF i = 1 THEN q[1] ELSE g[i - 1] \o q[i]
      BY <1>1, <2>1 DEF Chain
    <3>2. f[i] = g[i] /\ (i # 1 => f[i - 1] = g[i - 1])
      BY <2>1
    <3> QED
      BY <3>1, <3>2
  <2> QED
    BY <2>1
<1>3. c[n] = FlattenSeq(q)
  BY FlattenDef
<1> HIDE DEF Fix
<1>4. Fix(c)
  BY <1>2, Zenon
<1> HIDE DEF c
<1>5. Chain(c, q, n)
  <2> SUFFICES ASSUME NEW i \in 1..n
               PROVE  c[i] = IF i = 1 THEN q[1] ELSE c[i - 1] \o q[i]
    BY DEF Chain
  <2> QED
    BY <1>4 DEF Fix
<1> QED
  BY <1>3, <1>5

(* and there is only one.                                                  *)
LEMMA ChainUnique ==
  ASSUME NEW p, NEW q, NEW g, NEW h, NEW n \in Nat \ {0},
         Agree(p, q, n), Chain(g, p, n), Chain(h, q, n)
  PROVE  Same(g, h, n)
<1> DEFINE Bad == {m \in 1..n : g[m] # h[m]}
<1>1. SUFFICES ASSUME Bad # {} PROVE FALSE
  BY <1>1 DEF Same
<1>2. PICK m \in Bad : \A l \in Bad : m <= l
  <2>1. Bad \in SUBSET Nat
    OBVIOUS
  <2> HIDE DEF Bad
  <2> QED
    BY <1>1, <2>1, Least
<1>3. m \in 1..n /\ g[m] # h[m]
  BY <1>2
<1>4. /\ g[m] = IF m = 1 THEN p[1] ELSE g[m - 1] \o p[m]
      /\ h[m] = IF m = 1 THEN q[1] ELSE h[m - 1] \o q[m]
  BY <1>3 DEF Chain
<1>5. p[m] = q[m]
  BY <1>3 DEF Agree, Same
<1>6. m # 1
  BY <1>3, <1>4, <1>5
<1>7. m - 1 \in 1..n /\ m - 1 \notin Bad
  BY <1>2, <1>3, <1>6
<1>8. g[m - 1] = h[m - 1]
  BY <1>7
<1> QED
  BY <1>3, <1>4, <1>5, <1>6, <1>8

(* The bytes of no slice,                                                  *)
LEMMA FlattenEmpty == FlattenSeq(<<>>) = <<>>
<1>1. Len(<<>>) = 0
  OBVIOUS
<1> QED
  BY <1>1, Zenon DEF FlattenSeq

(* and of one more.                                                        *)
LEMMA FlattenAppend ==
  ASSUME NEW S, NEW q \in Seq(Seq(S)), NEW b \in Seq(S),
         FlattenSeq(q) \in Seq(S)
  PROVE  /\ FlattenSeq(Append(q, b)) = FlattenSeq(q) \o b
         /\ FlattenSeq(Append(q, b)) \in Seq(S)
<1>0. PICK a, n : a = Append(q, b) /\ n = Len(q)
  OBVIOUS
<1>1. /\ Len(a) = n + 1 /\ n \in Nat /\ a[n + 1] = b
      /\ \A i \in 1..n : a[i] = q[i]
  BY <1>0
<1>2. PICK g : Chain(g, a, n + 1) /\ FlattenSeq(a) = g[n + 1]
  <2>1. Len(a) \in Nat \ {0}
    BY <1>1
  <2>2. PICK g : Chain(g, a, Len(a)) /\ FlattenSeq(a) = g[Len(a)]
    BY <2>1, FlattenChain, Zenon
  <2>3. Chain(g, a, n + 1) /\ FlattenSeq(a) = g[n + 1]
    BY <1>1, <2>2
  <2> QED
    BY <2>3
<1>3. CASE n = 0
  <2>1. q = <<>>
    <3>1. Len(q) = 0
      BY <1>0, <1>3
    <3> QED
      BY <3>1, EmptySeq
  <2>2. g[1] = a[1]
    BY <1>2, <1>3 DEF Chain
  <2>3. FlattenSeq(a) = b
    BY <1>1, <1>2, <1>3, <2>2
  <2> QED
    BY <1>0, <2>1, <2>3, FlattenEmpty, ConcatEmptySeq
<1>4. CASE n # 0
  <2>1. PICK h : Chain(h, q, n) /\ FlattenSeq(q) = h[n]
    BY <1>0, <1>1, <1>4, FlattenChain
  <2>2. Chain(g, a, n)
    BY <1>1, <1>2 DEF Chain
  <2>3. g[n] = h[n]
    <3>1. n \in Nat \ {0}
      BY <1>1, <1>4
    <3>2. Agree(a, q, n)
      BY <1>1 DEF Agree, Same
    <3>3. Chain(h, q, n)
      BY <2>1
    <3>4. Same(g, h, n)
      BY <2>2, <3>1, <3>2, <3>3, ChainUnique, Zenon
    <3> QED
      BY <3>4 DEF Same
  <2>4. g[n + 1] = g[n] \o a[n + 1]
    <3>1. n + 1 \in 1..(n + 1) /\ n + 1 # 1 /\ (n + 1) - 1 = n
      BY <1>1, <1>4
    <3> QED
      BY <1>2, <3>1 DEF Chain
  <2>5. FlattenSeq(a) = FlattenSeq(q) \o b
    BY <1>1, <1>2, <2>1, <2>3, <2>4
  <2> QED
    BY <1>0, <2>5, ConcatProperties
<1> QED
  BY <1>3, <1>4

-----------------------------------------------------------------------------
(* Induction up to n, for the numbers of a set.                            *)
LEMMA Climb ==
  ASSUME NEW n \in Nat, NEW G, 0 \in G,
         \A m \in 1..n : m - 1 \in G => m \in G
  PROVE  n \in G
<1> DEFINE Bad == {m \in 0..n : m \notin G}
<1>1. SUFFICES ASSUME Bad # {} PROVE FALSE
  BY <1>1
<1>2. PICK m \in Bad : \A l \in Bad : m <= l
  <2>1. Bad \in SUBSET Nat
    OBVIOUS
  <2> HIDE DEF Bad
  <2> QED
    BY <1>1, <2>1, Least
<1>3. m \in 1..n
  BY <1>2
<1>4. m - 1 \in 0..n /\ m - 1 \notin Bad
  BY <1>2, <1>3
<1> QED
  BY <1>2, <1>3, <1>4

Prefix(q, m) == SubSeq(q, 1, m)

(* A prefix grows by one element.                                          *)
LEMMA PrefixGrows ==
  ASSUME NEW T, NEW q \in Seq(T), NEW m \in 1..Len(q)
  PROVE  /\ Prefix(q, m - 1) \in Seq(T)
         /\ q[m] \in T
         /\ Prefix(q, m) = Append(Prefix(q, m - 1), q[m])
<1>1. /\ Prefix(q, m - 1) \in Seq(T) /\ Prefix(q, m) \in Seq(T) /\ q[m] \in T
      /\ Len(Prefix(q, m - 1)) = m - 1 /\ Len(Prefix(q, m)) = m
  BY DEF Prefix
<1>2. \A i \in 1..m : Prefix(q, m)[i] = Append(Prefix(q, m - 1), q[m])[i]
  BY DEF Prefix
<1>3. /\ Append(Prefix(q, m - 1), q[m]) \in Seq(T)
      /\ Len(Append(Prefix(q, m - 1), q[m])) = m
  BY <1>1, AppendProperties
<1> QED
  BY <1>1, <1>2, <1>3, SeqEqual

LEMMA PrefixEnds ==
  ASSUME NEW T, NEW q \in Seq(T)
  PROVE  /\ Prefix(q, 0) = <<>>
         /\ Prefix(q, Len(q)) = q
         /\ Len(q) \in Nat
  BY SubSeqFull, SubSeqEmpty DEF Prefix

(* The bytes of slices are bytes,                                          *)
LEMMA FlattenType ==
  ASSUME NEW S, NEW q \in Seq(Seq(S))
  PROVE  FlattenSeq(q) \in Seq(S)
<1> DEFINE G == {m \in 0..Len(q) : FlattenSeq(Prefix(q, m)) \in Seq(S)}
<1>1. 0 \in G
  <2>1. Prefix(q, 0) = <<>> /\ 0 \in 0..Len(q)
    BY PrefixEnds
  <2>2. FlattenSeq(Prefix(q, 0)) \in Seq(S)
    BY <2>1, FlattenEmpty, EmptySeq, Zenon
  <2> QED
    BY <2>1, <2>2
<1>2. ASSUME NEW m \in 1..Len(q), m - 1 \in G PROVE m \in G
  <2>1. FlattenSeq(Prefix(q, m - 1)) \in Seq(S)
    BY <1>2
  <2>2. FlattenSeq(Prefix(q, m)) \in Seq(S)
    <3>1. /\ Prefix(q, m - 1) \in Seq(Seq(S)) /\ q[m] \in Seq(S)
          /\ Prefix(q, m) = Append(Prefix(q, m - 1), q[m])
      BY PrefixGrows
    <3> QED
      BY <2>1, <3>1, FlattenAppend, Zenon
  <2> QED
    BY <2>2
<1> HIDE DEF G
<1>3. Len(q) \in G
  BY <1>1, <1>2, PrefixEnds, Climb
<1> QED
  BY <1>3, PrefixEnds DEF G

(* one more slice adds its bytes,                                          *)
LEMMA FlattenMore ==
  ASSUME NEW S, NEW q \in Seq(Seq(S)), NEW b \in Seq(S)
  PROVE  FlattenSeq(Append(q, b)) = FlattenSeq(q) \o b
  BY FlattenType, FlattenAppend

LEMMA FlattenOne ==
  ASSUME NEW S, NEW b \in Seq(S)
  PROVE  FlattenSeq(<<b>>) = b
<1>1. Append(<<>>, b) = <<b>> /\ <<>> \in Seq(Seq(S))
  OBVIOUS
<1>2. FlattenSeq(<<b>>) = <<>> \o b
  BY <1>1, FlattenMore, FlattenEmpty
<1> QED
  BY <1>2, ConcatEmptySeq

(* Concatenation, kept opaque so that the provers use its laws alone.      *)
Cat(a, b) == a \o b

(* It stays within T, is associative and has a neutral element.            *)
CatLaws(T) ==
  /\ \A a, b \in Seq(T) : Cat(a, b) \in Seq(T)
  /\ \A a, b, c \in Seq(T) : Cat(Cat(a, b), c) = Cat(a, Cat(b, c))
  /\ \A a \in Seq(T) : Cat(a, <<>>) = a /\ Cat(<<>>, a) = a
  /\ \A a \in Seq(T), e \in T : Append(a, e) = Cat(a, <<e>>)
  /\ \A e \in T : <<e>> \in Seq(T)
  /\ <<>> \in Seq(T)

LEMMA CatLawful ==
  ASSUME NEW T
  PROVE  CatLaws(T)
<1>1. ASSUME NEW a \in Seq(T), NEW b \in Seq(T)
      PROVE  a \o b \in Seq(T)
  BY ConcatProperties
<1>2. ASSUME NEW a \in Seq(T), NEW b \in Seq(T), NEW c \in Seq(T)
      PROVE  (a \o b) \o c = a \o (b \o c)
  BY ConcatAssociative
<1>3. ASSUME NEW a \in Seq(T)
      PROVE  a \o <<>> = a /\ <<>> \o a = a
  BY ConcatEmptySeq
<1>4. ASSUME NEW a \in Seq(T), NEW e \in T
      PROVE  Append(a, e) = a \o <<e>> /\ <<e>> \in Seq(T)
  BY AppendIsConcat
<1>5. \A a, b \in Seq(T) : Cat(a, b) \in Seq(T)
  BY <1>1 DEF Cat
<1>6. \A a, b, c \in Seq(T) : Cat(Cat(a, b), c) = Cat(a, Cat(b, c))
  BY <1>2 DEF Cat
<1>7. \A a \in Seq(T) : Cat(a, <<>>) = a /\ Cat(<<>>, a) = a
  BY <1>3 DEF Cat
<1>8. \A a \in Seq(T), e \in T : Append(a, e) = Cat(a, <<e>>)
  BY <1>4 DEF Cat
<1>9. (\A e \in T : <<e>> \in Seq(T)) /\ <<>> \in Seq(T)
  OBVIOUS
<1> QED
  BY <1>5, <1>6, <1>7, <1>8, <1>9 DEF CatLaws

(* The bytes of slices followed by slices are their bytes followed by      *)
(* theirs.                                                                 *)
LEMMA FlattenCat ==
  ASSUME NEW S, NEW p \in Seq(Seq(S)), NEW q \in Seq(Seq(S))
  PROVE  FlattenSeq(p \o q) = FlattenSeq(p) \o FlattenSeq(q)
<1> DEFINE G == {m \in 0..Len(q) : FlattenSeq(Cat(p, Prefix(q, m)))
                                     = Cat(FlattenSeq(p), FlattenSeq(Prefix(q, m)))}
<1>0. FlattenSeq(p) \in Seq(S)
  BY FlattenType, Zenon
<1>a. CatLaws(S) /\ CatLaws(Seq(S))
  BY CatLawful, Zenon
<1>b. \A a, b, c \in Seq(S) : Cat(Cat(a, b), c) = Cat(a, Cat(b, c))
  BY <1>a DEF CatLaws
<1>c. \A a, b, c \in Seq(Seq(S)) : Cat(Cat(a, b), c) = Cat(a, Cat(b, c))
  BY <1>a DEF CatLaws
<1>1. 0 \in G
  <2>1. Cat(p, <<>>) = p
    BY <1>a, Zenon DEF CatLaws
  <2>2. Cat(FlattenSeq(p), <<>>) = FlattenSeq(p)
    BY <1>a, <1>0, Zenon DEF CatLaws
  <2>3. Prefix(q, 0) = <<>> /\ 0 \in 0..Len(q)
    BY PrefixEnds
  <2> QED
    BY <2>1, <2>2, <2>3, FlattenEmpty
<1>2. ASSUME NEW m \in 1..Len(q), m - 1 \in G PROVE m \in G
  <2>1. PICK u, b : u = Prefix(q, m - 1) /\ b = q[m]
    OBVIOUS
  <2>2. u \in Seq(Seq(S)) /\ b \in Seq(S) /\ Prefix(q, m) = Append(u, b)
    BY <2>1, PrefixGrows
  <2>3. FlattenSeq(Cat(p, u)) = Cat(FlattenSeq(p), FlattenSeq(u))
    BY <1>2, <2>1
  <2>4. Cat(p, u) \in Seq(Seq(S))
    BY <1>a, <2>2, Zenon DEF CatLaws
  <2>5. Cat(p, Append(u, b)) = Append(Cat(p, u), b)
    <3>1. <<b>> \in Seq(Seq(S))
      BY <1>a, <2>2, Zenon DEF CatLaws
    <3>2. Append(u, b) = Cat(u, <<b>>)
      BY <1>a, <2>2, Zenon DEF CatLaws
    <3>3. Append(Cat(p, u), b) = Cat(Cat(p, u), <<b>>)
      BY <1>a, <2>2, <2>4, Zenon DEF CatLaws
    <3>4. Cat(Cat(p, u), <<b>>) = Cat(p, Cat(u, <<b>>))
      BY <1>c, <2>2, <3>1
    <3> QED
      BY <3>2, <3>3, <3>4, Zenon
  <2>6. \A s \in Seq(Seq(S)) : FlattenSeq(Append(s, b)) = Cat(FlattenSeq(s), b)
    BY <2>2, FlattenMore, Zenon DEF Cat
  <2>7. FlattenSeq(Cat(p, Append(u, b))) = Cat(Cat(FlattenSeq(p), FlattenSeq(u)), b)
    BY <2>3, <2>4, <2>5, <2>6, Zenon
  <2>8. FlattenSeq(u) \in Seq(S)
    BY <2>2, FlattenType, Zenon
  <2>9. Cat(Cat(FlattenSeq(p), FlattenSeq(u)), b) = Cat(FlattenSeq(p), Cat(FlattenSeq(u), b))
    BY <1>b, <1>0, <2>2, <2>8
  <2>10. FlattenSeq(Cat(p, Prefix(q, m))) = Cat(FlattenSeq(p), FlattenSeq(Prefix(q, m)))
    BY <2>2, <2>6, <2>7, <2>9, Zenon
  <2> QED
    BY <2>10
<1> HIDE DEF G
<1>3. Len(q) \in G
  BY <1>1, <1>2, PrefixEnds, Climb
<1>4. FlattenSeq(Cat(p, q)) = Cat(FlattenSeq(p), FlattenSeq(q))
  BY <1>3, PrefixEnds DEF G
<1> QED
  BY <1>4, Zenon DEF Cat

-----------------------------------------------------------------------------
(* Sequences cut in two.                                                   *)

LEMMA CatElements ==
  ASSUME NEW S, NEW x \in Seq(S), NEW y \in Seq(S)
  PROVE  /\ Cat(x, y) \in Seq(S)
         /\ Len(x) \in Nat /\ Len(y) \in Nat
         /\ Len(Cat(x, y)) = Len(x) + Len(y)
         /\ \A i \in 1..(Len(x) + Len(y)) :
              Cat(x, y)[i] = IF i <= Len(x) THEN x[i] ELSE y[i - Len(x)]
  BY ConcatProperties DEF Cat

LEMMA CutElements ==
  ASSUME NEW S, NEW x \in Seq(S), NEW n \in Nat
  PROVE  /\ n <= Len(x) => /\ Prefix(x, n) \in Seq(S)
                           /\ Len(Prefix(x, n)) = n
                           /\ \A i \in 1..n : Prefix(x, n)[i] = x[i]
                           /\ Len(After(x, n)) = Len(x) - n
                           /\ \A i \in 1..(Len(x) - n) : After(x, n)[i] = x[n + i]
         /\ After(x, n) \in Seq(S)
         /\ n >= Len(x) => After(x, n) = <<>>
<1>1. Len(x) \in Nat
  OBVIOUS
<1>2. \A i \in 1..Len(x) : x[i] \in S
  OBVIOUS
<1>3. ASSUME n <= Len(x)
      PROVE  /\ Prefix(x, n) \in Seq(S)
             /\ Len(Prefix(x, n)) = n
             /\ \A i \in 1..n : Prefix(x, n)[i] = x[i]
  <2>1. \A i \in 1..n : x[i] \in S
    BY <1>1, <1>2, <1>3
  <2> QED
    BY <2>1, <1>1, <1>3, SubSeqProperties DEF Prefix
<1>4. After(x, n) \in Seq(S)
  <2>1. \A i \in (n + 1)..Len(x) : x[i] \in S
    BY <1>1, <1>2
  <2> QED
    BY <2>1, <1>1, SubSeqProperties DEF After
<1>5. ASSUME n <= Len(x)
      PROVE  /\ Len(After(x, n)) = Len(x) - n
             /\ \A i \in 1..(Len(x) - n) : After(x, n)[i] = x[n + i]
  <2>1. \A i \in (n + 1)..Len(x) : x[i] \in S
    BY <1>1, <1>2
  <2> QED
    BY <2>1, <1>1, <1>5, SubSeqProperties DEF After
<1>6. n >= Len(x) => After(x, n) = <<>>
  BY <1>1, SubSeqEmpty DEF After
<1> QED
  BY <1>3, <1>4, <1>5, <1>6

(* The two parts make the whole.                                           *)
LEMMA CutJoins ==
  ASSUME NEW S, NEW x \in Seq(S), NEW n \in 0..Len(x)
  PROVE  Cat(Prefix(x, n), After(x, n)) = x
<1>1. Len(x) \in Nat /\ n \in Nat /\ n <= Len(x)
  OBVIOUS
<1>2. PICK p, a : p = Prefix(x, n) /\ a = After(x, n)
  OBVIOUS
<1>3. /\ p \in Seq(S) /\ a \in Seq(S) /\ Len(p) = n /\ Len(a) = Len(x) - n
      /\ \A i \in 1..n : p[i] = x[i]
      /\ \A i \in 1..(Len(x) - n) : a[i] = x[n + i]
  BY <1>1, <1>2, CutElements
<1>4. PICK c : c = Cat(p, a)
  OBVIOUS
<1>5. /\ c \in Seq(S) /\ Len(c) = Len(x)
      /\ \A i \in 1..Len(x) : c[i] = IF i <= n THEN p[i] ELSE a[i - n]
  <2>1. /\ c \in Seq(S) /\ Len(c) = Len(p) + Len(a)
        /\ \A i \in 1..(Len(p) + Len(a)) :
             c[i] = IF i <= Len(p) THEN p[i] ELSE a[i - Len(p)]
    BY <1>3, <1>4, CatElements
  <2>2. Len(p) = n /\ Len(p) + Len(a) = Len(x)
    BY <1>1, <1>3
  <2> QED
    BY <2>1, <2>2
<1>6. \A i \in 1..Len(c) : c[i] = x[i]
  BY <1>1, <1>3, <1>5
<1>7. c = x
  BY <1>5, <1>6, SeqEqual
<1> QED
  BY <1>2, <1>4, <1>7

(* What is left of two sequences when less, or more, than the first of     *)
(* them is gone.                                                           *)
LEMMA AfterCat ==
  ASSUME NEW S, NEW x \in Seq(S), NEW y \in Seq(S), NEW n \in Nat
  PROVE  /\ n <= Len(x) => After(Cat(x, y), n) = Cat(After(x, n), y)
         /\ n >= Len(x) => After(Cat(x, y), n) = After(y, n - Len(x))
<1>1. PICK c : c = Cat(x, y)
  OBVIOUS
<1>2. /\ c \in Seq(S) /\ Len(x) \in Nat /\ Len(y) \in Nat
      /\ Len(c) = Len(x) + Len(y)
      /\ \A i \in 1..(Len(x) + Len(y)) :
           c[i] = IF i <= Len(x) THEN x[i] ELSE y[i - Len(x)]
  BY <1>1, CatElements
<1>3. PICK d : d = After(c, n)
  OBVIOUS
<1>4. d \in Seq(S) /\ (n >= Len(c) => d = <<>>)
  BY <1>2, <1>3, CutElements
<1>5. n <= Len(c) => /\ Len(d) = Len(c) - n
                     /\ \A i \in 1..(Len(c) - n) : d[i] = c[n + i]
  BY <1>2, <1>3, CutElements
<1>6. ASSUME n <= Len(x) PROVE d = Cat(After(x, n), y)
  <2>1. PICK a : a = After(x, n)
    OBVIOUS
  <2>2. /\ a \in Seq(S) /\ Len(a) = Len(x) - n
        /\ \A i \in 1..(Len(x) - n) : a[i] = x[n + i]
    BY <1>6, <2>1, CutElements
  <2>3. PICK e : e = Cat(a, y)
    OBVIOUS
  <2>4. /\ e \in Seq(S) /\ Len(e) = Len(a) + Len(y)
        /\ \A i \in 1..(Len(a) + Len(y)) :
             e[i] = IF i <= Len(a) THEN a[i] ELSE y[i - Len(a)]
    BY <2>2, <2>3, CatElements
  <2>5. n <= Len(c) /\ Len(d) = Len(e)
    BY <1>2, <1>5, <1>6, <2>2, <2>4
  <2>6. ASSUME NEW i \in 1..Len(d) PROVE d[i] = e[i]
    <3>1. i \in 1..(Len(c) - n) /\ n + i \in 1..(Len(x) + Len(y)) /\ i \in 1..(Len(a) + Len(y))
      BY <1>2, <1>5, <2>2, <2>4, <2>5
    <3>2. d[i] = IF n + i <= Len(x) THEN x[n + i] ELSE y[n + i - Len(x)]
      BY <1>2, <1>5, <2>5, <3>1
    <3>3. e[i] = IF i <= Len(a) THEN a[i] ELSE y[i - Len(a)]
      BY <2>4, <3>1
    <3>4. i - Len(a) = n + i - Len(x) /\ (i <= Len(a) <=> n + i <= Len(x))
      BY <1>2, <2>2, <3>1
    <3>5. i <= Len(a) => a[i] = x[n + i]
      BY <1>2, <2>2, <3>1
    <3> QED
      BY <3>2, <3>3, <3>4, <3>5
  <2>7. d = e
    BY <1>4, <2>4, <2>5, <2>6, SeqEqual
  <2> QED
    BY <2>1, <2>3, <2>7
<1>7. ASSUME n >= Len(x) PROVE d = After(y, n - Len(x))
  <2>1. PICK k, e : k = n - Len(x) /\ e = After(y, k)
    OBVIOUS
  <2>2. k \in Nat
    BY <1>2, <1>7, <2>1
  <2>3. /\ e \in Seq(S) /\ (k >= Len(y) => e = <<>>)
        /\ k <= Len(y) => /\ Len(e) = Len(y) - k
                          /\ \A i \in 1..(Len(y) - k) : e[i] = y[k + i]
    BY <2>1, <2>2, CutElements
  <2>4. CASE k >= Len(y)
    BY <1>2, <1>4, <1>7, <2>1, <2>3, <2>4
  <2>5. CASE k <= Len(y)
    <3>1. n <= Len(c) /\ Len(d) = Len(e) /\ Len(d) = Len(y) - k
      BY <1>2, <1>5, <2>1, <2>3, <2>5
    <3>2. ASSUME NEW i \in 1..Len(d) PROVE d[i] = e[i]
      <4>1. /\ i \in 1..(Len(c) - n) /\ n + i \in 1..(Len(x) + Len(y))
            /\ i \in 1..(Len(y) - k) /\ ~(n + i <= Len(x)) /\ n + i - Len(x) = k + i
        BY <1>2, <1>7, <2>1, <2>5, <3>1
      <4>2. d[i] = y[n + i - Len(x)]
        BY <1>2, <1>5, <3>1, <4>1
      <4> QED
        BY <2>3, <2>5, <4>1, <4>2
    <3>3. d = e
      BY <1>4, <2>3, <3>1, <3>2, SeqEqual
    <3> QED
      BY <2>1, <3>3
  <2> QED
    BY <1>2, <2>2, <2>4, <2>5
<1> QED
  BY <1>1, <1>3, <1>6, <1>7

-----------------------------------------------------------------------------
(* A partial write of a call.                                              *)

(* The bytes of the first m slices.                                        *)
LEMMA FlattenGrows ==
  ASSUME NEW S, NEW q \in Seq(Seq(S)), NEW m \in 1..Len(q)
  PROVE  /\ FlattenSeq(Prefix(q, m - 1)) \in Seq(S)
         /\ q[m] \in Seq(S)
         /\ FlattenSeq(Prefix(q, m)) = Cat(FlattenSeq(Prefix(q, m - 1)), q[m])
<1>1. /\ Prefix(q, m - 1) \in Seq(Seq(S)) /\ q[m] \in Seq(S)
      /\ Prefix(q, m) = Append(Prefix(q, m - 1), q[m])
  BY PrefixGrows
<1>2. FlattenSeq(Prefix(q, m - 1)) \in Seq(S)
  BY <1>1, FlattenType, Zenon
<1>3. FlattenSeq(Append(Prefix(q, m - 1), q[m])) = Cat(FlattenSeq(Prefix(q, m - 1)), q[m])
  BY <1>1, FlattenMore, Zenon DEF Cat
<1> QED
  BY <1>1, <1>2, <1>3, Zenon

LEMMA AfterNothing ==
  ASSUME NEW S, NEW x \in Seq(S)
  PROVE  After(x, 0) = x
<1>1. Len(x) \in Nat
  OBVIOUS
<1> QED
  BY <1>1, SubSeqFull DEF After

(* How many of n bytes are left for slice i, and what is kept of it.       *)
Over(bufs, n, i) ==
  IF n > Size(bufs, i - 1) THEN n - Size(bufs, i - 1) ELSE 0

Kept(bufs, n, i) ==
  IF Over(bufs, n, i) < Len(bufs[i])
  THEN <<After(bufs[i], Over(bufs, n, i))>>
  ELSE <<>>

(* What is kept of a slice is what comes after the bytes it lost.          *)
LEMMA KeptBytes ==
  ASSUME NEW S, NEW bufs \in Seq(Seq(S)), NEW n \in Nat, NEW m \in 1..Len(bufs)
  PROVE  /\ Over(bufs, n, m) \in Nat
         /\ Kept(bufs, n, m) \in Seq(Seq(S))
         /\ FlattenSeq(Kept(bufs, n, m)) = After(bufs[m], Over(bufs, n, m))
<1>1. FlattenSeq(Prefix(bufs, m - 1)) \in Seq(S) /\ bufs[m] \in Seq(S)
  BY FlattenGrows
<1>2. Size(bufs, m - 1) \in Nat
  BY <1>1 DEF Size, Prefix
<1>3. PICK o : o = Over(bufs, n, m)
  OBVIOUS
<1>4. o \in Nat
  BY <1>2, <1>3 DEF Over
<1>5. PICK b : b = bufs[m]
  OBVIOUS
<1>6. b \in Seq(S) /\ Len(b) \in Nat
  BY <1>1, <1>5
<1>7. After(b, o) \in Seq(S) /\ (o >= Len(b) => After(b, o) = <<>>)
  BY <1>4, <1>6, CutElements
<1>8. Kept(bufs, n, m) = IF o < Len(b) THEN <<After(b, o)>> ELSE <<>>
  BY <1>3, <1>5 DEF Kept
<1>9. CASE o < Len(b)
  <2>1. Kept(bufs, n, m) = <<After(b, o)>>
    BY <1>8, <1>9
  <2>2. FlattenSeq(<<After(b, o)>>) = After(b, o)
    BY <1>7, FlattenOne, Zenon
  <2>3. <<After(b, o)>> \in Seq(Seq(S))
    BY <1>7
  <2> QED
    BY <1>3, <1>4, <1>5, <2>1, <2>2, <2>3
<1>10. CASE ~(o < Len(b))
  <2>1. Kept(bufs, n, m) = <<>> /\ After(b, o) = <<>>
    BY <1>4, <1>6, <1>7, <1>8, <1>10
  <2>2. <<>> \in Seq(Seq(S))
    OBVIOUS
  <2> QED
    BY <1>3, <1>4, <1>5, <2>1, <2>2, FlattenEmpty
<1> QED
  BY <1>9, <1>10

(* One more slice, whether the n bytes end before it or not.               *)
LEMMA AfterMore ==
  ASSUME NEW S, NEW bufs \in Seq(Seq(S)), NEW n \in Nat, NEW m \in 1..Len(bufs)
  PROVE  After(FlattenSeq(Prefix(bufs, m)), n)
           = Cat(After(FlattenSeq(Prefix(bufs, m - 1)), n),
                 After(bufs[m], Over(bufs, n, m)))
<1>1. PICK v, b, o : /\ v = FlattenSeq(Prefix(bufs, m - 1))
                     /\ b = bufs[m] /\ o = Over(bufs, n, m)
  OBVIOUS
<1>2. v \in Seq(S) /\ b \in Seq(S) /\ FlattenSeq(Prefix(bufs, m)) = Cat(v, b)
  BY <1>1, FlattenGrows
<1>3. o = IF n > Len(v) THEN n - Len(v) ELSE 0
  BY <1>1 DEF Over, Size, Prefix
<1>4. Len(v) \in Nat
  BY <1>2
<1>5. After(Cat(v, b), n) = Cat(After(v, n), After(b, o))
  <2>1. CASE n <= Len(v)
    <3>1. o = 0 /\ After(b, o) = b
      BY <1>2, <1>3, <1>4, <2>1, AfterNothing
    <3> QED
      BY <1>2, <2>1, <3>1, AfterCat
  <2>2. CASE n > Len(v)
    <3>1. o = n - Len(v) /\ o \in Nat
      BY <1>3, <1>4, <2>2
    <3>2. After(v, n) = <<>> /\ After(b, o) \in Seq(S)
      BY <1>2, <1>4, <2>2, <3>1, CutElements
    <3>3. After(Cat(v, b), n) = After(b, o)
      BY <1>2, <1>4, <2>2, <3>1, AfterCat
    <3>4. CatLaws(S)
      BY CatLawful, Zenon
    <3>5. Cat(<<>>, After(b, o)) = After(b, o)
      BY <3>2, <3>4, Zenon DEF CatLaws
    <3> QED
      BY <3>2, <3>3, <3>5
  <2> QED
    BY <1>4, <2>1, <2>2
<1> QED
  BY <1>1, <1>2, <1>5

(* What Remaining keeps is what comes after the bytes the socket took.     *)
LEMMA RemainingBytes ==
  ASSUME NEW S, NEW bufs \in Seq(Seq(S)), NEW n \in Nat
  PROVE  /\ Remaining(bufs, n) \in Seq(Seq(S))
         /\ FlattenSeq(Remaining(bufs, n)) = After(FlattenSeq(bufs), n)
<1>1. PICK K : K = [i \in 1..Len(bufs) |-> Kept(bufs, n, i)]
  OBVIOUS
<1>2. Len(bufs) \in Nat
  OBVIOUS
<1>3. Remaining(bufs, n) = FlattenSeq(K)
  BY <1>1 DEF Remaining, Kept, Over
<1>4. \A i \in 1..Len(bufs) : K[i] = Kept(bufs, n, i) /\ K[i] \in Seq(Seq(S))
  BY <1>1, KeptBytes
<1>5. K \in Seq(Seq(Seq(S))) /\ Len(K) = Len(bufs)
  BY <1>1, <1>2, <1>4
<1> DEFINE G == {m \in 0..Len(bufs) :
                   FlattenSeq(FlattenSeq(Prefix(K, m)))
                     = After(FlattenSeq(Prefix(bufs, m)), n)}
<1>6. 0 \in G
  <2>1. Prefix(K, 0) = <<>> /\ Prefix(bufs, 0) = <<>>
    BY <1>5, PrefixEnds
  <2>2. After(<<>>, n) = <<>>
    <3>1. n + 1 \in Int /\ 0 < n + 1 /\ Len(<<>>) = 0
      OBVIOUS
    <3>2. SubSeq(<<>>, n + 1, 0) = <<>>
      BY <3>1, SubSeqEmpty
    <3> QED
      BY <3>1, <3>2 DEF After
  <2> QED
    BY <1>2, <2>1, <2>2, FlattenEmpty
<1>7. ASSUME NEW m \in 1..Len(bufs), m - 1 \in G PROVE m \in G
  <2>1. PICK r, k : r = FlattenSeq(Prefix(K, m - 1)) /\ k = K[m]
    OBVIOUS
  <2>2. m \in 1..Len(K)
    BY <1>5
  <2>3. r \in Seq(Seq(S)) /\ k \in Seq(Seq(S)) /\ FlattenSeq(Prefix(K, m)) = Cat(r, k)
    BY <1>5, <2>1, <2>2, FlattenGrows
  <2>4. FlattenSeq(r) = After(FlattenSeq(Prefix(bufs, m - 1)), n)
    BY <1>7, <2>1
  <2>5. FlattenSeq(Cat(r, k)) = Cat(FlattenSeq(r), FlattenSeq(k))
    BY <2>3, FlattenCat, Zenon DEF Cat
  <2>6. FlattenSeq(k) = After(bufs[m], Over(bufs, n, m))
    BY <1>4, <2>1, KeptBytes
  <2>7. After(FlattenSeq(Prefix(bufs, m)), n)
          = Cat(After(FlattenSeq(Prefix(bufs, m - 1)), n),
                After(bufs[m], Over(bufs, n, m)))
    BY AfterMore
  <2>8. FlattenSeq(FlattenSeq(Prefix(K, m))) = After(FlattenSeq(Prefix(bufs, m)), n)
    BY <2>3, <2>4, <2>5, <2>6, <2>7, Zenon
  <2> QED
    BY <2>8
<1> HIDE DEF G
<1>8. Len(bufs) \in G
  BY <1>2, <1>6, <1>7, Climb
<1>9. Prefix(K, Len(bufs)) = K /\ Prefix(bufs, Len(bufs)) = bufs
  BY <1>5, PrefixEnds
<1>10. FlattenSeq(FlattenSeq(K)) = After(FlattenSeq(bufs), n)
  BY <1>8, <1>9 DEF G
<1>11. FlattenSeq(K) \in Seq(Seq(S))
  BY <1>5, FlattenType, Zenon
<1> QED
  BY <1>3, <1>10, <1>11

-----------------------------------------------------------------------------
(* The slices of a call.                                                   *)

(* The bytes after the first a, up to the z-th.                            *)
Run(a, z) == [i \in 1..(z - a) |-> a + i]

LEMMA RunElements ==
  ASSUME NEW a \in Nat, NEW z \in Nat, a <= z
  PROVE  /\ Run(a, z) \in Seq(Nat)
         /\ Run(a, z) \in Seq(1..z)
         /\ Len(Run(a, z)) = z - a
         /\ \A i \in 1..(z - a) : Run(a, z)[i] = a + i
<1>1. z - a \in Nat
  OBVIOUS
<1>2. \A i \in 1..(z - a) : a + i \in Nat /\ a + i \in 1..z
  OBVIOUS
<1> QED
  BY <1>1, <1>2 DEF Run

LEMMA RunJoins ==
  ASSUME NEW a \in Nat, NEW y \in Nat, NEW z \in Nat, a <= y, y <= z
  PROVE  Cat(Run(a, y), Run(y, z)) = Run(a, z)
<1>1. PICK p, q, r, c : /\ p = Run(a, y) /\ q = Run(y, z) /\ r = Run(a, z)
                        /\ c = Cat(p, q)
  OBVIOUS
<1>2. /\ p \in Seq(Nat) /\ q \in Seq(Nat) /\ r \in Seq(Nat)
      /\ Len(p) = y - a /\ Len(q) = z - y /\ Len(r) = z - a
  <2>1. p \in Seq(Nat) /\ Len(p) = y - a
    BY <1>1, RunElements
  <2>2. q \in Seq(Nat) /\ Len(q) = z - y
    BY <1>1, RunElements
  <2>3. a <= z
    OBVIOUS
  <2>4. r \in Seq(Nat) /\ Len(r) = z - a
    BY <1>1, <2>3, RunElements
  <2> QED
    BY <2>1, <2>2, <2>4
<1>3. \A i \in 1..(y - a) : p[i] = a + i
  BY <1>1 DEF Run
<1>4. \A i \in 1..(z - y) : q[i] = y + i
  BY <1>1 DEF Run
<1>5. \A i \in 1..(z - a) : r[i] = a + i
  BY <1>1 DEF Run
<1>6. /\ c \in Seq(Nat) /\ Len(c) = Len(p) + Len(q)
      /\ \A i \in 1..(Len(p) + Len(q)) :
           c[i] = IF i <= Len(p) THEN p[i] ELSE q[i - Len(p)]
  BY <1>1, <1>2, CatElements
<1>7. Len(c) = Len(r) /\ Len(c) = z - a
  BY <1>2, <1>6
<1>8. ASSUME NEW i \in 1..Len(c) PROVE c[i] = r[i]
  <2>1. i \in 1..(z - a) /\ i \in 1..(Len(p) + Len(q))
    BY <1>6, <1>7
  <2>2. c[i] = IF i <= y - a THEN p[i] ELSE q[i - (y - a)]
    BY <1>2, <1>6, <2>1
  <2>3. CASE i <= y - a
    BY <1>3, <1>5, <2>1, <2>2, <2>3
  <2>4. CASE ~(i <= y - a)
    <3>1. i - (y - a) \in 1..(z - y) /\ y + (i - (y - a)) = a + i
      BY <2>1, <2>4
    <3> QED
      BY <1>4, <1>5, <2>1, <2>2, <2>4, <3>1
  <2> QED
    BY <2>3, <2>4
<1>9. c = r
  BY <1>2, <1>6, <1>7, <1>8, SeqEqual
<1> QED
  BY <1>1, <1>9

(* Where the slices of a call end: there are such numbers, for the lengths *)
(* of the first i slices add up.                                           *)
EndsAt(end, lens) ==
  end = [i \in 0..Len(lens) |-> IF i = 0 THEN taken ELSE end[i - 1] + lens[i]]

LEMMA EndsExist ==
  ASSUME NEW lens \in Seq(Nat), taken \in Nat
  PROVE  \E end : EndsAt(end, lens)
<1>1. PICK D : D = [i \in 1..Len(lens) |-> [b \in 1..lens[i] |-> 0]]
  OBVIOUS
<1>2. Len(lens) \in Nat /\ \A i \in 1..Len(lens) : lens[i] \in Nat
  OBVIOUS
<1>3. \A i \in 1..Len(lens) : D[i] \in Seq(Nat) /\ Len(D[i]) = lens[i]
  <2>1. SUFFICES ASSUME NEW i \in 1..Len(lens)
                 PROVE  D[i] \in Seq(Nat) /\ Len(D[i]) = lens[i]
    OBVIOUS
  <2>2. D[i] = [b \in 1..lens[i] |-> 0] /\ lens[i] \in Nat
    BY <1>1
  <2> QED
    BY <2>2
<1>4. D \in Seq(Seq(Nat)) /\ Len(D) = Len(lens)
  BY <1>1, <1>2, <1>3
<1>5. PICK f : f = [i \in 0..Len(lens) |-> taken + Len(FlattenSeq(Prefix(D, i)))]
  OBVIOUS
<1>6. f[0] = taken
  <2>1. Prefix(D, 0) = <<>>
    BY <1>4, PrefixEnds
  <2>2. FlattenSeq(Prefix(D, 0)) = <<>>
    BY <2>1, FlattenEmpty, Zenon
  <2> QED
    BY <1>2, <1>5, <2>2
<1>7. ASSUME NEW i \in 1..Len(lens) PROVE f[i] = f[i - 1] + lens[i]
  <2>1. i \in 1..Len(D)
    BY <1>4
  <2>2. PICK v, b : v = FlattenSeq(Prefix(D, i - 1)) /\ b = D[i]
    OBVIOUS
  <2>3. v \in Seq(Nat) /\ b \in Seq(Nat) /\ FlattenSeq(Prefix(D, i)) = Cat(v, b)
    BY <1>4, <2>1, <2>2, FlattenGrows
  <2>4. Len(Cat(v, b)) = Len(v) + Len(b) /\ Len(v) \in Nat /\ Len(b) \in Nat
    BY <2>3, CatElements
  <2>5. f[i] = taken + Len(Cat(v, b)) /\ f[i - 1] = taken + Len(v)
    BY <1>2, <1>5, <2>2, <2>3
  <2>6. Len(b) = lens[i]
    BY <1>3, <2>2
  <2> QED
    BY <2>4, <2>5, <2>6
<1>8. \A i \in 0..Len(lens) : f[i] = IF i = 0 THEN taken ELSE f[i - 1] + lens[i]
  BY <1>2, <1>6, <1>7
<1>9. f = [i \in 0..Len(lens) |-> f[i]]
  BY <1>5
<1>10. EndsAt(f, lens)
  BY <1>8, <1>9 DEF EndsAt
<1> QED
  BY <1>10

(* A call's slices hold the next bytes, in order.                          *)
LEMMA SlicesBytes ==
  ASSUME NEW lens \in Seq(Nat), taken \in Nat
  PROVE  /\ Slices(lens) \in Seq(Seq(Nat))
         /\ \E z \in Nat : taken <= z /\ FlattenSeq(Slices(lens)) = Run(taken, z)
<1> DEFINE c == CHOOSE end : EndsAt(end, lens)
<1>1. EndsAt(c, lens)
  BY EndsExist, Zenon
<1>2. Slices(lens) = [i \in 1..Len(lens) |-> [b \in 1..lens[i] |-> c[i - 1] + b]]
  BY Zenon DEF Slices, EndsAt
<1> HIDE DEF c
<1>3. Len(lens) \in Nat /\ \A i \in 1..Len(lens) : lens[i] \in Nat
  OBVIOUS
<1>4. c[0] = taken /\ \A i \in 1..Len(lens) : c[i] = c[i - 1] + lens[i]
  BY <1>1, <1>3 DEF EndsAt
<1>5. ASSUME NEW m \in 0..Len(lens) PROVE c[m] \in Nat /\ taken <= c[m]
  <2> DEFINE G == {i \in 0..Len(lens) : c[i] \in Nat /\ taken <= c[i]}
  <2>1. 0 \in G
    BY <1>3, <1>4
  <2>2. ASSUME NEW i \in 1..m, i - 1 \in G PROVE i \in G
    <3>1. c[i - 1] \in Nat /\ taken <= c[i - 1]
      BY <2>2
    <3>2. i \in 1..Len(lens)
      BY <1>3
    <3>3. c[i] = c[i - 1] + lens[i] /\ lens[i] \in Nat
      BY <1>3, <1>4, <3>2
    <3>4. c[i] \in Nat /\ taken <= c[i]
      BY <3>1, <3>3
    <3> QED
      BY <3>2, <3>4
  <2>3. m \in Nat
    BY <1>3
  <2> HIDE DEF G
  <2>4. m \in G
    BY <2>1, <2>2, <2>3, Climb
  <2> QED
    BY <2>4 DEF G
<1>6. PICK bufs : bufs = Slices(lens)
  OBVIOUS
<1>7. ASSUME NEW i \in 1..Len(lens)
      PROVE  bufs[i] = Run(c[i - 1], c[i]) /\ bufs[i] \in Seq(Nat) /\ c[i - 1] <= c[i]
  <2>1. c[i - 1] \in Nat /\ c[i] \in Nat /\ c[i] = c[i - 1] + lens[i]
    BY <1>3, <1>4, <1>5
  <2>2. c[i] - c[i - 1] = lens[i] /\ c[i - 1] <= c[i]
    BY <1>3, <2>1
  <2>3. bufs[i] = [b \in 1..lens[i] |-> c[i - 1] + b]
    BY <1>2, <1>6
  <2>4. bufs[i] = Run(c[i - 1], c[i])
    BY <2>2, <2>3 DEF Run
  <2> QED
    BY <2>1, <2>2, <2>4, RunElements
<1>8. bufs \in Seq(Seq(Nat)) /\ Len(bufs) = Len(lens)
  BY <1>2, <1>3, <1>6, <1>7
<1> DEFINE H == {m \in 0..Len(lens) : FlattenSeq(Prefix(bufs, m)) = Run(taken, c[m])}
<1>9. 0 \in H
  <2>1. Prefix(bufs, 0) = <<>>
    BY <1>8, PrefixEnds
  <2>2. Run(taken, c[0]) = <<>>
    BY <1>4 DEF Run
  <2> QED
    BY <1>3, <2>1, <2>2, FlattenEmpty
<1>10. ASSUME NEW m \in 1..Len(lens), m - 1 \in H PROVE m \in H
  <2>1. FlattenSeq(Prefix(bufs, m - 1)) = Run(taken, c[m - 1])
    BY <1>10
  <2>2. FlattenSeq(Prefix(bufs, m)) = Cat(FlattenSeq(Prefix(bufs, m - 1)), bufs[m])
    BY <1>8, FlattenGrows
  <2>3. c[m - 1] \in Nat /\ taken <= c[m - 1] /\ c[m] \in Nat /\ c[m - 1] <= c[m]
    BY <1>3, <1>5, <1>7
  <2>4. Cat(Run(taken, c[m - 1]), Run(c[m - 1], c[m])) = Run(taken, c[m])
    BY <2>3, RunJoins
  <2>5. FlattenSeq(Prefix(bufs, m)) = Run(taken, c[m])
    BY <1>7, <2>1, <2>2, <2>4, Zenon
  <2> QED
    BY <2>5
<1> HIDE DEF H
<1>11. Len(lens) \in H
  BY <1>3, <1>9, <1>10, Climb
<1>12. FlattenSeq(bufs) = Run(taken, c[Len(lens)])
  <2>1. Prefix(bufs, Len(lens)) = bufs
    BY <1>8, PrefixEnds
  <2> QED
    BY <1>11, <2>1 DEF H
<1>13. c[Len(lens)] \in Nat /\ taken <= c[Len(lens)]
  BY <1>3, <1>5
<1> QED
  BY <1>6, <1>8, <1>12, <1>13

-----------------------------------------------------------------------------
(* A partial write of a loop.                                              *)

(* A short prefix of two sequences is one of the first.                    *)
LEMMA PrefixCat ==
  ASSUME NEW S, NEW x \in Seq(S), NEW y \in Seq(S), NEW n \in 0..Len(x)
  PROVE  Prefix(Cat(x, y), n) = Prefix(x, n)
<1>1. PICK c, d, e : c = Cat(x, y) /\ d = Prefix(c, n) /\ e = Prefix(x, n)
  OBVIOUS
<1>2. /\ c \in Seq(S) /\ Len(x) \in Nat /\ Len(y) \in Nat
      /\ Len(c) = Len(x) + Len(y)
      /\ \A i \in 1..(Len(x) + Len(y)) :
           c[i] = IF i <= Len(x) THEN x[i] ELSE y[i - Len(x)]
  BY <1>1, CatElements
<1>3. n \in Nat /\ n <= Len(x) /\ n <= Len(c)
  BY <1>2
<1>4. d \in Seq(S) /\ Len(d) = n /\ \A i \in 1..n : d[i] = c[i]
  BY <1>1, <1>2, <1>3, CutElements
<1>5. e \in Seq(S) /\ Len(e) = n /\ \A i \in 1..n : e[i] = x[i]
  BY <1>1, <1>3, CutElements
<1>6. \A i \in 1..n : c[i] = x[i]
  BY <1>2, <1>3
<1>7. d = e
  <2>1. \A i \in 1..Len(d) : d[i] = e[i]
    BY <1>4, <1>5, <1>6
  <2> QED
    BY <1>4, <1>5, <2>1, SeqEqual
<1> QED
  BY <1>1, <1>7

(* A sequence whose elements are in S is one of S.                         *)
LEMMA Retyped ==
  ASSUME NEW S, NEW T, NEW x \in Seq(T), \A i \in 1..Len(x) : x[i] \in S
  PROVE  x \in Seq(S)
<1>1. PICK n \in Nat : n = Len(x)
  OBVIOUS
<1>2. x \in [1..n -> T]
  BY <1>1, LenProperties
<1>3. x \in [1..n -> S]
  BY <1>1, <1>2
<1> QED
  BY <1>1, <1>3, SeqDef

(* The parts of a sequence of S are sequences of S.                        *)
LEMMA CatParts ==
  ASSUME NEW S, NEW T, NEW x \in Seq(T), NEW y \in Seq(T), Cat(x, y) \in Seq(S)
  PROVE  x \in Seq(S) /\ y \in Seq(S)
<1>1. PICK c : c = Cat(x, y)
  OBVIOUS
<1>2. /\ c \in Seq(S) /\ Len(x) \in Nat /\ Len(y) \in Nat
      /\ Len(c) = Len(x) + Len(y)
      /\ \A i \in 1..(Len(x) + Len(y)) :
           c[i] = IF i <= Len(x) THEN x[i] ELSE y[i - Len(x)]
  BY <1>1, CatElements
<1>3. \A i \in 1..(Len(x) + Len(y)) : c[i] \in S
  <2>1. \A i \in 1..Len(c) : c[i] \in S
    BY <1>2
  <2> QED
    BY <1>2, <2>1
<1>4. \A i \in 1..Len(x) : x[i] \in S
  BY <1>2, <1>3
<1>5. ASSUME NEW i \in 1..Len(y) PROVE y[i] \in S
  <2>1. /\ Len(x) + i \in 1..(Len(x) + Len(y)) /\ ~(Len(x) + i <= Len(x))
        /\ Len(x) + i - Len(x) = i
    BY <1>2
  <2>2. Cat(x, y)[Len(x) + i] \in S
    BY <1>1, <1>3, <2>1
  <2>3. Cat(x, y)[Len(x) + i] = y[Len(x) + i - Len(x)]
    BY <1>1, <1>2, <2>1
  <2> QED
    BY <2>1, <2>2, <2>3
<1> QED
  BY <1>2, <1>4, <1>5, Retyped

(* The bytes of slices are those of the first m and those of the others.   *)
LEMMA FlattenSplit ==
  ASSUME NEW S, NEW q \in Seq(Seq(S)), NEW m \in 0..Len(q)
  PROVE  /\ Prefix(q, m) \in Seq(Seq(S)) /\ After(q, m) \in Seq(Seq(S))
         /\ FlattenSeq(Prefix(q, m)) \in Seq(S) /\ FlattenSeq(After(q, m)) \in Seq(S)
         /\ FlattenSeq(q) = Cat(FlattenSeq(Prefix(q, m)), FlattenSeq(After(q, m)))
<1>1. m \in Nat /\ m <= Len(q)
  OBVIOUS
<1>2. Prefix(q, m) \in Seq(Seq(S)) /\ After(q, m) \in Seq(Seq(S))
  BY <1>1, CutElements
<1>3. Cat(Prefix(q, m), After(q, m)) = q
  BY CutJoins
<1>4. FlattenSeq(Cat(Prefix(q, m), After(q, m)))
        = Cat(FlattenSeq(Prefix(q, m)), FlattenSeq(After(q, m)))
  BY <1>2, FlattenCat, Zenon DEF Cat
<1>5. FlattenSeq(Prefix(q, m)) \in Seq(S) /\ FlattenSeq(After(q, m)) \in Seq(S)
  BY <1>2, FlattenType, Zenon
<1> QED
  BY <1>2, <1>3, <1>4, <1>5, Zenon

(* Slices of T whose bytes are in S are slices of S.                       *)
LEMMA FlattenElements ==
  ASSUME NEW S, NEW T, NEW q \in Seq(Seq(T)), FlattenSeq(q) \in Seq(S)
  PROVE  q \in Seq(Seq(S))
<1>1. ASSUME NEW i \in 1..Len(q) PROVE q[i] \in Seq(S)
  <2>1. i \in 0..Len(q)
    OBVIOUS
  <2>2. PICK v, b, r : /\ v = FlattenSeq(Prefix(q, i - 1)) /\ b = q[i]
                       /\ r = FlattenSeq(After(q, i))
    OBVIOUS
  <2>3. v \in Seq(T) /\ b \in Seq(T) /\ FlattenSeq(Prefix(q, i)) = Cat(v, b)
    BY <2>2, FlattenGrows
  <2>4. Cat(v, b) \in Seq(T)
    BY <2>3, CatElements
  <2>5. r \in Seq(T) /\ FlattenSeq(q) = Cat(Cat(v, b), r)
    BY <2>1, <2>2, <2>3, FlattenSplit
  <2>6. Cat(v, b) \in Seq(S)
    BY <2>4, <2>5, CatParts
  <2>7. b \in Seq(S)
    BY <2>3, <2>6, CatParts
  <2> QED
    BY <2>2, <2>7
<1> QED
  BY <1>1, Retyped

(* What a write of n offered bytes puts on the wire are the next n bytes.  *)
LEMMA OfferedBytes ==
  ASSUME NEW S, out \in Seq(Seq(S)), IoMax \in Nat, NEW n \in 1..Len(Offered)
  PROVE  /\ n \in 1..Len(FlattenSeq(out))
         /\ SubSeq(Offered, 1, n) = Prefix(FlattenSeq(out), n)
<1>1. PICK k : k = IF Len(out) < IoMax THEN Len(out) ELSE IoMax
  OBVIOUS
<1>2. Len(out) \in Nat
  OBVIOUS
<1>3. k \in 0..Len(out)
  BY <1>1, <1>2
<1>4. PICK x, y : x = FlattenSeq(Prefix(out, k)) /\ y = FlattenSeq(After(out, k))
  OBVIOUS
<1>5. Offered = x
  BY <1>1, <1>4 DEF Offered, Prefix
<1>6. x \in Seq(S) /\ y \in Seq(S) /\ FlattenSeq(out) = Cat(x, y)
  BY <1>3, <1>4, FlattenSplit
<1>7. Len(Cat(x, y)) = Len(x) + Len(y) /\ Len(x) \in Nat /\ Len(y) \in Nat
  BY <1>6, CatElements
<1>8. n \in 0..Len(x) /\ n \in 1..(Len(x) + Len(y))
  BY <1>5, <1>7
<1>9. Prefix(Cat(x, y), n) = Prefix(x, n)
  BY <1>6, <1>8, PrefixCat
<1> QED
  BY <1>5, <1>6, <1>7, <1>8, <1>9 DEF Prefix

(* The chunk in which the n-th byte lies.                                  *)
HoldsByte(n, i) == Size(out, i) >= n /\ \A h \in 1..(i - 1) : Size(out, h) < n

LEMMA HolderExists ==
  ASSUME NEW S, out \in Seq(Seq(S)), NEW n \in 1..Len(FlattenSeq(out))
  PROVE  \E i \in DOMAIN out : HoldsByte(n, i)
<1>1. Len(out) \in Nat /\ DOMAIN out = 1..Len(out)
  OBVIOUS
<1>2. FlattenSeq(out) \in Seq(S)
  BY FlattenType, Zenon
<1>3. n \in Nat /\ n >= 1 /\ n <= Len(FlattenSeq(out)) /\ Len(FlattenSeq(out)) \in Nat
  BY <1>2
<1>4. Size(out, Len(out)) >= n
  <2>1. Prefix(out, Len(out)) = out
    BY PrefixEnds
  <2> QED
    BY <1>3, <2>1 DEF Size, Prefix
<1>5. Len(out) # 0
  <2>1. ASSUME Len(out) = 0 PROVE FALSE
    <3>1. out = <<>>
      BY <2>1, EmptySeq
    <3>2. FlattenSeq(out) = <<>>
      BY <3>1, FlattenEmpty, Zenon
    <3> QED
      BY <1>3, <3>2
  <2> QED
    BY <2>1
<1>6. \A i \in 0..Len(out) : Size(out, i) \in Nat
  <2>1. SUFFICES ASSUME NEW i \in 0..Len(out) PROVE Size(out, i) \in Nat
    OBVIOUS
  <2>2. FlattenSeq(Prefix(out, i)) \in Seq(S)
    BY FlattenSplit
  <2> QED
    BY <2>2 DEF Size, Prefix
<1> DEFINE L == {i \in 1..Len(out) : Size(out, i) >= n}
<1>7. L \in SUBSET Nat /\ Len(out) \in L
  BY <1>1, <1>4, <1>5
<1>8. PICK j \in L : \A i \in L : j <= i
  <2> HIDE DEF L
  <2> QED
    BY <1>7, Least
<1>9. j \in 1..Len(out) /\ Size(out, j) >= n
  BY <1>8
<1>10. ASSUME NEW h \in 1..(j - 1) PROVE Size(out, h) < n
  <2>1. h \in 1..Len(out) /\ h \in 0..Len(out) /\ h < j
    BY <1>1, <1>9
  <2>2. h \notin L
    BY <1>8, <1>9, <2>1
  <2> QED
    BY <1>3, <1>6, <2>1, <2>2
<1> QED
  BY <1>1, <1>9, <1>10 DEF HoldsByte

(* Pop and advance leave what comes after the n bytes the socket took.     *)
LEMMA AdvancedBytes ==
  ASSUME NEW S, out \in Seq(Seq(S)), NEW n \in 1..Len(FlattenSeq(out))
  PROVE  /\ Advanced(n) \in Seq(Seq(S))
         /\ FlattenSeq(Advanced(n)) = After(FlattenSeq(out), n)
<1> DEFINE j == CHOOSE i \in DOMAIN out : HoldsByte(n, i)
<1>1. j \in DOMAIN out /\ HoldsByte(n, j)
  BY HolderExists, Zenon
<1>2. Advanced(n) = (IF Size(out, j) = n THEN <<>>
                     ELSE <<After(out[j], n - Size(out, j - 1))>>) \o After(out, j)
  BY Zenon DEF Advanced, HoldsByte
<1> HIDE DEF j
<1>3. j \in 1..Len(out) /\ j \in 0..Len(out) /\ Len(out) \in Nat
  BY <1>1
<1>4. PICK v, b, t : v = FlattenSeq(Prefix(out, j - 1)) /\ b = out[j] /\ t = After(out, j)
  OBVIOUS
<1>5. v \in Seq(S) /\ b \in Seq(S) /\ FlattenSeq(Prefix(out, j)) = Cat(v, b)
  BY <1>3, <1>4, FlattenGrows
<1>6. /\ t \in Seq(Seq(S)) /\ FlattenSeq(t) \in Seq(S)
      /\ FlattenSeq(out) = Cat(Cat(v, b), FlattenSeq(t))
  BY <1>3, <1>4, <1>5, FlattenSplit
<1>7. /\ Cat(v, b) \in Seq(S) /\ Len(Cat(v, b)) = Len(v) + Len(b)
      /\ Len(v) \in Nat /\ Len(b) \in Nat
  BY <1>5, CatElements
<1>8. n \in Nat /\ n >= 1
  <2>1. FlattenSeq(out) \in Seq(S)
    BY FlattenType, Zenon
  <2> QED
    BY <2>1
<1>9. Size(out, j) = Len(v) + Len(b) /\ Size(out, j - 1) = Len(v)
  BY <1>4, <1>5, <1>7 DEF Size, Prefix
<1>10. Len(v) + Len(b) >= n /\ Len(v) < n
  <2>1. Len(v) + Len(b) >= n
    BY <1>1, <1>9 DEF HoldsByte
  <2>2. CASE j = 1
    <3>1. Prefix(out, j - 1) = <<>>
      BY <2>2, PrefixEnds
    <3>2. v = <<>>
      BY <1>4, <3>1, FlattenEmpty, Zenon
    <3> QED
      BY <1>8, <2>1, <3>2
  <2>3. CASE j # 1
    <3>1. j - 1 \in 1..(j - 1)
      BY <1>3, <2>3
    <3> QED
      BY <1>1, <1>9, <2>1, <3>1 DEF HoldsByte
  <2> QED
    BY <2>2, <2>3
<1>11. PICK o : o = n - Len(v)
  OBVIOUS
<1>12. o \in Nat /\ o <= Len(b) /\ (Size(out, j) = n <=> o = Len(b))
  BY <1>7, <1>8, <1>9, <1>10, <1>11
<1>13. After(b, o) \in Seq(S) /\ (o = Len(b) => After(b, o) = <<>>)
  BY <1>5, <1>7, <1>12, CutElements
<1>14. After(FlattenSeq(out), n) = Cat(After(b, o), FlattenSeq(t))
  <2>1. After(Cat(Cat(v, b), FlattenSeq(t)), n) = Cat(After(Cat(v, b), n), FlattenSeq(t))
    BY <1>6, <1>7, <1>8, <1>10, AfterCat
  <2>2. After(Cat(v, b), n) = After(b, o)
    BY <1>5, <1>7, <1>8, <1>10, <1>11, AfterCat
  <2> QED
    BY <1>6, <2>1, <2>2
<1>15. PICK h : h = IF o = Len(b) THEN <<>> ELSE <<After(b, o)>>
  OBVIOUS
<1>16. Advanced(n) = Cat(h, t)
  BY <1>2, <1>4, <1>9, <1>11, <1>12, <1>15 DEF Cat
<1>17. h \in Seq(Seq(S)) /\ FlattenSeq(h) = After(b, o)
  <2>1. CASE o = Len(b)
    BY <1>13, <1>15, <2>1, FlattenEmpty
  <2>2. CASE o # Len(b)
    <3>1. h = <<After(b, o)>>
      BY <1>15, <2>2
    <3>2. FlattenSeq(<<After(b, o)>>) = After(b, o)
      BY <1>13, FlattenOne, Zenon
    <3>3. <<After(b, o)>> \in Seq(Seq(S))
      BY <1>13
    <3> QED
      BY <3>1, <3>2, <3>3
  <2> QED
    BY <2>1, <2>2
<1>18. Cat(h, t) \in Seq(Seq(S))
  BY <1>6, <1>17, CatElements
<1>19. FlattenSeq(Cat(h, t)) = Cat(FlattenSeq(h), FlattenSeq(t))
  BY <1>6, <1>17, FlattenCat, Zenon DEF Cat
<1> QED
  BY <1>14, <1>16, <1>17, <1>18, <1>19, Zenon

-----------------------------------------------------------------------------
(* The steps.  TypeOK and WireInOrder are inductive together: what a       *)
(* partial write leaves follows from the order of what there was.          *)

Bytes == 1..MaxBytes

Inv == TypeOK /\ WireInOrder

(* WireInOrder, with opaque concatenation.                                 *)
Ordered(w, q, t) == Cat(w, FlattenSeq(q)) = Run(0, t)

LEMMA InOrder ==
  ASSUME NEW w, NEW q, NEW t \in Nat
  PROVE  Ordered(w, q, t) <=> w \o FlattenSeq(q) = [i \in 1..t |-> i]
<1>1. Run(0, t) = [i \in 1..t |-> i]
  BY DEF Run
<1> QED
  BY <1>1, Zenon DEF Ordered, Cat

LEMMA BytesLaws ==
  /\ \A a, b \in Seq(Bytes) : Cat(a, b) \in Seq(Bytes)
  /\ \A a, b, c \in Seq(Bytes) : Cat(Cat(a, b), c) = Cat(a, Cat(b, c))
  /\ \A a \in Seq(Bytes) : Cat(a, <<>>) = a /\ Cat(<<>>, a) = a
<1>1. CatLaws(Bytes)
  BY CatLawful, Zenon
<1> QED
  BY <1>1 DEF CatLaws

(* A call adds its bytes to the order.                                     *)
LEMMA Accepted ==
  ASSUME Inv, NEW lens \in Calls, NEW bufs, bufs = Slices(lens), Accept(bufs)
  PROVE  /\ bufs \in Seq(Seq(Bytes)) /\ FlattenSeq(bufs) \in Seq(Bytes)
         /\ FlattenSeq(out) \in Seq(Bytes)
         /\ taken' \in 0..MaxBytes
         /\ Cat(wire, Cat(FlattenSeq(out), FlattenSeq(bufs))) = Run(0, taken')
<1>1. lens \in Seq(Nat) /\ taken \in Nat /\ MaxBytes \in Nat /\ taken <= MaxBytes
  BY OutboundBufferAssumption DEF Inv, TypeOK
<1>2. /\ bufs \in Seq(Seq(Nat))
      /\ \E z \in Nat : taken <= z /\ FlattenSeq(bufs) = Run(taken, z)
  BY <1>1, SlicesBytes, Zenon
<1>3. PICK z \in Nat : taken <= z /\ FlattenSeq(bufs) = Run(taken, z)
  BY <1>2
<1>4. /\ Run(taken, z) \in Seq(1..z) /\ Len(Run(taken, z)) = z - taken
  BY <1>1, <1>3, RunElements
<1>5. taken' = z /\ z <= MaxBytes
  BY <1>1, <1>3, <1>4 DEF Accept
<1>6. FlattenSeq(bufs) \in Seq(Bytes)
  <2>1. 1..z \subseteq Bytes
    BY <1>1, <1>5 DEF Bytes
  <2>2. Run(taken, z) \in Seq(Bytes)
    BY <1>4, <2>1, SeqMonotonic
  <2> QED
    BY <1>3, <2>2
<1>7. bufs \in Seq(Seq(Bytes))
  BY <1>2, <1>6, FlattenElements
<1>8. out \in Seq(Seq(Bytes)) /\ wire \in Seq(Bytes)
  BY DEF Inv, TypeOK, Bytes
<1>9. FlattenSeq(out) \in Seq(Bytes)
  BY <1>8, FlattenType, Zenon
<1>10. Cat(wire, FlattenSeq(out)) = Run(0, taken)
  BY <1>1, InOrder DEF Inv, WireInOrder, Ordered
<1>11. Cat(Cat(wire, FlattenSeq(out)), FlattenSeq(bufs))
         = Cat(wire, Cat(FlattenSeq(out), FlattenSeq(bufs)))
  BY <1>6, <1>8, <1>9, BytesLaws
<1>12. Cat(Run(0, taken), Run(taken, z)) = Run(0, z)
  BY <1>1, <1>3, RunJoins
<1>13. Cat(wire, Cat(FlattenSeq(out), FlattenSeq(bufs))) = Run(0, z)
  BY <1>3, <1>10, <1>11, <1>12, Zenon
<1> QED
  BY <1>1, <1>5, <1>6, <1>7, <1>9, <1>13

(* The types and the order after a step, from what it does to the bytes.   *)
LEMMA Concluded ==
  ASSUME out' \in Seq(Seq(Bytes)), wire' \in Seq(Bytes), taken' \in 0..MaxBytes,
         status' \in {"open", "error", "zero"},
         pc' \in {"idle", "process_write", "flush"},
         written' \in 0..Len(wire'),
         Cat(wire', FlattenSeq(out')) = Run(0, taken')
  PROVE  Inv'
<1>1. TypeOK'
  BY DEF TypeOK, Bytes
<1>2. taken' \in Nat
  BY OutboundBufferAssumption
<1>3. Ordered(wire', out', taken')
  BY DEF Ordered
<1>4. wire' \o FlattenSeq(out') = [i \in 1..taken' |-> i]
  BY <1>2, <1>3, InOrder
<1>5. WireInOrder'
  BY <1>4 DEF WireInOrder
<1> QED
  BY <1>1, <1>5 DEF Inv

(* A call: behind a backlog, with a partial write, or kept as a whole.     *)
LEMMA WriteKeeps ==
  ASSUME Inv, NEW lens \in Calls, Write(Slices(lens))
  PROVE  Inv'
<1>1. PICK bufs : bufs = Slices(lens)
  OBVIOUS
<1>2. Write(bufs)
  BY <1>1
<1>3. /\ out \in Seq(Seq(Bytes)) /\ wire \in Seq(Bytes) /\ taken \in 0..MaxBytes
      /\ status \in {"open", "error", "zero"}
      /\ pc \in {"idle", "process_write", "flush"}
      /\ written \in 0..Len(wire) /\ Len(wire) \in Nat
  BY DEF Inv, TypeOK, Bytes
<1>4. ASSUME Accept(bufs)
      PROVE  /\ bufs \in Seq(Seq(Bytes)) /\ FlattenSeq(bufs) \in Seq(Bytes)
             /\ FlattenSeq(out) \in Seq(Bytes)
             /\ taken' \in 0..MaxBytes
             /\ Cat(wire, Cat(FlattenSeq(out), FlattenSeq(bufs))) = Run(0, taken')
             /\ status' = status /\ pc' = pc /\ written' = written
  BY <1>1, <1>4, Accepted DEF Accept
<1>5. CASE WriteQueued(bufs)
  <2>1. Accept(bufs) /\ out' = Cat(out, bufs) /\ wire' = wire
    BY <1>5 DEF WriteQueued, Cat
  <2>2. FlattenSeq(Cat(out, bufs)) = Cat(FlattenSeq(out), FlattenSeq(bufs))
    BY <1>3, <1>4, <2>1, FlattenCat, Zenon DEF Cat
  <2>3. Cat(out, bufs) \in Seq(Seq(Bytes))
    BY <1>3, <1>4, <2>1, CatElements
  <2>4. Cat(wire', FlattenSeq(out')) = Run(0, taken')
    BY <1>4, <2>1, <2>2
  <2> QED
    BY <1>3, <1>4, <2>1, <2>3, <2>4, Concluded
<1>6. ASSUME Accept(bufs), out = <<>>
      PROVE  Cat(wire, FlattenSeq(bufs)) = Run(0, taken')
  <2>1. FlattenSeq(out) = <<>>
    BY <1>6, FlattenEmpty, Zenon
  <2>2. Cat(<<>>, FlattenSeq(bufs)) = FlattenSeq(bufs)
    BY <1>4, <1>6, BytesLaws
  <2> QED
    BY <1>4, <1>6, <2>1, <2>2
<1>7. ASSUME NEW n \in 0..Len(FlattenSeq(bufs)), WriteTaken(bufs, n) PROVE Inv'
  <2>1. PICK f, p, a : f = FlattenSeq(bufs) /\ p = Prefix(f, n) /\ a = After(f, n)
    OBVIOUS
  <2>2. /\ Accept(bufs) /\ out = <<>> /\ wire' = Cat(wire, p)
        /\ out' = Cat(out, Remaining(bufs, n))
    BY <1>7, <2>1 DEF WriteTaken, Direct, Cat, Prefix
  <2>3. f \in Seq(Bytes) /\ n \in Nat /\ n <= Len(f) /\ n \in 0..Len(f)
    BY <1>4, <1>7, <2>1, <2>2
  <2>4. p \in Seq(Bytes) /\ a \in Seq(Bytes) /\ Len(p) = n
    BY <2>1, <2>3, CutElements
  <2>5. Cat(p, a) = f
    BY <2>1, <2>3, CutJoins
  <2>6. /\ Remaining(bufs, n) \in Seq(Seq(Bytes))
        /\ FlattenSeq(Remaining(bufs, n)) = a
    BY <1>4, <2>1, <2>2, <2>3, RemainingBytes
  <2>7. out' = Remaining(bufs, n)
    <3>1. CatLaws(Seq(Bytes))
      BY CatLawful, Zenon
    <3>2. Cat(<<>>, Remaining(bufs, n)) = Remaining(bufs, n)
      BY <2>6, <3>1, Zenon DEF CatLaws
    <3> QED
      BY <2>2, <3>2
  <2>8. wire' \in Seq(Bytes) /\ Len(wire') = Len(wire) + n
    BY <1>3, <2>2, <2>4, CatElements
  <2>9. Cat(Cat(wire, p), a) = Cat(wire, f)
    BY <1>3, <2>4, <2>5, BytesLaws
  <2>10. Cat(wire', FlattenSeq(out')) = Run(0, taken')
    BY <1>6, <2>1, <2>2, <2>6, <2>7, <2>9
  <2>11. written' \in 0..Len(wire')
    BY <1>3, <1>4, <2>2, <2>3, <2>8
  <2> QED
    BY <1>3, <1>4, <2>2, <2>6, <2>7, <2>8, <2>10, <2>11, Concluded
<1>8. CASE WriteBlocked(bufs)
  <2>1. Accept(bufs) /\ out = <<>> /\ out' = bufs /\ wire' = wire
    BY <1>8 DEF WriteBlocked
  <2>2. Cat(wire', FlattenSeq(out')) = Run(0, taken')
    BY <1>6, <2>1
  <2> QED
    BY <1>3, <1>4, <2>1, <2>2, Concluded
<1>9. CASE WriteFails(bufs)
  BY <1>9 DEF WriteFails, Inv, TypeOK, WireInOrder
<1> QED
  BY <1>2, <1>5, <1>7, <1>8, <1>9 DEF Write

(* A write of process_write or flush.                                      *)
LEMMA LoopKeeps ==
  ASSUME Inv, NEW n \in 1..Len(Offered), LoopWrites(n)
  PROVE  Inv'
<1>1. /\ out \in Seq(Seq(Bytes)) /\ wire \in Seq(Bytes) /\ taken \in 0..MaxBytes
      /\ status \in {"open", "error", "zero"}
      /\ pc \in {"idle", "process_write", "flush"}
      /\ written \in 0..Len(wire) /\ Len(wire) \in Nat
  BY DEF Inv, TypeOK, Bytes
<1>2. PICK f, p, a : f = FlattenSeq(out) /\ p = Prefix(f, n) /\ a = After(f, n)
  OBVIOUS
<1>3. n \in 1..Len(f) /\ SubSeq(Offered, 1, n) = p
  BY <1>1, <1>2, OutboundBufferAssumption, OfferedBytes
<1>4. f \in Seq(Bytes)
  BY <1>1, <1>2, FlattenType, Zenon
<1>5. Len(f) \in Nat /\ n \in Nat /\ n <= Len(f) /\ n \in 0..Len(f)
  BY <1>3, <1>4
<1>6. p \in Seq(Bytes) /\ a \in Seq(Bytes) /\ Len(p) = n
  BY <1>2, <1>4, <1>5, CutElements
<1>7. Cat(p, a) = f
  BY <1>2, <1>4, <1>5, CutJoins
<1>8. Advanced(n) \in Seq(Seq(Bytes)) /\ FlattenSeq(Advanced(n)) = a
  BY <1>1, <1>2, <1>3, AdvancedBytes
<1>9. /\ wire' = Cat(wire, p) /\ out' = Advanced(n)
      /\ taken' = taken /\ status' = status /\ pc' = pc
      /\ written' = IF pc = "process_write" THEN written + n ELSE 0
  BY <1>3 DEF LoopWrites, Cat
<1>10. wire' \in Seq(Bytes) /\ Len(wire') = Len(wire) + n
  BY <1>1, <1>6, <1>9, CatElements
<1>11. Cat(Cat(wire, p), a) = Cat(wire, f)
  BY <1>1, <1>6, <1>7, BytesLaws
<1>12. Cat(wire, f) = Run(0, taken)
  <2>1. taken \in Nat
    BY <1>1, OutboundBufferAssumption
  <2> QED
    BY <1>2, <2>1, InOrder DEF Inv, WireInOrder, Ordered
<1>13. Cat(wire', FlattenSeq(out')) = Run(0, taken')
  BY <1>8, <1>9, <1>11, <1>12
<1>14. written' \in 0..Len(wire')
  BY <1>1, <1>5, <1>9, <1>10
<1> QED
  BY <1>1, <1>8, <1>9, <1>10, <1>13, <1>14, Concluded

LEMMA NextKeeps == Inv /\ [Next]_vars => Inv'
<1> SUFFICES ASSUME Inv, [Next]_vars PROVE Inv'
  OBVIOUS
<1>1. ASSUME NEW lens \in Calls, Write(Slices(lens)) PROVE Inv'
  BY <1>1, WriteKeeps
<1>2. ASSUME NEW n \in 1..Len(Offered), LoopWrites(n) PROVE Inv'
  BY <1>2, LoopKeeps
<1>3. Len(wire) \in Nat
  BY DEF Inv, TypeOK
<1>4. CASE StartLoop
  BY <1>3, <1>4 DEF StartLoop, Inv, TypeOK, WireInOrder
<1>5. CASE LoopZero
  BY <1>3, <1>5 DEF LoopZero, EndLoop, Inv, TypeOK, WireInOrder
<1>6. CASE LoopFails
  BY <1>3, <1>6 DEF LoopFails, EndLoop, Inv, TypeOK, WireInOrder
<1>7. CASE LoopEnds
  BY <1>3, <1>7 DEF LoopEnds, EndLoop, Inv, TypeOK, WireInOrder
<1>8. CASE UNCHANGED vars
  BY <1>8 DEF vars, Inv, TypeOK, WireInOrder
<1> QED
  BY <1>1, <1>2, <1>4, <1>5, <1>6, <1>7, <1>8 DEF Next

LEMMA InitInv == Init => Inv
<1> SUFFICES ASSUME Init PROVE Inv
  OBVIOUS
<1>1. TypeOK
  BY OutboundBufferAssumption DEF Init, TypeOK
<1>2. Run(0, 0) = <<>>
  BY DEF Run
<1>3. Cat(<<>>, <<>>) = <<>>
  BY ConcatEmptySeq, EmptySeq DEF Cat
<1>4. Ordered(<<>>, <<>>, 0)
  BY <1>2, <1>3, FlattenEmpty DEF Ordered
<1>5. <<>> \o FlattenSeq(<<>>) = [i \in 1..0 |-> i]
  BY <1>4, InOrder
<1>6. WireInOrder
  BY <1>5 DEF Init, WireInOrder
<1> QED
  BY <1>1, <1>6 DEF Inv

LEMMA InvThroughout == Spec => []Inv
  BY InitInv, NextKeeps, PTL DEF Spec

(* out_buffer holds bytes the handler wrote, and bytes_written never       *)
(* counts more than the socket has taken, whatever the slices, the batch   *)
(* limit and the partial writes are (connection.rs 313-588; event_loop.rs  *)
(* 588-634).                                                               *)
THEOREM TypeCorrect == Spec => []TypeOK
  BY InvThroughout, PTL DEF Inv

(* What the socket took followed by out_buffer is what the writing calls   *)
(* accepted, in order, for slices of any number and length, empty ones     *)
(* too, any limit on the slices of a write and any partial writes          *)
(* (connection.rs 313-403, 446-588; event_loop.rs 588-634).                *)
THEOREM WireStaysInOrder == Spec => []WireInOrder
  BY InvThroughout, PTL DEF Inv
=============================================================================
