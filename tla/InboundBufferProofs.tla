------------------------- MODULE InboundBufferProofs -------------------------
(***************************************************************************)
(* Proofs about InboundBuffer, for any lengths, messages and chunks.       *)
(***************************************************************************)
EXTENDS InboundBuffer, SequenceTheorems, TLAPS

B == 1..MaxBytes

(* The bytes before and after a point of a buffer.                         *)
LEMMA Cut ==
  ASSUME NEW S, NEW b \in Seq(S), NEW n \in 0..Len(b)
  PROVE  /\ First(b, n) \in Seq(S) /\ Len(First(b, n)) = n
         /\ \A i \in 1..n : First(b, n)[i] = b[i]
         /\ After(b, n) \in Seq(S) /\ Len(After(b, n)) = Len(b) - n
         /\ \A i \in 1..(Len(b) - n) : After(b, n)[i] = b[n + i]
  BY DEF First, After

(* A buffer is what is before a point and what is after it.                *)
LEMMA CutJoin ==
  ASSUME NEW S, NEW b \in Seq(S), NEW n \in 0..Len(b)
  PROVE  First(b, n) \o After(b, n) = b
<1>1. Len(b) \in Nat
  BY LenProperties
<1>2. 1 \in 1..(Len(b) + 1) /\ n \in (1 - 1)..Len(b) /\ Len(b) \in n..Len(b)
  BY <1>1
<1>3. SubSeq(b, 1, n) \o SubSeq(b, n + 1, Len(b)) = SubSeq(b, 1, Len(b))
  BY <1>2, ConcatAdjacentSubSeq
<1> QED
  BY <1>3, SubSeqFull DEF First, After

(* Joining, as an operator the provers do not look into, and its laws.     *)
Cat(a, b) == a \o b

(* It stays within the bytes, is associative and has a neutral element.    *)
LEMMA CatLaws ==
  /\ \A a, b \in Seq(B) : Cat(a, b) \in Seq(B)
  /\ \A a, b, c \in Seq(B) : Cat(Cat(a, b), c) = Cat(a, Cat(b, c))
  /\ \A a \in Seq(B) : Cat(a, <<>>) = a /\ Cat(<<>>, a) = a
<1>1. ASSUME NEW a \in Seq(B), NEW b \in Seq(B)
      PROVE  a \o b \in Seq(B)
  BY ConcatProperties
<1>2. ASSUME NEW a \in Seq(B), NEW b \in Seq(B), NEW c \in Seq(B)
      PROVE  (a \o b) \o c = a \o (b \o c)
  BY ConcatAssociative
<1>3. ASSUME NEW a \in Seq(B)
      PROVE  a \o <<>> = a /\ <<>> \o a = a
  BY ConcatEmptySeq
<1> QED
  BY <1>1, <1>2, <1>3 DEF Cat

(* A piece r moved from the front of three to the end of e.                *)
LEMMA Moved ==
  ASSUME NEW e \in Seq(B), NEW r \in Seq(B), NEW x \in Seq(B),
         NEW y \in Seq(B), NEW a \in Seq(B), NEW b \in Seq(B),
         Cat(Cat(r, x), y) = Cat(a, b)
  PROVE  Cat(Cat(Cat(e, r), x), y) = Cat(Cat(e, a), b)
<1>1. Cat(r, x) \in Seq(B)
  BY CatLaws, Zenon
<1>2. Cat(Cat(e, r), x) = Cat(e, Cat(r, x))
  BY CatLaws, Zenon
<1> PICK d : d = Cat(r, x)
  OBVIOUS
<1>3. Cat(Cat(e, d), y) = Cat(e, Cat(d, y))
  BY <1>1, CatLaws, ZenonT(30)
<1>4. Cat(Cat(e, a), b) = Cat(e, Cat(a, b))
  BY CatLaws, Zenon
<1> QED
  BY <1>2, <1>3, <1>4, Zenon

(* The front f and the rest t of one sequence, and those of the next one,  *)
(* taken in that order, when nothing is taken of the second before the     *)
(* first is at its end.                                                    *)
LEMMA Taken ==
  ASSUME NEW f \in Seq(B), NEW t \in Seq(B), NEW g \in Seq(B),
         NEW u \in Seq(B), t = <<>> \/ g = <<>>
  PROVE  Cat(Cat(Cat(f, g), t), u) = Cat(Cat(f, t), Cat(g, u))
<1>1. Cat(f, g) \in Seq(B) /\ Cat(f, t) \in Seq(B)
  BY CatLaws, Zenon
<1>2. CASE t = <<>>
  <2>1. Cat(Cat(f, g), <<>>) = Cat(f, g) /\ Cat(f, <<>>) = f
    BY <1>1, CatLaws, Zenon
  <2>2. Cat(Cat(f, g), u) = Cat(f, Cat(g, u))
    BY CatLaws, Zenon
  <2> QED
    BY <1>2, <2>1, <2>2, Zenon
<1>3. CASE g = <<>>
  <2>1. Cat(f, <<>>) = f /\ Cat(<<>>, u) = u
    BY CatLaws, Zenon
  <2> QED
    BY <1>3, <2>1, Zenon
<1> QED
  BY <1>2, <1>3

(* Nothing, and everything.                                                *)
LEMMA Ends ==
  ASSUME NEW S, NEW b \in Seq(S)
  PROVE  /\ First(b, 0) = <<>> /\ First(b, Len(b)) = b
         /\ After(b, 0) = b /\ After(b, Len(b)) = <<>>
         /\ <<>> \o b = b /\ b \o <<>> = b
         /\ Len(b) = 0 => b = <<>>
<1>1. Len(b) \in Nat /\ (Len(b) = 0 => b = <<>>)
  BY LenProperties, EmptySeq
<1>2. First(b, 0) = <<>> /\ After(b, Len(b)) = <<>>
  BY <1>1, SubSeqEmpty DEF First, After
<1>3. First(b, Len(b)) = b /\ After(b, 0) = b
  BY <1>1, SubSeqFull DEF First, After
<1> QED
  BY <1>1, <1>2, <1>3, ConcatEmptySeq

(* Every reading call takes i bytes of in_buffer and j of io_buffer, and   *)
(* none of io_buffer before in_buffer is empty.                            *)
TakesFrom(res, i, j) ==
  /\ i = Len(Bytes(in)) \/ j = 0
  /\ res.ret = First(Bytes(in), i) \o First(Bytes(io), j)
  /\ res.in = NoBuf \/ res.in \in Seq(B)
  /\ Bytes(res.in) = After(Bytes(in), i)
  /\ res.io = NoBuf \/ res.io \in Seq(B)
  /\ Bytes(res.io) = After(Bytes(io), j)
  /\ (res.io = NoBuf) = (io = NoBuf)

Takes(res) ==
  \E i \in 0..Len(Bytes(in)), j \in 0..Len(Bytes(io)) : TakesFrom(res, i, j)

(* The buffers of a connection, as sequences.                              *)
LEMMA Buffers ==
  ASSUME TypeOK
  PROVE  /\ Bytes(in) \in Seq(B) /\ Bytes(io) \in Seq(B)
         /\ Len(Bytes(in)) \in Nat /\ Len(Bytes(io)) \in Nat
         /\ Total = Len(Bytes(in)) + Len(Bytes(io)) /\ Total \in Nat
         /\ in # NoBuf => Bytes(in) = in
         /\ io # NoBuf => Bytes(io) = io
         /\ in = NoBuf => Bytes(in) = <<>>
         /\ io = NoBuf => Bytes(io) = <<>>
<1>1. (in = NoBuf \/ in \in Seq(B)) /\ (io = NoBuf \/ io \in Seq(B))
  BY DEF TypeOK, B
<1>2. <<>> \in Seq(B)
  BY EmptySeq
<1>3. Bytes(in) \in Seq(B) /\ Bytes(io) \in Seq(B)
  BY <1>1, <1>2, Zenon DEF Bytes
<1>4. Len(Bytes(in)) \in Nat /\ Len(Bytes(io)) \in Nat
  BY <1>3, LenProperties
<1>5. /\ in # NoBuf => Bytes(in) = in
      /\ io # NoBuf => Bytes(io) = io
      /\ in = NoBuf => Bytes(in) = <<>>
      /\ io = NoBuf => Bytes(io) = <<>>
  BY Zenon DEF Bytes
<1>6. Total = Len(Bytes(in)) + Len(Bytes(io)) /\ Total \in Nat
  BY <1>4 DEF Total
<1> QED
  BY <1>3, <1>4, <1>5, <1>6

(* A buffer is not mistaken for None.                                      *)
LEMMA SomeBuf ==
  ASSUME NEW b \in Seq(B)
  PROVE  b # NoBuf /\ Bytes(b) = b
<1>1. B \subseteq Nat
  BY DEF B
<1>2. b \in Seq(Nat)
  BY <1>1, SeqMonotonic
<1> QED
  BY <1>2, InboundBufferAssumption DEF Bytes

(* What a request asks for.                                                *)
LEMMA WantedNat ==
  ASSUME TypeOK, NEW r \in Requests
  PROVE  Wanted(r) \in Nat
<1>1. Sizes \subseteq Nat /\ Total \in Nat
  BY InboundBufferAssumption, Buffers
<1>2. CASE r = Everything
  BY <1>1, <1>2 DEF Everything, Wanted
<1>3. CASE r \in [some : {TRUE}, n : Sizes]
  BY <1>1, <1>3 DEF Wanted
<1> QED
  BY <1>2, <1>3 DEF Requests

(* Three ways of taking bytes, in one lemma: i of in_buffer, all of it and *)
(* j of io_buffer, with what is left written in any of the ways the calls  *)
(* write it.                                                               *)
LEMMA TakesIntro ==
  ASSUME TypeOK, NEW i \in 0..Len(Bytes(in)), NEW j \in 0..Len(Bytes(io)),
         i = Len(Bytes(in)) \/ j = 0, NEW a, NEW b,
         a = After(Bytes(in), i) \/ (a = NoBuf /\ i = Len(Bytes(in))),
         IF io = NoBuf THEN b = NoBuf ELSE b = After(io, j)
  PROVE  Takes([ret |-> First(Bytes(in), i) \o First(Bytes(io), j),
                in |-> a, io |-> b])
<1> DEFINE res == [ret |-> First(Bytes(in), i) \o First(Bytes(io), j),
                   in |-> a, io |-> b]
<1>1. /\ After(Bytes(in), i) \in Seq(B) /\ After(Bytes(io), j) \in Seq(B)
      /\ After(Bytes(in), Len(Bytes(in))) = <<>>
      /\ After(Bytes(io), Len(Bytes(io))) = <<>>
  BY Buffers, Cut, Ends
<1>2. a = NoBuf \/ a \in Seq(B)
  BY <1>1
<1>3. Bytes(a) = After(Bytes(in), i)
  BY <1>1, SomeBuf DEF Bytes
<1>4. CASE io = NoBuf
  <2>1. j = 0 /\ After(Bytes(io), j) = <<>> /\ b = NoBuf
    BY <1>1, <1>4, Buffers
  <2>2. TakesFrom(res, i, j)
    BY <1>2, <1>3, <1>4, <2>1 DEF TakesFrom, Bytes
  <2> QED
    BY <2>2 DEF Takes
<1>5. CASE io # NoBuf
  <2>1. b = After(Bytes(io), j) /\ b \in Seq(B)
    BY <1>1, <1>5, Buffers
  <2>2. b # NoBuf /\ Bytes(b) = b
    BY <2>1, SomeBuf
  <2>3. TakesFrom(res, i, j)
    BY <1>2, <1>3, <1>5, <2>1, <2>2 DEF TakesFrom
  <2> QED
    BY <2>3 DEF Takes
<1> QED
  BY <1>4, <1>5

(* Every reading call that returns bytes takes them so.                    *)
LEMMA ResultsTake ==
  ASSUME TypeOK, NEW res \in Results, res.ret # NoBuf
  PROVE  Takes(res)
<1> PICK a, b, l, m : /\ a = Bytes(in) /\ b = Bytes(io)
                      /\ l = Len(a) /\ m = Len(b)
  OBVIOUS
<1>1. /\ a \in Seq(B) /\ b \in Seq(B) /\ l \in Nat /\ m \in Nat
      /\ Total = l + m /\ Total \in Nat
      /\ in # NoBuf => a = in
      /\ io # NoBuf => b = io
      /\ in = NoBuf => l = 0
      /\ io = NoBuf => m = 0
  BY Buffers
<1>2. /\ First(a, 0) = <<>> /\ First(a, l) = a /\ First(b, 0) = <<>>
      /\ After(a, 0) = a /\ After(a, l) = <<>> /\ After(b, 0) = b
      /\ l = 0 => a = <<>>
  BY <1>1, Ends
<1>3. \A j \in 0..m : First(b, j) \in Seq(B) /\ <<>> \o First(b, j) = First(b, j)
  BY <1>1, Cut, ConcatEmptySeq
<1>4. \A i \in 0..l : First(a, i) \in Seq(B) /\ First(a, i) \o <<>> = First(a, i)
  BY <1>1, Cut, ConcatEmptySeq
<1>5. ASSUME NEW i \in 0..l, NEW j \in 0..m, i = l \/ j = 0, NEW x, NEW y,
             x = After(a, i) \/ (x = NoBuf /\ i = l),
             IF io = NoBuf THEN y = NoBuf ELSE y = After(io, j)
      PROVE  Takes([ret |-> First(a, i) \o First(b, j), in |-> x, io |-> y])
  BY <1>5, TakesIntro
\* next_contiguous and discard
<1>6. ASSUME NEW n \in Nat, ~(n > Total \/ (l = 0 /\ io = NoBuf)), l = 0
      PROVE  Takes([ret |-> First(io, n), in |-> in, io |-> After(io, n)])
  <2>1. n \in 0..m /\ io # NoBuf /\ b = io /\ 0 \in 0..l
    BY <1>1, <1>6
  <2>2. First(io, n) = First(a, 0) \o First(b, n)
    BY <1>2, <1>3, <2>1
  <2>3. in = After(a, 0) \/ (in = NoBuf /\ 0 = l)
    BY <1>1, <1>2, <1>6
  <2> QED
    BY <1>5, <1>6, <2>1, <2>2, <2>3
<1>7. ASSUME NEW n \in Nat, n <= l, l # 0, NEW x,
             x = After(in, n) \/ (x = NoBuf /\ n = l)
      PROVE  Takes([ret |-> First(in, n), in |-> x, io |-> io])
  <2>1. n \in 0..l /\ in # NoBuf /\ a = in /\ 0 \in 0..m
    BY <1>1, <1>7
  <2>2. First(in, n) = First(a, n) \o First(b, 0)
    BY <1>2, <1>4, <2>1
  <2>3. IF io = NoBuf THEN io = NoBuf ELSE io = After(io, 0)
    BY <1>1, <1>2
  <2> QED
    BY <1>5, <1>7, <2>1, <2>2, <2>3
<1>8. ASSUME NEW n \in Nat, n <= Total, n > l, l # 0
      PROVE  Takes([ret |-> in \o First(io, n - l), in |-> NoBuf,
                    io |-> After(io, n - l)])
  <2>1. n - l \in 0..m /\ io # NoBuf /\ b = io /\ in # NoBuf /\ a = in /\ l \in 0..l
    BY <1>1, <1>8
  <2>2. in \o First(io, n - l) = First(a, l) \o First(b, n - l)
    BY <1>2, <2>1
  <2> QED
    BY <1>5, <2>1, <2>2
\* next_vectored and Read::read
<1>9. ASSUME NEW i \in 0..l, NEW j \in 0..m, i = l \/ j = 0
      PROVE  Takes([ret |-> First(Bytes(in), i) \o First(Bytes(io), j),
                    in |-> IF i = Len(Bytes(in)) THEN NoBuf ELSE After(in, i),
                    io |-> IF io = NoBuf THEN NoBuf ELSE After(io, j)])
  <2> PICK x, y : /\ x = IF i = Len(Bytes(in)) THEN NoBuf ELSE After(in, i)
                  /\ y = IF io = NoBuf THEN NoBuf ELSE After(io, j)
    OBVIOUS
  <2>1. x = After(a, i) \/ (x = NoBuf /\ i = l)
    BY <1>1, <1>9
  <2>2. IF io = NoBuf THEN y = NoBuf ELSE y = After(io, j)
    OBVIOUS
  <2> QED
    BY <1>5, <1>9, <2>1, <2>2
<1>10. ASSUME NEW r \in Requests, res = NextContiguous(r)
       PROVE  Takes(res)
  <2> PICK n : n = Wanted(r)
    OBVIOUS
  <2>1. n \in Nat /\ Len(Bytes(in)) = l
    BY WantedNat
  <2>2. CASE n > Total \/ (l = 0 /\ io = NoBuf)
    BY <1>10, <2>1, <2>2 DEF NextContiguous, NothingDone
  <2>3. CASE ~(n > Total \/ (l = 0 /\ io = NoBuf)) /\ l = 0
    BY <1>6, <1>10, <2>1, <2>3 DEF NextContiguous
  <2>4. CASE ~(n > Total \/ (l = 0 /\ io = NoBuf)) /\ l # 0 /\ n <= l
    BY <1>7, <1>10, <2>1, <2>4 DEF NextContiguous
  <2>5. CASE ~(n > Total \/ (l = 0 /\ io = NoBuf)) /\ l # 0 /\ ~(n <= l)
    <3>1. n <= Total /\ n > l
      BY <1>1, <2>1, <2>5
    <3> QED
      BY <1>8, <1>10, <2>1, <2>5, <3>1 DEF NextContiguous
  <2> QED
    BY <2>2, <2>3, <2>4, <2>5
<1>11. ASSUME NEW r \in Requests, res = Discard(r)
       PROVE  Takes(res)
  <2> PICK n : n = Wanted(r)
    OBVIOUS
  <2>1. n \in Nat /\ Len(Bytes(in)) = l
    BY WantedNat
  <2>2. CASE n > Total \/ (l = 0 /\ io = NoBuf)
    BY <1>11, <2>1, <2>2 DEF Discard, NothingDone
  <2>3. CASE ~(n > Total \/ (l = 0 /\ io = NoBuf)) /\ l = 0
    BY <1>6, <1>11, <2>1, <2>3 DEF Discard
  <2>4. CASE ~(n > Total \/ (l = 0 /\ io = NoBuf)) /\ l # 0 /\ n <= l
    <3> PICK x : x = IF n = l THEN NoBuf ELSE After(in, n)
      OBVIOUS
    <3>1. res = [ret |-> First(in, n), in |-> x, io |-> io]
      BY <1>11, <2>1, <2>4 DEF Discard
    <3>2. x = After(in, n) \/ (x = NoBuf /\ n = l)
      OBVIOUS
    <3> QED
      BY <1>7, <2>1, <2>4, <3>1, <3>2
  <2>5. CASE ~(n > Total \/ (l = 0 /\ io = NoBuf)) /\ l # 0 /\ ~(n <= l)
    <3>1. n <= Total /\ n > l
      BY <1>1, <2>1, <2>5
    <3> QED
      BY <1>8, <1>11, <2>1, <2>5, <3>1 DEF Discard
  <2> QED
    BY <2>2, <2>3, <2>4, <2>5
<1>12. ASSUME NEW r \in Requests, res = NextVectored(r)
       PROVE  Takes(res)
  <2> PICK n : n = Wanted(r)
    OBVIOUS
  <2> PICK i : i = IF n < Len(Bytes(in)) THEN n ELSE Len(Bytes(in))
    OBVIOUS
  <2>1. n \in Nat
    BY WantedNat
  <2>2. CASE n > Total \/ (r.some /\ n = 0)
    BY <1>12, <2>2 DEF NextVectored, NothingDone
  <2>3. CASE ~(n > Total \/ (r.some /\ n = 0))
    <3>1. i \in 0..l /\ n - i \in 0..m /\ (i = l \/ n - i = 0)
      BY <1>1, <2>1, <2>3
    <3>2. res = [ret |-> First(Bytes(in), i) \o First(Bytes(io), n - i),
                 in |-> IF i = Len(Bytes(in)) THEN NoBuf ELSE After(in, i),
                 io |-> IF io = NoBuf THEN NoBuf ELSE After(io, n - i)]
      BY <1>12, <2>3 DEF NextVectored
    <3> QED
      BY <1>9, <3>1, <3>2
  <2> QED
    BY <2>2, <2>3
<1>13. ASSUME NEW n \in Sizes, res = ReadSlice(n)
       PROVE  Takes(res)
  <2> PICK i : i = IF n < Len(Bytes(in)) THEN n ELSE Len(Bytes(in))
    OBVIOUS
  <2> PICK j : j = IF n - i < Len(Bytes(io)) THEN n - i ELSE Len(Bytes(io))
    OBVIOUS
  <2>1. n \in Nat
    BY InboundBufferAssumption
  <2>2. i \in 0..l /\ j \in 0..m /\ (i = l \/ j = 0)
    BY <1>1, <2>1
  <2>3. res = [ret |-> First(Bytes(in), i) \o First(Bytes(io), j),
               in |-> IF i = Len(Bytes(in)) THEN NoBuf ELSE After(in, i),
               io |-> IF io = NoBuf THEN NoBuf ELSE After(io, j)]
    BY <1>13 DEF ReadSlice
  <2> QED
    BY <1>9, <2>2, <2>3
<1>14. ASSUME res = NextMessage
       PROVE  Takes(res)
  <2>1. MsgLen \in Nat \ {0}
    BY InboundBufferAssumption
  <2>2. ~(l < MsgLen)
    BY <1>14 DEF NextMessage, NothingDone
  <2>3. res = [ret |-> First(in, MsgLen), in |-> After(in, MsgLen), io |-> io]
    BY <1>14, <2>2 DEF NextMessage
  <2> QED
    BY <1>1, <1>7, <2>1, <2>2, <2>3
<1> QED
  BY <1>10, <1>11, <1>12, <1>13, <1>14 DEF Results

(* So it gives out the front of the stream and leaves the rest.            *)
LEMMA TakesFront ==
  ASSUME TypeOK, NEW res, Takes(res)
  PROVE  /\ res.ret \in Seq(B)
         /\ res.in = NoBuf \/ res.in \in Seq(B)
         /\ res.io = NoBuf \/ res.io \in Seq(B)
         /\ (res.io = NoBuf) = (io = NoBuf)
         /\ Bytes(res.in) \in Seq(B) /\ Bytes(res.io) \in Seq(B)
         /\ Len(Bytes(res.io)) <= Len(Bytes(io))
         /\ (res.ret \o Bytes(res.in)) \o Bytes(res.io) = Bytes(in) \o Bytes(io)
<1>1. PICK i \in 0..Len(Bytes(in)), j \in 0..Len(Bytes(io)) : TakesFrom(res, i, j)
  BY DEF Takes
<1> PICK a, b : a = Bytes(in) /\ b = Bytes(io)
  OBVIOUS
<1> PICK f, g, t, u : /\ f = First(a, i) /\ t = After(a, i)
                      /\ g = First(b, j) /\ u = After(b, j)
  OBVIOUS
<1>2. a \in Seq(B) /\ b \in Seq(B)
  BY Buffers
<1>3. f \in Seq(B) /\ t \in Seq(B) /\ g \in Seq(B) /\ u \in Seq(B)
  BY <1>2, Cut
<1>4. f \o t = a /\ g \o u = b
  BY <1>2, CutJoin
<1>5. /\ res.ret = f \o g /\ Bytes(res.in) = t /\ Bytes(res.io) = u
      /\ res.in = NoBuf \/ res.in \in Seq(B)
      /\ res.io = NoBuf \/ res.io \in Seq(B)
      /\ (res.io = NoBuf) = (io = NoBuf)
      /\ i = Len(a) \/ j = 0
  BY <1>1 DEF TakesFrom
<1>6. f \o g \in Seq(B)
  BY <1>3, ConcatProperties
<1>7. t = <<>> \/ g = <<>>
  BY <1>2, <1>5, Ends
<1>8. Cat(Cat(Cat(f, g), t), u) = Cat(Cat(f, t), Cat(g, u))
  BY <1>3, <1>7, Taken
<1>9. ((f \o g) \o t) \o u = (f \o t) \o (g \o u)
  BY <1>8, Zenon DEF Cat
<1>10. Len(u) <= Len(b)
  BY <1>2, Cut, LenProperties
<1> QED
  BY <1>3, <1>4, <1>5, <1>6, <1>9, <1>10

-----------------------------------------------------------------------------
(* The invariant: types, and the stream is what has been received.         *)
Inv == TypeOK /\ StreamIntact

(* The bytes numbered from 1 to n.                                         *)
Run(n) == [i \in 1..n |-> i]

(* The numbers of the bytes of one chunk follow those before it.           *)
LEMMA Numbered ==
  ASSUME NEW r \in Nat, NEW n \in Nat,
         NEW d \in Seq(Nat), Len(d) = r, \A i \in 1..r : d[i] = i,
         NEW c \in Seq(Nat), Len(c) = n, \A i \in 1..n : c[i] = r + i
  PROVE  d \o c = Run(r + n)
<1>1. /\ d \o c \in Seq(Nat) /\ Len(d \o c) = r + n
      /\ \A i \in 1..(r + n) : (d \o c)[i] = IF i <= r THEN d[i] ELSE c[i - r]
  BY ConcatProperties
<1>2. /\ Run(r + n) \in Seq(Nat) /\ Len(Run(r + n)) = r + n
      /\ \A i \in 1..(r + n) : Run(r + n)[i] = i
  BY DEF Run
<1>3. ASSUME NEW i \in 1..(r + n)
      PROVE  (d \o c)[i] = i
  <2>1. CASE i <= r
    BY <1>1, <2>1
  <2>2. CASE ~(i <= r)
    <3>1. i - r \in 1..n
      BY <2>2
    <3>2. c[i - r] = r + (i - r)
      BY <3>1
    <3> QED
      BY <1>1, <2>2, <3>2
  <2> QED
    BY <2>1, <2>2
<1> QED
  BY <1>1, <1>2, <1>3, SeqEqual

(* A chunk numbered from r + 1 on continues the stream, within its bound.  *)
LEMMA ChunkFollows ==
  ASSUME NEW r \in Nat, NEW n \in Nat, NEW c, c = [i \in 1..n |-> r + i]
  PROVE  /\ Run(r) \o c = Run(r + n)
         /\ r + n <= MaxBytes => c \in Seq(B)
<1>1. /\ c \in Seq(Nat) /\ Len(c) = n
      /\ \A i \in 1..n : c[i] = r + i
  OBVIOUS
<1>2. /\ Run(r) \in Seq(Nat) /\ Len(Run(r)) = r
      /\ \A i \in 1..r : Run(r)[i] = i
  BY DEF Run
<1>3. Run(r) \o c = Run(r + n)
  BY <1>1, <1>2, Numbered
<1>4. r + n <= MaxBytes => c \in Seq(B)
  BY InboundBufferAssumption DEF B
<1> QED
  BY <1>3, <1>4

(* A reading call moves bytes from the front of the buffers to the         *)
(* handler.                                                                *)
LEMMA CallStep ==
  ASSUME Inv, NEW res \in Results, Call(res)
  PROVE  Inv'
<1>1. /\ res.ret # NoBuf /\ in' = res.in /\ io' = res.io
      /\ eaten' = eaten \o res.ret /\ UNCHANGED <<rcvd, stage>>
  BY DEF Call
<1>2. /\ res.ret \in Seq(B)
      /\ res.in = NoBuf \/ res.in \in Seq(B)
      /\ res.io = NoBuf \/ res.io \in Seq(B)
      /\ (res.io = NoBuf) = (io = NoBuf)
      /\ Bytes(res.in) \in Seq(B) /\ Bytes(res.io) \in Seq(B)
      /\ (res.ret \o Bytes(res.in)) \o Bytes(res.io) = Bytes(in) \o Bytes(io)
  BY <1>1, ResultsTake, TakesFront DEF Inv
<1>3. eaten \in Seq(B) /\ Bytes(in) \in Seq(B) /\ Bytes(io) \in Seq(B)
  BY Buffers DEF Inv, TypeOK, B
<1>4. eaten \o res.ret \in Seq(B)
  BY <1>2, <1>3, ConcatProperties
<1>5. TypeOK'
  <2>1. /\ rcvd \in 0..MaxBytes /\ stage \in Stages
        /\ stage = "traffic" => io # NoBuf
        /\ stage = "idle" => Bytes(io) = <<>>
    BY DEF Inv, TypeOK
  <2>2. stage' = "traffic" => io' # NoBuf
    BY <1>1, <1>2, <2>1
  <2>3. (stage = "idle" => Bytes(io) = <<>>)'
    <3> SUFFICES ASSUME stage = "idle" PROVE Bytes(res.io) = <<>>
      BY <1>1 DEF Bytes
    <3>1. Len(Bytes(res.io)) <= Len(Bytes(io))
      BY <1>1, ResultsTake, TakesFront DEF Inv
    <3>2. Len(Bytes(io)) = 0 /\ Len(Bytes(res.io)) \in Nat
      BY <1>2, <2>1, LenProperties
    <3> QED
      BY <1>2, <3>1, <3>2, Ends
  <2> QED
    BY <1>1, <1>2, <1>4, <2>1, <2>2, <2>3 DEF TypeOK, B
<1>6. StreamIntact'
  <2> PICK e, r, x, y, a, b :
        /\ e = eaten /\ r = res.ret /\ x = Bytes(res.in) /\ y = Bytes(res.io)
        /\ a = Bytes(in) /\ b = Bytes(io)
    OBVIOUS
  <2>1. /\ e \in Seq(B) /\ r \in Seq(B) /\ x \in Seq(B) /\ y \in Seq(B)
        /\ a \in Seq(B) /\ b \in Seq(B)
    BY <1>2, <1>3
  <2>2. (r \o x) \o y = a \o b
    BY <1>2
  <2>3. Cat(Cat(r, x), y) = Cat(a, b)
    BY <2>2, Zenon DEF Cat
  <2>4. Cat(Cat(Cat(e, r), x), y) = Cat(Cat(e, a), b)
    BY <2>1, <2>3, Moved
  <2>5. ((e \o r) \o x) \o y = (e \o a) \o b
    BY <2>4, Zenon DEF Cat
  <2>6. (e \o a) \o b = Run(rcvd)
    BY DEF Inv, StreamIntact, Run
  <2>7. StreamIntact' = (((e \o r) \o x) \o y = Run(rcvd))
    BY <1>1 DEF StreamIntact, Run, Bytes
  <2> QED
    BY <2>5, <2>6, <2>7
<1> QED
  BY <1>5, <1>6 DEF Inv

(* A read of the socket, and the end of on_traffic.                        *)
LEMMA TrafficStep ==
  ASSUME Inv, (\E n \in 1..MaxChunk : Receive(n)) \/ TrafficDone
  PROVE  Inv'
<1> PICK e, a, b : e = eaten /\ a = Bytes(in) /\ b = Bytes(io)
  OBVIOUS
<1>0. e \in Seq(B) /\ a \in Seq(B) /\ b \in Seq(B)
  BY Buffers DEF Inv, TypeOK, B
<1>1. /\ e \in Seq(B) /\ a \in Seq(B) /\ b \in Seq(B)
      /\ in = NoBuf \/ in \in Seq(B)
      /\ io = NoBuf \/ io \in Seq(B)
      /\ rcvd \in 0..MaxBytes /\ MaxBytes \in Nat /\ stage \in Stages
      /\ stage = "traffic" => io # NoBuf
      /\ stage = "idle" => b = <<>>
  BY Buffers, InboundBufferAssumption DEF Inv, TypeOK, B
<1>2. (e \o a) \o b = Run(rcvd)
  BY DEF Inv, StreamIntact, Run
<1>3. e \o a \in Seq(B)
  BY <1>1, ConcatProperties
<1>4. CASE \E n \in 1..MaxChunk : Receive(n)
  <2>1. PICK n \in 1..MaxChunk : Receive(n)
    BY <1>4
  <2> PICK c : c = [i \in 1..n |-> rcvd + i]
    OBVIOUS
  <2>2. /\ stage = "idle" /\ rcvd + n <= MaxBytes /\ io' = c /\ rcvd' = rcvd + n
        /\ stage' = "traffic" /\ UNCHANGED <<in, eaten>>
    BY <2>1 DEF Receive
  <2>3. n \in Nat /\ rcvd \in Nat
    BY <1>1, InboundBufferAssumption
  <2>4. Run(rcvd) \o c = Run(rcvd + n) /\ c \in Seq(B)
    BY <2>2, <2>3, ChunkFollows
  <2>5. c # NoBuf /\ Bytes(c) = c
    BY <2>4, SomeBuf
  <2>6. b = <<>>
    BY <1>1, <2>2
  <2>7. e \o a = Run(rcvd)
    BY <1>2, <1>3, <2>6, ConcatEmptySeq
  <2>8. TypeOK'
    <3>1. rcvd' \in 0..MaxBytes
      BY <1>1, <2>2, <2>3
    <3> QED
      BY <1>1, <2>2, <2>4, <2>5, <3>1 DEF TypeOK, Stages, B
  <2>9. StreamIntact'
    <3>1. (eaten \o Bytes(in) \o Bytes(io))' = (e \o a) \o c
      BY <2>2, <2>5 DEF Bytes
    <3> QED
      BY <2>2, <2>4, <2>7, <3>1 DEF StreamIntact, Run
  <2> QED
    BY <2>8, <2>9 DEF Inv
<1>5. CASE TrafficDone
  <2>1. /\ stage = "traffic" /\ in' = Stash /\ io' = NoBuf /\ stage' = "idle"
        /\ UNCHANGED <<rcvd, eaten>>
    BY <1>5 DEF TrafficDone
  <2>2. io # NoBuf /\ b = io
    BY <1>1, <2>1 DEF Bytes
  <2>3. /\ Stash = NoBuf \/ Stash \in Seq(B)
        /\ (e \o Bytes(Stash)) = (e \o a) \o b /\ Bytes(Stash) \in Seq(B)
    <3>1. CASE b = <<>>
      <4>1. Stash = in
        BY <3>1 DEF Stash
      <4>2. (e \o a) \o b = e \o a
        BY <1>3, <3>1, ConcatEmptySeq
      <4> QED
        BY <1>1, <4>1, <4>2
    <3>2. CASE b # <<>>
      <4>1. Stash = a \o b
        BY <2>2, <3>2 DEF Stash
      <4>2. a \o b \in Seq(B)
        BY <1>1, ConcatProperties
      <4>3. Bytes(Stash) = a \o b
        BY <4>1, <4>2, SomeBuf
      <4>4. (e \o a) \o b = e \o (a \o b)
        BY <1>0, CatLaws, Zenon DEF Cat
      <4> QED
        BY <4>1, <4>2, <4>3, <4>4
    <3> QED
      BY <3>1, <3>2
  <2>4. TypeOK'
    BY <1>1, <2>1, <2>3 DEF TypeOK, Stages, Bytes, B
  <2>5. StreamIntact'
    <3>1. e \o Bytes(Stash) \in Seq(B)
      BY <1>1, <2>3, ConcatProperties
    <3>2. (eaten \o Bytes(in) \o Bytes(io))' = (e \o Bytes(Stash)) \o <<>>
      BY <2>1 DEF Bytes
    <3>3. (e \o Bytes(Stash)) \o <<>> = e \o Bytes(Stash)
      BY <3>1, ConcatEmptySeq
    <3> QED
      BY <1>2, <2>1, <2>3, <3>2, <3>3 DEF StreamIntact, Run
  <2> QED
    BY <2>4, <2>5 DEF Inv
<1> QED
  BY <1>4, <1>5

(* A close changes no buffer, and a reset empties both.                    *)
LEMMA PoolStep ==
  ASSUME Inv, CloseConnection \/ Reset
  PROVE  Inv'
<1>1. CASE CloseConnection
  <2>1. stage' = "closing" /\ UNCHANGED <<in, io, rcvd, eaten>>
    BY <1>1 DEF CloseConnection
  <2> QED
    BY <2>1 DEF Inv, TypeOK, Stages, StreamIntact, Bytes
<1>2. CASE Reset
  <2>1. /\ in' = Cleared(in) /\ io' = Cleared(io) /\ rcvd' = 0 /\ eaten' = <<>>
        /\ stage' = "idle"
    BY <1>2 DEF Reset
  <2>2. <<>> \in Seq(1..MaxBytes) /\ 0 \in 0..MaxBytes
    BY EmptySeq, InboundBufferAssumption
  <2>3. /\ in' = NoBuf \/ in' = <<>>
        /\ io' = NoBuf \/ io' = <<>>
    BY <2>1 DEF Cleared
  <2>4. Bytes(in)' = <<>> /\ Bytes(io)' = <<>>
    BY <2>3 DEF Bytes
  <2>5. TypeOK'
    BY <2>1, <2>2, <2>3, <2>4 DEF TypeOK, Stages
  <2>6. (<<>> \o <<>>) \o <<>> = Run(0)
    BY DEF Run
  <2>7. StreamIntact'
    BY <2>1, <2>4, <2>6 DEF StreamIntact, Run
  <2> QED
    BY <2>5, <2>7 DEF Inv
<1> QED
  BY <1>1, <1>2

(* The invariant holds throughout.                                         *)
LEMMA Invariance == Spec => []Inv
<1>1. Init => Inv
  <2> SUFFICES ASSUME Init PROVE Inv
    OBVIOUS
  <2>1. TypeOK
    <3>1. <<>> \in Seq(1..MaxBytes)
      BY EmptySeq
    <3>2. 0 \in 0..MaxBytes
      BY InboundBufferAssumption
    <3> QED
      BY <3>1, <3>2 DEF Init, TypeOK, Stages, Bytes
  <2>2. eaten \o Bytes(in) \o Bytes(io) = (<<>> \o <<>>) \o <<>>
    BY DEF Init, Bytes
  <2>3. (<<>> \o <<>>) \o <<>> = Run(0)
    BY DEF Run
  <2> QED
    BY <2>1, <2>2, <2>3 DEF Inv, StreamIntact, Init, Run
<1>2. Inv /\ [Next]_vars => Inv'
  <2> SUFFICES ASSUME Inv, [Next]_vars PROVE Inv'
    OBVIOUS
  <2>1. CASE UNCHANGED vars
    BY <2>1 DEF Inv, vars, TypeOK, StreamIntact, Bytes
  <2>2. CASE Next
    BY <2>2, CallStep, TrafficStep, PoolStep DEF Next
  <2> QED
    BY <2>1, <2>2
<1> QED
  BY <1>1, <1>2, PTL DEF Spec

(* Types; on_traffic finds an io_buffer, and a read never overwrites one   *)
(* with bytes in it, though a close may leave unread bytes there           *)
(* (event_loop.rs 531-546, connection.rs 94-99).                           *)
THEOREM TypeCorrect == Spec => []TypeOK
<1>1. Inv => TypeOK
  BY DEF Inv
<1> QED
  BY <1>1, Invariance, PTL

(* Whatever the handler reads with, in any order and in any sizes, and     *)
(* however often the Connection is closed and reset, the bytes handed out  *)
(* and those in the two buffers are the bytes received on this socket      *)
(* (connection.rs 94-99, 131-283 and 411-443, event_loop.rs 526-546).      *)
THEOREM StreamStaysIntact == Spec => []StreamIntact
<1>1. Inv => StreamIntact
  BY DEF Inv
<1> QED
  BY <1>1, Invariance, PTL

(* peek and next_contiguous agree on every request (connection.rs 131-175  *)
(* and 213-246).                                                           *)
THEOREM PeekTruthful == Spec => []PeekAgrees
<1>1. PeekAgrees
  BY DEF PeekAgrees, Peek, NextContiguous, NothingDone
<1> QED
  BY <1>1, PTL

(* next_vectored hands out what next_contiguous does, for every request    *)
(* that is not empty (connection.rs 177-211).                              *)
THEOREM VectoredTruthful == Spec => []VectoredAgrees
<1>1. TypeOK => VectoredAgrees
  <2> SUFFICES ASSUME TypeOK, NEW q \in Requests, Wanted(q) > 0
               PROVE  NextVectored(q).ret = NextContiguous(q).ret
    BY DEF VectoredAgrees
  <2> PICK n, a, b, l, m : /\ n = Wanted(q) /\ a = Bytes(in) /\ b = Bytes(io)
                           /\ l = Len(a) /\ m = Len(b)
    OBVIOUS
  <2>1. /\ a \in Seq(B) /\ b \in Seq(B) /\ l \in Nat /\ m \in Nat
        /\ Total = l + m /\ Total \in Nat /\ n \in Nat /\ n > 0
        /\ in # NoBuf => a = in
        /\ io # NoBuf => b = io
        /\ in = NoBuf => l = 0
        /\ io = NoBuf => m = 0
    BY Buffers, WantedNat
  <2>2. CASE n > Total
    BY <2>2 DEF NextVectored, NextContiguous, NothingDone
  <2>3. CASE n <= Total
    <3> PICK i : i = IF n < l THEN n ELSE l
      OBVIOUS
    <3>1. ~(n > Total) /\ ~(l = 0 /\ io = NoBuf) /\ n # 0
      BY <2>1, <2>3
    <3>2. NextVectored(q).ret = First(a, i) \o First(b, n - i)
      BY <3>1 DEF NextVectored
    <3>3. CASE l = 0
      <4>1. /\ NextContiguous(q).ret = First(io, n) /\ b = io /\ i = 0
            /\ n - i = n /\ n \in 0..m
        BY <2>1, <2>3, <3>1, <3>3 DEF NextContiguous
      <4>2. First(a, 0) = <<>> /\ First(b, n) \in Seq(B)
        BY <2>1, <4>1, Cut, Ends
      <4>3. <<>> \o First(b, n) = First(b, n)
        BY <4>2, ConcatEmptySeq
      <4> QED
        BY <3>2, <4>1, <4>2, <4>3
    <3>4. CASE l # 0 /\ n <= l
      <4>1. NextContiguous(q).ret = First(in, n)
        BY <3>1, <3>4 DEF NextContiguous
      <4>2. a = in /\ i = n /\ n - i = 0 /\ n \in 0..l
        BY <2>1, <3>4
      <4>3. First(b, 0) = <<>> /\ First(a, n) \in Seq(B)
        BY <2>1, <4>2, Cut, Ends
      <4>4. First(a, n) \o <<>> = First(a, n)
        BY <4>3, ConcatEmptySeq
      <4> QED
        BY <3>2, <4>1, <4>2, <4>3, <4>4
    <3>5. CASE l # 0 /\ ~(n <= l)
      <4>1. NextContiguous(q).ret = in \o First(io, n - l)
        BY <3>1, <3>5 DEF NextContiguous
      <4>2. a = in /\ io # NoBuf /\ b = io /\ i = l
        BY <2>1, <2>3, <3>5
      <4>3. First(a, l) = a
        BY <2>1, Ends
      <4> QED
        BY <3>2, <4>1, <4>2, <4>3
    <3> QED
      BY <3>3, <3>4, <3>5
  <2> QED
    BY <2>1, <2>2, <2>3
<1> QED
  BY <1>1, TypeCorrect, PTL
=============================================================================
