------------------------------ MODULE GfdProofs ------------------------------
(***************************************************************************)
(* Proofs about Gfd, for any number of loops, keys and registrations and   *)
(* for fields of any width.                                                *)
(***************************************************************************)
EXTENDS Gfd, SequenceTheorems, TLAPS

(* The numbers of values of the three fields.                              *)
LoopMod == 2 ^ LoopBits
SlotMod == 2 ^ SlotBits
SeqMod == 2 ^ SeqBits

Count == Len(names)

Names == [fd : Fds, seq : Nat, index_info : Nat]

Types ==
  /\ names \in Seq(Names)
  /\ slab \in [Loops -> [Slots -> Nat]]
  /\ \A l \in Loops, k \in Slots : slab[l][k] <= Count
  /\ last \in [for : Nat, to : Nat]
  /\ last.for <= Count

(* The sequence numbers count the registrations, and go round.             *)
Counted ==
  /\ mono = Count % SeqMod
  /\ \A c \in 1..Count : names[c].seq = (c - 1) % SeqMod

(* A connection's name says where it is.                                   *)
Placed ==
  \A l \in Loops, k \in Slots :
    slab[l][k] # None =>
      names[slab[l][k]].index_info = Pack(LoopId(l), k)

(* While a connection is open nobody else gets its descriptor.             *)
OwnFd ==
  \A l \in Loops, k \in Slots :
    slab[l][k] # None =>
      \A c \in 1..Count :
        slab[l][k] < c => names[c].fd # names[slab[l][k]].fd

(* The inductive invariant.                                                *)
Inv ==
  /\ Types /\ Counted /\ Placed /\ OwnFd
  /\ RightConnection /\ AnswerReaches

-----------------------------------------------------------------------------
(* Arithmetic: a number put together of two digits, and multiples.         *)
LEMMA Digits ==
  ASSUME NEW P \in Nat \ {0}, NEW l \in Nat, NEW k \in Nat, k < P
  PROVE  (l * P + k) % P = k /\ (l * P + k) \div P = l
  OBVIOUS

(* A multiple leaves no remainder.                                         *)
LEMMA Multiple ==
  ASSUME NEW P \in Nat \ {0}, NEW l \in Nat
  PROVE  (P * l) % P = 0
  OBVIOUS

(* A remainder is a number below the divisor.                              *)
LEMMA Remainder ==
  ASSUME NEW P \in Nat \ {0}, NEW l \in Nat
  PROVE  l % P \in Nat /\ l % P < P /\ (l < P => l % P = l)
  OBVIOUS

(* The distance of two numbers with the same remainder is a multiple.      *)
LEMMA Distance ==
  ASSUME NEW P \in Nat \ {0}, NEW l \in Nat, NEW k \in Nat,
         k <= l, k % P = l % P
  PROVE  (l - k) % P = 0
<1> PICK q, p, r : q = l \div P /\ p = k \div P /\ r = l % P
  OBVIOUS
<1>1. q \in Nat /\ p \in Nat /\ r \in Nat
  OBVIOUS
<1>2. l = P * q + r /\ k = P * p + r
  OBVIOUS
<1>3. q >= p
  <2>1. SUFFICES ASSUME q + 1 <= p PROVE FALSE
    BY <1>1
  <2>2. P * p >= P * (q + 1)
    BY <1>1, <2>1
  <2>3. P * (q + 1) = P * q + P
    BY <1>1
  <2>4. P * p \in Nat /\ P * q \in Nat
    BY <1>1
  <2> QED
    BY <1>1, <1>2, <2>2, <2>3, <2>4
<1>4. PICK d \in Nat : q = p + d
  BY <1>1, <1>3
<1>5. P * q = P * p + P * d
  BY <1>1, <1>4
<1>6. P * p \in Nat /\ P * d \in Nat
  BY <1>1, <1>4
<1>7. l - k = P * d
  BY <1>1, <1>2, <1>5, <1>6
<1> QED
  BY <1>7, Multiple

(* Counting on from the remainder is counting on from the number.          *)
LEMMA Wraps ==
  ASSUME NEW P \in Nat \ {0}, NEW l \in Nat
  PROVE  ((l % P) + 1) % P = (l + 1) % P
<1> PICK q, r : q = l \div P /\ r = l % P
  OBVIOUS
<1>1. q \in Nat /\ r \in 0..(P - 1) /\ l = q * P + r
  OBVIOUS
<1>2. CASE r + 1 < P
  <2>1. l + 1 = q * P + (r + 1) /\ r + 1 \in Nat
    BY <1>1
  <2>2. (q * P + (r + 1)) % P = r + 1
    BY <1>1, <1>2, <2>1, Digits
  <2>3. (r + 1) % P = r + 1
    BY <1>1, <1>2
  <2> QED
    BY <2>1, <2>2, <2>3
<1>3. CASE r + 1 = P
  <2>1. q * P \in Nat /\ P * (q + 1) = q * P + P
    BY <1>1
  <2>2. l + 1 = P * (q + 1)
    BY <1>1, <1>3, <2>1
  <2>3. (P * (q + 1)) % P = 0
    BY <1>1, Multiple
  <2>4. P % P = 0
    OBVIOUS
  <2> QED
    BY <1>3, <2>2, <2>3, <2>4
<1> QED
  BY <1>1, <1>2, <1>3

(* The constants.                                                          *)
LEMMA Widths ==
  /\ LoopMod \in Nat \ {0} /\ SlotMod \in Nat \ {0} /\ SeqMod \in Nat \ {0}
  /\ Loops \subseteq Nat /\ Slots \subseteq Nat
  BY GfdAssumption, PowersPositive
     DEF LoopMod, SlotMod, SeqMod, Loops, Slots

(* What Pack makes is a number, and the two fields come out of it again.   *)
LEMMA PackFields ==
  ASSUME NEW l \in Loops, NEW k \in Slots
  PROVE  /\ Pack(LoopId(l), k) \in Nat
         /\ l < LoopMod /\ k < SlotMod =>
              /\ LoopId(l) = l
              /\ Pack(LoopId(l), k) \div SlotMod = l
              /\ Pack(LoopId(l), k) % SlotMod = k
<1> PICK m, s : m = LoopMod /\ s = SlotMod
  OBVIOUS
<1>1. m \in Nat \ {0} /\ s \in Nat \ {0} /\ l \in Nat /\ k \in Nat
  BY Widths
<1>2. LoopId(l) = l % m /\ Pack(LoopId(l), k) = (l % m) * s + (k % s)
  BY DEF LoopId, Pack, LoopMod, SlotMod
<1>3. /\ l % m \in Nat /\ (l < m => l % m = l)
      /\ k % s \in Nat /\ (k < s => k % s = k)
  BY <1>1, Remainder
<1>4. (l % m) * s \in Nat
  BY <1>1, <1>3
<1>5. (l % m) * s + (k % s) \in Nat
  BY <1>3, <1>4
<1>6. k < s => (l * s + k) % s = k /\ (l * s + k) \div s = l
  BY <1>1, Digits
<1> QED
  BY <1>2, <1>3, <1>5, <1>6

-----------------------------------------------------------------------------
(* A new name at the end.                                                  *)
LEMMA NamesAppend ==
  ASSUME NEW S, NEW s \in Seq(S), NEW e \in S, NEW t, t = Append(s, e)
  PROVE  /\ t \in Seq(S) /\ Len(s) \in Nat /\ Len(t) = Len(s) + 1
         /\ \A i \in 1..Len(s) : t[i] = s[i]
         /\ t[Len(s) + 1] = e
  BY AppendProperties

(* The initial state.                                                      *)
LEMMA InvInit == Init => Inv
<1> SUFFICES ASSUME Init PROVE Inv
  OBVIOUS
<1>1. names = <<>> /\ names \in Seq(Names) /\ Count = 0
  BY EmptySeq DEF Init, Count
<1>2. /\ last = [for |-> 0, to |-> 0] /\ mono = 0
      /\ slab \in [Loops -> [Slots -> Nat]]
      /\ \A l \in Loops, k \in Slots : slab[l][k] = 0
  BY DEF Init, None
<1>3. Types
  BY <1>1, <1>2 DEF Types
<1>4. Counted
  <2>1. 0 % SeqMod = 0
    BY Widths, Remainder
  <2> QED
    BY <1>1, <1>2, <2>1 DEF Counted
<1>5. Placed /\ OwnFd
  BY <1>2 DEF Placed, OwnFd, None
<1>6. RightConnection /\ AnswerReaches
  BY <1>2 DEF RightConnection, AnswerReaches, None
<1> QED
  BY <1>3, <1>4, <1>5, <1>6 DEF Inv

(* EventLoop::register: the new connection gets the next number, the name  *)
(* says where it is, and its descriptor is that of no open connection.     *)
LEMMA RegisterStep ==
  ASSUME Inv, NEW l \in Loops, NEW k \in Slots, NEW fd \in Fds,
         Register(l, k, fd)
  PROVE  Inv'
<1> PICK c, n, g : c = Count + 1 /\ n = Count /\ g = New(fd, LoopId(l), k)
  OBVIOUS
<1>1. /\ slab[l][k] = None /\ fd \in FreeFds
      /\ names' = Append(names, g)
      /\ mono' = (mono + 1) % SeqMod
      /\ slab' = [slab EXCEPT ![l] = [@ EXCEPT ![k] = c]]
      /\ last' = last
  BY DEF Register, Count, SeqMod
<1>2. /\ names \in Seq(Names) /\ slab \in [Loops -> [Slots -> Nat]]
      /\ \A i \in Loops, j \in Slots : slab[i][j] <= n
      /\ last \in [for : Nat, to : Nat] /\ last.for <= n /\ last.for \in Nat
  BY DEF Inv, Types
<1>3. /\ mono = n % SeqMod
      /\ \A i \in 1..n : names[i].seq = (i - 1) % SeqMod
  BY DEF Inv, Counted
<1>4. n \in Nat /\ c = n + 1 /\ c \in Nat
  BY <1>2, LenProperties DEF Count
<1>5. mono \in Nat
  BY <1>3, <1>4, Widths, Remainder
<1>6. /\ g.fd = fd /\ g.seq = mono /\ g.index_info = Pack(LoopId(l), k)
      /\ g \in Names
  BY <1>5, PackFields DEF New, Names
<1>7. /\ names' \in Seq(Names) /\ Count' = c
      /\ \A i \in 1..n : names'[i] = names[i]
      /\ names'[c] = g
  BY <1>1, <1>2, <1>4, <1>6, NamesAppend DEF Count
<1>8. /\ slab' \in [Loops -> [Slots -> Nat]]
      /\ slab'[l][k] = c
      /\ \A i \in Loops, j \in Slots :
           i # l \/ j # k => slab'[i][j] = slab[i][j]
  BY <1>1, <1>2, <1>4
<1>9. Types'
  <2>1. ASSUME NEW i \in Loops, NEW j \in Slots PROVE slab'[i][j] <= c
    <3>1. CASE i = l /\ j = k
      BY <1>4, <1>8, <3>1
    <3>2. CASE i # l \/ j # k
      <4>1. slab'[i][j] = slab[i][j] /\ slab[i][j] <= n /\ slab[i][j] \in Nat
        BY <1>2, <1>8, <3>2
      <4> QED
        BY <1>4, <4>1
    <3> QED
      BY <3>1, <3>2
  <2>2. last' \in [for : Nat, to : Nat] /\ last'.for <= c
    BY <1>1, <1>2, <1>4
  <2> QED
    BY <1>7, <1>8, <2>1, <2>2 DEF Types
<1>10. Counted'
  <2>1. mono' = c % SeqMod
    <3>1. ((n % SeqMod) + 1) % SeqMod = (n + 1) % SeqMod
      BY <1>4, Widths, Wraps
    <3> QED
      BY <1>1, <1>3, <1>4, <3>1, Zenon
  <2>2. ASSUME NEW i \in 1..c
        PROVE  names'[i].seq = (i - 1) % SeqMod
    <3>1. CASE i \in 1..n
      BY <1>3, <1>7, <3>1
    <3>2. CASE i = c
      BY <1>3, <1>4, <1>6, <1>7, <3>2
    <3> QED
      BY <1>4, <3>1, <3>2
  <2> QED
    BY <1>7, <2>1, <2>2 DEF Counted, SeqMod
<1>11. ASSUME NEW i \in Loops, NEW j \in Slots, slab[i][j] # None
       PROVE  /\ slab[i][j] \in 1..n
              /\ names[slab[i][j]].index_info = Pack(LoopId(i), j)
              /\ names[slab[i][j]].fd # fd
              /\ \A d \in 1..n : slab[i][j] < d
                                  => names[d].fd # names[slab[i][j]].fd
  <2>1. slab[i][j] \in 1..n
    BY <1>2, <1>4, <1>11 DEF None
  <2>2. slab[i][j] \in Live
    BY <1>11 DEF Live
  <2>3. names[slab[i][j]].fd # fd
    BY <1>1, <2>2 DEF FreeFds
  <2> QED
    BY <1>11, <2>1, <2>3 DEF Inv, Placed, OwnFd
<1>12. Placed'
  <2> SUFFICES ASSUME NEW i \in Loops, NEW j \in Slots, slab'[i][j] # None
               PROVE  names'[slab'[i][j]].index_info = Pack(LoopId(i), j)
    BY DEF Placed, None, Pack, LoopId
  <2>1. CASE i = l /\ j = k
    BY <1>6, <1>7, <1>8, <2>1
  <2>2. CASE i # l \/ j # k
    BY <1>7, <1>8, <1>11, <2>2
  <2> QED
    BY <2>1, <2>2
<1>13. OwnFd'
  <2> SUFFICES ASSUME NEW i \in Loops, NEW j \in Slots, slab'[i][j] # None,
                      NEW d \in 1..c, slab'[i][j] < d
               PROVE  names'[d].fd # names'[slab'[i][j]].fd
    BY <1>7 DEF OwnFd, None
  <2>1. CASE i = l /\ j = k
    BY <1>4, <1>8, <2>1
  <2>2. CASE i # l \/ j # k
    <3>1. /\ slab'[i][j] = slab[i][j] /\ slab[i][j] \in 1..n
          /\ names'[slab[i][j]] = names[slab[i][j]]
          /\ names[slab[i][j]].fd # fd
      BY <1>7, <1>8, <1>11, <2>2
    <3>2. CASE d = c
      BY <1>6, <1>7, <3>1, <3>2
    <3>3. CASE d \in 1..n
      <4>1. names'[d] = names[d] /\ slab[i][j] < d /\ slab[i][j] # None
        BY <1>7, <3>1, <3>3
      <4>2. names[d].fd # names[slab[i][j]].fd
        BY <1>11, <3>3, <4>1
      <4> QED
        BY <3>1, <4>1, <4>2
    <3> QED
      BY <1>4, <3>2, <3>3
  <2> QED
    BY <2>1, <2>2
<1>14. RightConnection'
  BY <1>1 DEF Inv, RightConnection, None
<1>15. AnswerReaches'
  <2> SUFFICES ASSUME NEW i \in Loops, NEW j \in Slots,
                      last.for # None, slab'[i][j] = last.for,
                      i < 2 ^ LoopBits, j < 2 ^ SlotBits
               PROVE  last.to # None
    BY <1>1 DEF AnswerReaches, None
  <2>1. slab'[i][j] # c
    BY <1>2, <1>4
  <2>2. slab[i][j] = last.for
    BY <1>8, <2>1
  <2> QED
    BY <2>2 DEF Inv, AnswerReaches
<1> QED
  BY <1>9, <1>10, <1>12, <1>13, <1>14, <1>15 DEF Inv

(* close_connection frees the key; names are not forgotten.                *)
LEMMA CloseStep ==
  ASSUME Inv, NEW l \in Loops, NEW k \in Slots, Close(l, k)
  PROVE  Inv'
<1>1. /\ slab' = [slab EXCEPT ![l] = [@ EXCEPT ![k] = 0]]
      /\ mono' = mono /\ names' = names /\ last' = last
  BY DEF Close, None
<1>2. slab \in [Loops -> [Slots -> Nat]]
  BY DEF Inv, Types
<1>3. /\ slab' \in [Loops -> [Slots -> Nat]] /\ slab'[l][k] = 0
      /\ \A i \in Loops, j \in Slots :
           i # l \/ j # k => slab'[i][j] = slab[i][j]
  BY <1>1, <1>2
<1>4. \A i \in Loops, j \in Slots :
        slab'[i][j] = 0 \/ slab'[i][j] = slab[i][j]
  BY <1>3
<1>5. Count' = Count /\ Count \in Nat
  BY <1>1, LenProperties DEF Count, Inv, Types
<1>6. Types'
  <2>1. \A i \in Loops, j \in Slots : slab[i][j] <= Count
    BY DEF Inv, Types
  <2>2. \A i \in Loops, j \in Slots : slab'[i][j] <= Count
    BY <1>4, <1>5, <2>1
  <2> QED
    BY <1>1, <1>3, <1>5, <2>2 DEF Inv, Types
<1>7. Counted'
  BY <1>1, <1>5 DEF Inv, Counted, SeqMod
<1>8. Placed'
  BY <1>1, <1>4 DEF Inv, Placed, None, Pack, LoopId
<1>9. OwnFd'
  BY <1>1, <1>4, <1>5 DEF Inv, OwnFd, None
<1>10. RightConnection' /\ AnswerReaches'
  BY <1>1, <1>4 DEF Inv, RightConnection, AnswerReaches, None
<1> QED
  BY <1>6, <1>7, <1>8, <1>9, <1>10 DEF Inv

(* An AsyncWrite finds a connection only under its whole name.  Of two     *)
(* connections with one name the open one is the younger, for no other got *)
(* its descriptor since, and their numbers differ by whole rounds of       *)
(* MONO_SEQ.  The name of an open connection leads to its own place.       *)
LEMMA AsyncWriteStep ==
  ASSUME Inv, NEW c \in Registered, AsyncWrite(c)
  PROVE  Inv'
<1> PICK d : d = Found(names[c])
  OBVIOUS
<1>1. /\ last' = [for |-> c, to |-> d]
      /\ mono' = mono /\ slab' = slab /\ names' = names
  BY DEF AsyncWrite
<1>2. /\ names \in Seq(Names) /\ slab \in [Loops -> [Slots -> Nat]]
      /\ \A i \in Loops, j \in Slots : slab[i][j] <= Count
  BY DEF Inv, Types
<1>3. Count \in Nat /\ c \in 1..Count /\ c \in Nat /\ c # 0
  <2>1. Count \in Nat /\ DOMAIN names = 1..Count
    BY <1>2, LenProperties DEF Count
  <2> QED
    BY <2>1 DEF Registered
<1>4. ASSUME d # None
      PROVE  \E l \in Loops, k \in Slots :
               slab[l][k] = d /\ names[d] = names[c]
  BY <1>4 DEF Found, SameGfd
<1>5. d \in Nat
  BY <1>2, <1>4 DEF None
<1>6. ASSUME d # None
      PROVE  c <= d /\ (d - c) % SeqMod = 0
  <2>1. PICK l \in Loops, k \in Slots : slab[l][k] = d /\ names[d] = names[c]
    BY <1>4, <1>6
  <2>2. d \in 1..Count
    BY <1>2, <1>3, <1>5, <1>6, <2>1 DEF None
  <2>3. c <= d
    <3>1. SUFFICES ASSUME d < c PROVE FALSE
      BY <1>3, <1>5
    <3> QED
      BY <1>3, <1>6, <2>1, <3>1 DEF Inv, OwnFd
  <2>4. names[d].seq = (d - 1) % SeqMod /\ names[c].seq = (c - 1) % SeqMod
    BY <1>3, <2>2 DEF Inv, Counted
  <2>5. (c - 1) % SeqMod = (d - 1) % SeqMod
    BY <2>1, <2>4
  <2> PICK x, y : x = c - 1 /\ y = d - 1
    OBVIOUS
  <2>6. x \in Nat /\ y \in Nat /\ x <= y /\ y - x = d - c
    BY <1>3, <2>2, <2>3
  <2>7. (y - x) % SeqMod = 0
    BY <2>5, <2>6, Widths, Distance
  <2> QED
    BY <2>3, <2>6, <2>7
<1>7. ASSUME NEW l \in Loops, NEW k \in Slots, slab[l][k] = c,
             l < LoopMod, k < SlotMod
      PROVE  d # None
  <2>1. names[c].index_info = Pack(LoopId(l), k)
    BY <1>3, <1>7 DEF Inv, Placed, None
  <2>2. /\ event_loop_index(names[c]) = l /\ slab_index(names[c]) = k
        /\ LoopId(l) = l
    BY <1>7, <2>1, PackFields DEF event_loop_index, slab_index, SlotMod
  <2> QED
    BY <1>3, <1>7, <2>2 DEF Found, SameGfd, None
<1>8. Count' = Count
  BY <1>1 DEF Count
<1>9. Types'
  BY <1>1, <1>2, <1>3, <1>5, <1>8 DEF Types
<1>10. Counted' /\ Placed' /\ OwnFd'
  BY <1>1, <1>8
     DEF Inv, Counted, Placed, OwnFd, SeqMod, None, Pack, LoopId
<1>11. RightConnection'
  BY <1>1, <1>6 DEF RightConnection, None, SeqMod
<1>12. AnswerReaches'
  BY <1>1, <1>7 DEF AnswerReaches, None, LoopMod, SlotMod
<1> QED
  BY <1>9, <1>10, <1>11, <1>12 DEF Inv

(* The invariant holds throughout.                                         *)
LEMMA Invariance == Spec => []Inv
<1>1. Inv /\ [Next]_vars => Inv'
  <2> SUFFICES ASSUME Inv, [Next]_vars PROVE Inv'
    OBVIOUS
  <2>1. CASE UNCHANGED vars
    BY <2>1 DEF vars, Inv, Types, Counted, Placed, OwnFd, RightConnection,
                AnswerReaches, Count, SeqMod, None, Pack, LoopId
  <2>2. CASE Next
    BY <2>2, RegisterStep, CloseStep, AsyncWriteStep DEF Next
  <2> QED
    BY <2>1, <2>2
<1> QED
  BY <1>1, InvInit, PTL DEF Spec

(* An answer goes to its connection, or to nobody, or to one that was      *)
(* registered a multiple of 2^32 registrations later (gfd.rs 19-27,        *)
(* event_loop.rs 296-308).                                                 *)
THEOREM AnswersRightConnection == Spec => []RightConnection
<1>1. Inv => RightConnection
  BY DEF Inv
<1> QED
  BY <1>1, Invariance, PTL

(* Whatever the number of loops and of keys, an answer for an open         *)
(* connection whose loop and key fit the two fields reaches a connection   *)
(* (gfd.rs 21-48, engine.rs 94-102).                                       *)
THEOREM AnswersReach == Spec => []AnswerReaches
<1>1. Inv => AnswerReaches
  BY DEF Inv
<1> QED
  BY <1>1, Invariance, PTL
=============================================================================
