---------------------------- MODULE InboundBuffer ----------------------------
(***************************************************************************)
(* The two input buffers of a Connection: io_buffer holds what the last    *)
(* read brought and is lent to on_traffic, in_buffer what earlier          *)
(* callbacks left unread.  The reading calls treat the two as one stream.  *)
(* A Connection serves one socket, goes to the pool and is reset for the   *)
(* next.  Bytes are numbered in the order they arrive on a socket.         *)
(***************************************************************************)
EXTENDS Naturals, Sequences

CONSTANTS
  NoBuf,      \* None, for an Option that holds a buffer
  Sizes,      \* the lengths the handler asks for
  MsgLen,     \* length of a message of the codec
  MaxChunk,   \* read_buffer_cap
  MaxBytes    \* bound of the model: bytes that arrive on a socket

ASSUME InboundBufferAssumption ==
  /\ NoBuf \notin Seq(Nat)
  /\ Sizes \subseteq Nat
  /\ MsgLen \in Nat \ {0}
  /\ MaxChunk \in Nat \ {0}
  /\ MaxBytes \in Nat

(* Option<usize>: a given length, or None for everything.                  *)
Everything == [some |-> FALSE, n |-> 0]

Requests == {Everything} \cup [some : {TRUE}, n : Sizes]

VARIABLES
  in, io,    \* in_buffer and io_buffer
  rcvd,      \* number of bytes read from this socket so far
  eaten,     \* history: its bytes handed to the handler or discarded
  stage      \* where the connection is

vars == <<in, io, rcvd, eaten, stage>>

(* idle is a connection in the slab or in on_open, traffic one whose       *)
(* on_traffic runs, closing one in on_close and then in the pool.          *)
Stages == {"idle", "traffic", "closing"}

Bytes(b) == IF b = NoBuf THEN <<>> ELSE b

(* Types; on_traffic finds an io_buffer, and between two reads none has    *)
(* bytes in it, which the next read would overwrite: not after a stash,    *)
(* and not in a Connection that was closed with bytes unread and reset     *)
(* (event_loop.rs 531-546, connection.rs 94-99).                           *)
TypeOK ==
  /\ in = NoBuf \/ in \in Seq(1..MaxBytes)
  /\ io = NoBuf \/ io \in Seq(1..MaxBytes)
  /\ rcvd \in 0..MaxBytes
  /\ eaten \in Seq(1..MaxBytes)
  /\ stage \in Stages
  /\ stage = "traffic" => io # NoBuf
  /\ stage = "idle" => Bytes(io) = <<>>

(* Connection::new.                                                        *)
Init ==
  /\ in = NoBuf
  /\ io = NoBuf
  /\ rcvd = 0
  /\ eaten = <<>>
  /\ stage = "idle"

First(b, n) == SubSeq(b, 1, n)
After(b, n) == SubSeq(b, n + 1, Len(b))

Total == Len(Bytes(in)) + Len(Bytes(io))

Wanted(req) == IF req.some THEN req.n ELSE Total

NothingDone == [ret |-> NoBuf, in |-> in, io |-> io]

-----------------------------------------------------------------------------
(* The calls: what they return and what they leave in the buffers.         *)

(* next_contiguous: out of one buffer if it holds enough, else in_buffer   *)
(* with the front of io_buffer copied behind it.                           *)
NextContiguous(req) ==
  LET n == Wanted(req)
      l == Len(Bytes(in))
  IN IF n > Total \/ (l = 0 /\ io = NoBuf) THEN NothingDone
     ELSE IF l = 0
     THEN [ret |-> First(io, n), in |-> in, io |-> After(io, n)]
     ELSE IF n <= l
     THEN [ret |-> First(in, n), in |-> After(in, n), io |-> io]
     ELSE [ret |-> in \o First(io, n - l), in |-> NoBuf, io |-> After(io, n - l)]

(* Variant with a fault: what came out of in_buffer still counts.          *)
NextVectoredRecounts(req) ==
  LET n == Wanted(req)
      l == IF n < Len(Bytes(in)) THEN n ELSE Len(Bytes(in))
      rest == IF n < Len(Bytes(io)) THEN n ELSE Len(Bytes(io))
  IN IF n > Total \/ (req.some /\ n = 0) THEN NothingDone
     ELSE [ret |-> First(Bytes(in), l) \o First(Bytes(io), rest),
           in |-> IF l = Len(Bytes(in)) THEN NoBuf ELSE After(in, l),
           io |-> IF io = NoBuf THEN NoBuf ELSE After(io, rest)]

(* next_vectored: one piece of each buffer; here joined.                   *)
NextVectored(req) ==
  LET n == Wanted(req)
      l == IF n < Len(Bytes(in)) THEN n ELSE Len(Bytes(in))
      rest == n - l
  IN IF n > Total \/ (req.some /\ n = 0) THEN NothingDone
     ELSE [ret |-> First(Bytes(in), l) \o First(Bytes(io), rest),
           in |-> IF l = Len(Bytes(in)) THEN NoBuf ELSE After(in, l),
           io |-> IF io = NoBuf THEN NoBuf ELSE After(io, rest)]

(* Variant with a fault: copies n bytes of io_buffer, not the missing n-l. *)
PeekTooFar(req) ==
  LET n == Wanted(req)
      l == Len(Bytes(in))
  IN IF n > Total \/ (l = 0 /\ io = NoBuf) THEN NoBuf
     ELSE IF l = 0 THEN First(io, n)
     ELSE IF n <= l THEN First(in, n)
     ELSE in \o First(io, IF n < Len(io) THEN n ELSE Len(io))

Peek(req) ==
  LET n == Wanted(req)
      l == Len(Bytes(in))
  IN IF n > Total \/ (l = 0 /\ io = NoBuf) THEN NoBuf
     ELSE IF l = 0 THEN First(io, n)
     ELSE IF n <= l THEN First(in, n)
     ELSE in \o First(io, n - l)

(* discard: ret stands for the bytes given up.                             *)
Discard(req) ==
  LET n == Wanted(req)
      l == Len(Bytes(in))
  IN IF n > Total \/ (l = 0 /\ io = NoBuf) THEN NothingDone
     ELSE IF l = 0
     THEN [ret |-> First(io, n), in |-> in, io |-> After(io, n)]
     ELSE IF n <= l
     THEN [ret |-> First(in, n), in |-> IF n = l THEN NoBuf ELSE After(in, n),
           io |-> io]
     ELSE [ret |-> in \o First(io, n - l), in |-> NoBuf, io |-> After(io, n - l)]

(* Read::read into a slice of n bytes; io_buffer is not touched when       *)
(* in_buffer fills the slice.                                              *)
ReadSlice(n) ==
  LET l == IF n < Len(Bytes(in)) THEN n ELSE Len(Bytes(in))
      m == IF n - l < Len(Bytes(io)) THEN n - l ELSE Len(Bytes(io))
  IN [ret |-> First(Bytes(in), l) \o First(Bytes(io), m),
      in |-> IF l = Len(Bytes(in)) THEN NoBuf ELSE After(in, l),
      io |-> IF io = NoBuf THEN NoBuf ELSE After(io, m)]

(* next_message: the codec, which takes a whole message off the front of   *)
(* the buffer it is given or leaves it alone, is given in_buffer.          *)
NextMessage ==
  IF Len(Bytes(in)) < MsgLen THEN NothingDone
  ELSE [ret |-> First(in, MsgLen), in |-> After(in, MsgLen), io |-> io]

Results ==
  {NextContiguous(r) : r \in Requests}
    \cup {NextVectored(r) : r \in Requests}
    \cup {Discard(r) : r \in Requests}
    \cup {ReadSlice(n) : n \in Sizes}
    \cup {NextMessage}

-----------------------------------------------------------------------------
(* process_read: one read of the socket, then on_traffic.                  *)
Receive(n) ==
  /\ stage = "idle"
  /\ rcvd + n <= MaxBytes
  /\ io' = [i \in 1..n |-> rcvd + i]
  /\ rcvd' = rcvd + n
  /\ stage' = "traffic"
  /\ UNCHANGED <<in, eaten>>

(* The handler reads, in on_traffic or in another callback.                *)
Call(res) ==
  /\ res.ret # NoBuf
  /\ in' = res.in
  /\ io' = res.io
  /\ eaten' = eaten \o res.ret
  /\ UNCHANGED <<rcvd, stage>>

(* Variant with a fault: the rest replaces what was already stashed.       *)
StashReplaces ==
  IF Bytes(io) = <<>> THEN in ELSE io

(* What process_read leaves in in_buffer when on_traffic returns None.     *)
Stash ==
  IF Bytes(io) = <<>> THEN in ELSE Bytes(in) \o io

(* on_traffic returns None.                                                *)
TrafficDone ==
  /\ stage = "traffic"
  /\ in' = Stash
  /\ io' = NoBuf
  /\ stage' = "idle"
  /\ UNCHANGED <<rcvd, eaten>>

(* close_connection, from elsewhere or because on_traffic returned Close   *)
(* or Shutdown, which leaves io_buffer where it is.                        *)
CloseConnection ==
  /\ stage \in {"idle", "traffic"}
  /\ stage' = "closing"
  /\ UNCHANGED <<in, io, rcvd, eaten>>

Cleared(b) == IF b = NoBuf THEN NoBuf ELSE <<>>

(* Variant with a fault: io_buffer is not cleared.                         *)
ResetKeepsIo ==
  /\ stage = "closing"
  /\ in' = Cleared(in)
  /\ rcvd' = 0
  /\ eaten' = <<>>
  /\ stage' = "idle"
  /\ UNCHANGED io

(* register takes the Connection from the pool for another socket.         *)
Reset ==
  /\ stage = "closing"
  /\ in' = Cleared(in)
  /\ io' = Cleared(io)
  /\ rcvd' = 0
  /\ eaten' = <<>>
  /\ stage' = "idle"

Next ==
  \/ \E n \in 1..MaxChunk : Receive(n)
  \/ \E res \in Results : Call(res)
  \/ TrafficDone
  \/ CloseConnection
  \/ Reset

Spec == Init /\ [][Next]_vars

(* The handler of examples/json-codec.rs: on_traffic takes messages with   *)
(* next_message until there is none, and calls nothing else.               *)
TakeMessage == stage = "traffic" /\ Call(NextMessage)

CodecTrafficDone == NextMessage.ret = NoBuf /\ TrafficDone

CodecNext ==
  \/ \E n \in 1..MaxChunk : Receive(n)
  \/ TakeMessage
  \/ CodecTrafficDone
  \/ stage = "idle" /\ CloseConnection
  \/ Reset

CodecSpec == Init /\ [][CodecNext]_vars

-----------------------------------------------------------------------------
(* No byte is lost, repeated, reordered or taken over from another socket  *)
(* by any sequence of reading calls, stashes, closes and resets: the bytes *)
(* handed out, then in_buffer, then io_buffer, are the bytes received      *)
(* (connection.rs 94-99, 131-283 and 411-443, event_loop.rs 526-546).      *)
StreamIntact ==
  eaten \o Bytes(in) \o Bytes(io) = [i \in 1..rcvd |-> i]

(* peek shows exactly what next_contiguous would hand out, whichever of    *)
(* the two buffers the bytes are in (connection.rs 131-175 and 213-246).   *)
PeekAgrees == \A r \in Requests : Peek(r) = NextContiguous(r).ret

(* next_vectored hands out the same bytes as next_contiguous, in two       *)
(* pieces instead of one, for every non-empty request (connection.rs       *)
(* 177-211).                                                               *)
VectoredAgrees ==
  \A r \in Requests :
    Wanted(r) > 0 => NextVectored(r).ret = NextContiguous(r).ret

(* What the handler of examples/json-codec.rs relies on: a message that    *)
(* has arrived completely is decoded and echoed before on_traffic ends, so *)
(* less than one message is left over (connection.rs 289-296).             *)
MessagesDecoded == stage = "idle" => Total < MsgLen
=============================================================================
