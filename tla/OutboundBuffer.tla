--------------------------- MODULE OutboundBuffer ---------------------------
(***************************************************************************)
(* The output side of a Connection: the writing calls, which try the       *)
(* socket and keep in out_buffer what it does not take, and the two loops  *)
(* that empty out_buffer, process_write on a writable event and flush on a *)
(* graceful close.  Bytes are numbered in the order the handler writes     *)
(* them; a write of the socket is a step and has any outcome the kernel    *)
(* can give it.                                                            *)
(***************************************************************************)
EXTENDS Naturals, Sequences, SequencesExt

CONSTANTS
  Calls,      \* the lengths of the slices the handler writes in one call
  IoMax,      \* IO_MAX: slices per write_vectored
  MaxBatch,   \* max_batch_size
  MaxBytes,   \* bound of the model: bytes written by the handler
  MaxChunks   \* bound of the model: chunks in out_buffer

ASSUME OutboundBufferAssumption ==
  /\ Calls \subseteq Seq(Nat)
  /\ IoMax \in Nat \ {0}
  /\ MaxBatch \in Nat \ {0}
  /\ MaxBytes \in Nat
  /\ MaxChunks \in Nat

VARIABLES
  out,       \* out_buffer; None and an empty deque behave alike
  wire,      \* what the socket has taken
  taken,     \* number of bytes the writing calls have accepted
  status,    \* open, or why the connection is closed
  pc,        \* idle, or the loop that is emptying out_buffer
  written    \* bytes_written of process_write

vars == <<out, wire, taken, status, pc, written>>

(* Types; bytes_written counts only bytes the socket has taken             *)
(* (event_loop.rs 610).                                                    *)
TypeOK ==
  /\ out \in Seq(Seq(1..MaxBytes))
  /\ wire \in Seq(1..MaxBytes)
  /\ taken \in 0..MaxBytes
  /\ status \in {"open", "error", "zero"}
  /\ pc \in {"idle", "process_write", "flush"}
  /\ written \in 0..Len(wire)

Init ==
  /\ out = <<>>
  /\ wire = <<>>
  /\ taken = 0
  /\ status = "open"
  /\ pc = "idle"
  /\ written = 0

After(b, n) == SubSeq(b, n + 1, Len(b))

(* Number of bytes in the first j slices.                                  *)
Size(bufs, j) == Len(FlattenSeq(SubSeq(bufs, 1, j)))

-----------------------------------------------------------------------------
(* The writing calls.                                                      *)

(* The slices of a call of the given lengths, with the next bytes in them. *)
Slices(lens) ==
  LET end[i \in 0..Len(lens)] == IF i = 0 THEN taken ELSE end[i - 1] + lens[i]
  IN [i \in 1..Len(lens) |-> [b \in 1..lens[i] |-> end[i - 1] + b]]

(* What remains of the slices when the socket took n bytes: slices that    *)
(* are written completely, empty ones too, are left out.                   *)
Remaining(bufs, n) ==
  LET over(i) == IF n > Size(bufs, i - 1) THEN n - Size(bufs, i - 1) ELSE 0
      kept(i) == IF over(i) < Len(bufs[i]) THEN <<After(bufs[i], over(i))>> ELSE <<>>
  IN FlattenSeq([i \in 1..Len(bufs) |-> kept(i)])

(* write_vectored and write_vectored_bytes do nothing with no bytes; a     *)
(* single slice stands for write and write_bytes, which do not look.       *)
EarlyReturn(bufs) == Len(bufs) # 1 /\ FlattenSeq(bufs) = <<>>

Accept(bufs) ==
  /\ status = "open" /\ pc = "idle"
  /\ taken + Len(FlattenSeq(bufs)) <= MaxBytes
  /\ Len(out) + Len(bufs) <= MaxChunks
  /\ taken' = taken + Len(FlattenSeq(bufs))
  /\ UNCHANGED <<status, pc, written>>

(* Behind a backlog the slices are appended as they are.                   *)
WriteQueued(bufs) ==
  /\ Accept(bufs)
  /\ out # <<>> /\ ~EarlyReturn(bufs)
  /\ out' = out \o bufs
  /\ UNCHANGED wire

Direct == out = <<>>

(* The socket takes n bytes of the slices.                                 *)
WriteTaken(bufs, n) ==
  /\ Accept(bufs)
  /\ Direct
  /\ n > 0 \/ FlattenSeq(bufs) = <<>>
  /\ wire' = wire \o SubSeq(FlattenSeq(bufs), 1, n)
  /\ out' = out \o Remaining(bufs, n)

(* WouldBlock or Interrupted: all slices are kept.                         *)
WriteBlocked(bufs) ==
  /\ Accept(bufs)
  /\ out = <<>> /\ FlattenSeq(bufs) # <<>>
  /\ out' = bufs
  /\ UNCHANGED wire

(* Any other error goes to the caller and nothing is kept; the caller may  *)
(* close (AsyncWrite) or not notice (a handler that drops the result).     *)
WriteFails(bufs) ==
  /\ status = "open" /\ pc = "idle"
  /\ out = <<>> /\ FlattenSeq(bufs) # <<>>
  /\ status' = "error"
  /\ UNCHANGED <<out, wire, taken, pc, written>>

-----------------------------------------------------------------------------
(* Emptying out_buffer.                                                    *)

StartLoop ==
  /\ status = "open" /\ pc = "idle"
  /\ out # <<>>
  /\ pc' \in {"process_write", "flush"}
  /\ written' = 0
  /\ UNCHANGED <<out, wire, taken, status>>

EndLoop == pc' = "idle" /\ written' = 0

(* The slices of one write_vectored.                                       *)
Offered == FlattenSeq(SubSeq(out, 1, IF Len(out) < IoMax THEN Len(out) ELSE IoMax))

WithinBatch == pc = "process_write" => written < MaxBatch

Looping == pc # "idle" /\ out # <<>> /\ WithinBatch

(* Variant with a fault: a chunk that is written in part is dropped.       *)
AdvancedWhole(n) ==
  LET j == CHOOSE i \in DOMAIN out :
             Size(out, i) >= n /\ \A h \in 1..(i - 1) : Size(out, h) < n
  IN After(out, j)

(* Pop and advance until n bytes are gone: an empty chunk goes only when   *)
(* bytes behind it have gone.                                              *)
Advanced(n) ==
  LET j == CHOOSE i \in DOMAIN out :
             Size(out, i) >= n /\ \A h \in 1..(i - 1) : Size(out, h) < n
      part == n - Size(out, j - 1)
  IN (IF Size(out, j) = n THEN <<>> ELSE <<After(out[j], part)>>) \o After(out, j)

(* Variant with a fault: counts what was offered, not what was taken.      *)
LoopCountsOffered(n) ==
  /\ Looping
  /\ wire' = wire \o SubSeq(Offered, 1, n)
  /\ out' = Advanced(n)
  /\ written' = IF pc = "process_write" THEN written + Len(Offered) ELSE 0
  /\ UNCHANGED <<taken, status, pc>>

LoopWrites(n) ==
  /\ Looping
  /\ wire' = wire \o SubSeq(Offered, 1, n)
  /\ out' = Advanced(n)
  /\ written' = IF pc = "process_write" THEN written + n ELSE 0
  /\ UNCHANGED <<taken, status, pc>>

(* Only empty slices were offered: write_vectored returns Ok(0), which     *)
(* both loops take for a closed connection.                                *)
LoopZero ==
  /\ Looping /\ Offered = <<>>
  /\ status' = "zero"
  /\ EndLoop
  /\ UNCHANGED <<out, wire, taken>>

LoopFails ==
  /\ Looping /\ Offered # <<>>
  /\ status' = "error"
  /\ EndLoop
  /\ UNCHANGED <<out, wire, taken>>

(* WouldBlock, the batch limit, or nothing left.                           *)
LoopEnds ==
  /\ pc # "idle"
  /\ Looping => Offered # <<>>
  /\ EndLoop
  /\ UNCHANGED <<out, wire, taken, status>>

(* One call of write or write_bytes, with one slice, or of                 *)
(* write_vectored_bytes, with several.                                     *)
Write(bufs) ==
  \/ WriteQueued(bufs)
  \/ \E n \in 0..Len(FlattenSeq(bufs)) : WriteTaken(bufs, n)
  \/ WriteBlocked(bufs)
  \/ WriteFails(bufs)

Next ==
  \/ \E lens \in Calls : Write(Slices(lens))
  \/ StartLoop
  \/ \E n \in 1..Len(Offered) : LoopWrites(n)
  \/ LoopZero
  \/ LoopFails
  \/ LoopEnds

Spec == Init /\ [][Next]_vars

-----------------------------------------------------------------------------
(* What the socket took followed by out_buffer is what the writing calls   *)
(* accepted, in order: no path overtakes a backlog, and no partial write   *)
(* loses, repeats or splits wrongly, over slices of any lengths            *)
(* (connection.rs 313-403, 446-588; event_loop.rs 588-634).                *)
WireInOrder == wire \o FlattenSeq(out) = [i \in 1..taken |-> i]

(* "connection closed" (connection.rs 508-511): the loops conclude from    *)
(* Ok(0) that the connection is closed only if it is.                      *)
ZeroMeansClosed == status # "zero"
=============================================================================
