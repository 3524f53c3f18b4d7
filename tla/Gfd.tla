-------------------------------- MODULE Gfd --------------------------------
(***************************************************************************)
(* Gfd, the name of a connection that outlives it: handlers copy it into   *)
(* closures, and EngineHandler::send_command and process_command find the  *)
(* connection by it much later, when its slab key and its descriptor may   *)
(* have gone to another connection.  The widths of the three fields (8, 24 *)
(* and 32 bits in gfd.rs) are parameters, so that overflow is in reach.    *)
(***************************************************************************)
EXTENDS Naturals, Sequences

CONSTANTS
  N,         \* the number of loops
  Keys,      \* the slab holds keys 0..Keys-1 at most
  Fds,       \* descriptors
  LoopBits,  \* the width of loop_id (u8)
  SlotBits,  \* the width of the slab index (24 bits)
  SeqBits,   \* the width of MONO_SEQ (AtomicU32)
  MaxConns   \* bound of the model: registrations

Loops == 0..(N - 1)
Slots == 0..(Keys - 1)

ASSUME GfdAssumption ==
  /\ N \in Nat \ {0} /\ Keys \in Nat \ {0}
  /\ LoopBits \in Nat /\ SlotBits \in Nat /\ SeqBits \in Nat
  /\ MaxConns \in Nat

(* The number of values of a field; arithmetic the provers have no rule    *)
(* for.                                                                    *)
ASSUME PowersPositive ==
  \A bits \in {LoopBits, SlotBits, SeqBits} : 2 ^ bits \in Nat \ {0}

VARIABLES
  mono,   \* MONO_SEQ
  slab,   \* slab[l][k]: the connection of loop l under key k, by its number
  names,  \* names[c]: the Gfd of the c-th connection registered
  last    \* history: the last AsyncWrite, for whom and to whom

vars == <<mono, slab, names, last>>

None == 0
Registered == DOMAIN names
Live == {slab[l][k] : l \in Loops, k \in Slots} \ {None}

Init ==
  /\ mono = 0
  /\ slab = [l \in Loops |-> [k \in Slots |-> None]]
  /\ names = <<>>
  /\ last = [for |-> None, to |-> None]

-----------------------------------------------------------------------------
(* EventLoop::new is given `loop_id as u8`.                                *)
LoopId(l) == l % 2 ^ LoopBits

Pack(loop_id, token) == loop_id * 2 ^ SlotBits + (token % 2 ^ SlotBits)

New(fd, loop_id, token) ==
  [fd |-> fd, seq |-> mono, index_info |-> Pack(loop_id, token)]

event_loop_index(g) == g.index_info \div 2 ^ SlotBits

(* Variant with a fault: the mask is a bit short.                          *)
SlabIndexShort(g) == g.index_info % 2 ^ (SlotBits - 1)

slab_index(g) == g.index_info % 2 ^ SlotBits

-----------------------------------------------------------------------------
(* The kernel gives a new socket a descriptor no open socket has, the slab *)
(* a key no connection has.                                                *)
FreeFds == Fds \ {names[c].fd : c \in Live}

Register(l, k, fd) ==
  LET c == Len(names) + 1 IN
  /\ c <= MaxConns
  /\ slab[l][k] = None
  /\ fd \in FreeFds
  /\ names' = Append(names, New(fd, LoopId(l), k))
  /\ mono' = (mono + 1) % 2 ^ SeqBits
  /\ slab' = [slab EXCEPT ![l][k] = c]
  /\ UNCHANGED last

Close(l, k) ==
  /\ slab[l][k] # None
  /\ slab' = [slab EXCEPT ![l][k] = None]
  /\ UNCHANGED <<mono, names, last>>

(* Variant with a fault: the sequence number is not looked at.             *)
SameIndex(g, h) == g.fd = h.fd /\ g.index_info = h.index_info

SameGfd(g, h) == g = h

(* Where send_command and process_command take an AsyncWrite for g: the    *)
(* loop and the key are those of the name, the loop must bear the number   *)
(* it was sent to, and the connection found must have the whole name.      *)
Found(g) ==
  LET l == event_loop_index(g)
      k == slab_index(g)
  IN  IF /\ l \in Loops /\ l = LoopId(l)
         /\ k \in Slots /\ slab[l][k] # None
         /\ SameGfd(names[slab[l][k]], g)
      THEN slab[l][k]
      ELSE None

(* A closure that has kept the name of connection c answers.               *)
AsyncWrite(c) ==
  /\ last' = [for |-> c, to |-> Found(names[c])]
  /\ UNCHANGED <<mono, slab, names>>

Next ==
  \/ \E l \in Loops, k \in Slots, fd \in Fds : Register(l, k, fd)
  \/ \E l \in Loops, k \in Slots : Close(l, k)
  \/ \E c \in Registered : AsyncWrite(c)

Spec == Init /\ [][Next]_vars

-----------------------------------------------------------------------------
(* An answer goes to the connection it was meant for or to nobody, however *)
(* often the key and the descriptor were reused, until MONO_SEQ has gone   *)
(* round: two connections are confused only when the distance of their     *)
(* numbers is a multiple of 2^32 (gfd.rs 19-27, event_loop.rs 296-308).    *)
RightConnection ==
  last.to # None =>
    /\ last.for <= last.to
    /\ (last.to - last.for) % 2 ^ SeqBits = 0

(* An answer for a connection that is still open reaches it, if the two    *)
(* fields can name its loop and its slab key, however many loops and keys  *)
(* there are besides (gfd.rs 21-48, engine.rs 94-102).                     *)
AnswerReaches ==
  \A l \in Loops, k \in Slots :
    /\ last.for # None /\ slab[l][k] = last.for
    /\ l < 2 ^ LoopBits /\ k < 2 ^ SlotBits
    => last.to # None
=============================================================================
