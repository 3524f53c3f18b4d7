------------------------------ MODULE Mailbox ------------------------------
(***************************************************************************)
(* What the command path promises to those who use it: a thread posts      *)
(* commands, and the loop executes each of them at most once, the urgent   *)
(* ones of a thread in the order they were posted and the others in any    *)
(* order, until the loop ends and drops the rest.  There are no channels,  *)
(* no flag and no eventfd here; CommandQueue implements this.              *)
(***************************************************************************)
EXTENDS Naturals, Sequences

CONSTANTS
  Threads,  \* the threads that post
  Kinds,    \* the kinds of command
  Urgent    \* the kinds of High priority

VARIABLES
  waiting,  \* commands posted and not executed
  done,     \* commands executed, in order
  open      \* the loop is there

vars == <<waiting, done, open>>

Executed == {done[i] : i \in DOMAIN done}

Init ==
  /\ waiting = {}
  /\ done = <<>>
  /\ open = TRUE

(* A command is newer than all its thread has posted before.               *)
Post(c) ==
  /\ open
  /\ c.from \in Threads /\ c.kind \in Kinds
  /\ \A d \in waiting \cup Executed : d.from = c.from => d.n < c.n
  /\ waiting' = waiting \cup {c}
  /\ UNCHANGED <<done, open>>

(* Only an urgent command has to wait its turn, behind older urgent ones.  *)
Due(c) ==
  c.kind \in Urgent =>
    \A d \in waiting :
      d.from = c.from /\ d.kind \in Urgent => c.n <= d.n

Run(c) ==
  /\ c \in waiting
  /\ Due(c)
  /\ done' = Append(done, c)
  /\ IF c.kind = "Shutdown"
     THEN open' = FALSE /\ waiting' = {}
     ELSE UNCHANGED open /\ waiting' = waiting \ {c}

Drop ==
  /\ open' = FALSE
  /\ waiting' = {}
  /\ UNCHANGED done

Next ==
  \/ \E c \in waiting' : Post(c)
  \/ \E c \in waiting : Run(c)
  \/ Drop

Spec == Init /\ [][Next]_vars
=============================================================================
