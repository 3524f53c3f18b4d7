---------------------------- MODULE EngineProofs ----------------------------
(***************************************************************************)
(* Proofs about Engine, for any number of loops, connections and threads   *)
(* that call shutdown, and any scenes.                                     *)
(***************************************************************************)
EXTENDS Engine, FiniteSetTheorems, TLAPS

-----------------------------------------------------------------------------
(* Arithmetic.                                                             *)

(* A set of natural numbers that is not empty has a least element.         *)
LEMMA LeastNat ==
  ASSUME NEW T \in SUBSET Nat, T # {}
  PROVE  \E x \in T : \A y \in T : x <= y
<1>1. PICK x \in T : \A y \in T : ~(<<y, x>> \in OpToRel(<, Nat))
  BY NatLessThanWellFounded, WFMin, Zenon
<1>2. \A y \in T : ~(y < x)
  BY <1>1 DEF OpToRel
<1> QED
  BY <1>2

(* Quotient and remainder are unique.                                      *)
LEMMA RemainderUnique ==
  ASSUME NEW m \in Nat \ {0}, NEW q \in Nat, NEW r \in 0..(m - 1),
         NEW p \in Nat, NEW s \in 0..(m - 1), m * q + r = m * p + s
  PROVE  r = s
<1>1. CASE q = p
  BY <1>1
<1>2. CASE q < p
  <2>1. p >= q + 1
    BY <1>2
  <2>2. m * p >= m * (q + 1)
    BY <2>1, SMTT(30)
  <2>3. m * (q + 1) = m * q + m
    OBVIOUS
  <2> QED
    BY <2>2, <2>3
<1>3. CASE p < q
  <2>1. q >= p + 1
    BY <1>3
  <2>2. m * q >= m * (p + 1)
    BY <2>1, SMTT(30)
  <2>3. m * (p + 1) = m * p + m
    OBVIOUS
  <2> QED
    BY <2>2, <2>3
<1> QED
  BY <1>1, <1>2, <1>3

(* The remainder of the next number: the rotation of RoundRobin::select.   *)
LEMMA NextRemainder ==
  ASSUME NEW n \in Nat, NEW m \in Nat \ {0}
  PROVE  /\ n % m \in 0..(m - 1)
         /\ (n + 1) % m = IF (n % m) + 1 = m THEN 0 ELSE (n % m) + 1
<1>1. \A k \in Nat : /\ k = m * (k \div m) + (k % m)
                     /\ k \div m \in Nat /\ k % m \in 0..(m - 1)
  BY SMTT(30)
<1>2. n + 1 = m * (n \div m) + ((n % m) + 1)
  BY <1>1
<1>3. n + 1 = m * ((n + 1) \div m) + ((n + 1) % m)
  BY <1>1
<1> DEFINE q == n \div m
           r == n % m
           p == (n + 1) \div m
           s == (n + 1) % m
<1>4. q \in Nat /\ p \in Nat /\ r \in 0..(m - 1) /\ s \in 0..(m - 1)
  BY <1>1
<1>5. n + 1 = m * q + (r + 1) /\ n + 1 = m * p + s
  BY <1>2, <1>3
<1> HIDE DEF q, r, p, s
<1>6. CASE r + 1 = m
  <2>1. m * (q + 1) + 0 = m * p + s
    BY <1>4, <1>5, <1>6
  <2>2. s = 0
    BY <1>4, <2>1, RemainderUnique
  <2> QED
    BY <1>4, <1>6, <2>2 DEF r, s
<1>7. CASE r + 1 # m
  <2>1. r + 1 \in 0..(m - 1)
    BY <1>4, <1>7
  <2>2. s = r + 1
    BY <1>4, <1>5, <2>1, RemainderUnique
  <2> QED
    BY <1>4, <1>7, <2>2 DEF r, s
<1> QED
  BY <1>6, <1>7

-----------------------------------------------------------------------------
(* Types.  conn_count can be counted down without a borrow because it is   *)
(* never less than the number of connections in the slab;                  *)
(* LeastConnections has read at most one count of each loop; and           *)
(* accept_loop has a socket in hand from accept to the send, in a thread   *)
(* that run_user_lb starts once.                                           *)
CountInv ==
  \A i \in Loops :
    IsFiniteSet(conns[i]) /\ Cardinality(conns[i]) <= count[i]

HandInv == acc \in {"select", "send"} <=> hand # None

AcceptorUp ==
  /\ main \in {"bind", "acceptor", "handle", "spawnAcceptor"} => ~ReusePort
  /\ acc # "none" =>
       ~ReusePort /\ main \in {"pool", "join", "stopPool", "ok", "panicked"}

TypeInv == TypeOK /\ CountInv /\ HandInv /\ AcceptorUp /\ Len(scan) <= N

(* Rotation and LeastOf select a loop, if there is one.                    *)
LEMMA SelectedLoop ==
  /\ \A n \in Nat : Rotation(n) \in Nat /\ (N > 0 => Rotation(n) \in Loops)
  /\ \A counts \in Seq(Nat) : Len(counts) = N =>
       /\ LeastOf(counts) \in Nat
       /\ N > 0 => /\ LeastOf(counts) \in Loops
                   /\ \A j \in Loops :
                        counts[LeastOf(counts) + 1] <= counts[j + 1]
<1>1. ASSUME NEW n \in Nat
      PROVE  Rotation(n) \in Nat /\ (N > 0 => Rotation(n) \in Loops)
  BY EngineAssumption, NextRemainder DEF Rotation, Loops
<1>2. ASSUME NEW counts \in Seq(Nat), Len(counts) = N, N > 0
      PROVE  /\ LeastOf(counts) \in Loops
             /\ \A j \in Loops : counts[LeastOf(counts) + 1] <= counts[j + 1]
  <2> DEFINE V == {counts[i + 1] : i \in Loops}
             S == {i \in Loops : \A j \in Loops : counts[i + 1] <= counts[j + 1]}
  <2>1. \A i \in Loops : counts[i + 1] \in Nat
    BY <1>2, EngineAssumption DEF Loops
  <2>2. 0 \in Loops /\ Loops \subseteq Nat
    BY <1>2, EngineAssumption DEF Loops
  <2>3. V \in SUBSET Nat /\ V # {}
    BY <2>1, <2>2
  <2>4. PICK least \in V : \A y \in V : least <= y
    BY <2>3, LeastNat
  <2>5. S # {} /\ S \in SUBSET Nat
    <3>1. PICK i \in Loops : counts[i + 1] = least
      BY <2>4
    <3>2. \A j \in Loops : counts[i + 1] <= counts[j + 1]
      BY <2>4, <3>1
    <3> QED
      BY <2>2, <3>2
  <2>6. \E x \in S : \A y \in S : x <= y
    BY <2>5, LeastNat
  <2>7. LeastOf(counts) = CHOOSE x \in S : \A y \in S : x <= y
    BY <1>2, EngineAssumption DEF LeastOf, Min
  <2>8. LeastOf(counts) \in S
    BY <2>6, <2>7
  <2> QED
    BY <2>8
<1>3. ASSUME NEW counts \in Seq(Nat), Len(counts) = N
      PROVE  LeastOf(counts) \in Nat
  <2>1. CASE N = 0
    BY <2>1 DEF LeastOf
  <2>2. CASE N # 0
    BY <1>2, <1>3, <2>2, EngineAssumption DEF Loops
  <2> QED
    BY <2>1, <2>2
<1> QED
  BY <1>1, <1>2, <1>3

(* What a step leaves alone keeps its type.                                *)
LEMMA TypeFrame ==
  ASSUME TypeOK
  PROVE  /\ UNCHANGED scene => scene' \in Scenes
         /\ UNCHANGED control => ControlOK'
         /\ UNCHANGED loops => LoopsOK'
         /\ UNCHANGED balancer => BalancerOK'
         /\ UNCHANGED acceptor => AcceptorOK'
         /\ UNCHANGED kernel => KernelOK'
         /\ UNCHANGED callers => CallersOK'
         /\ UNCHANGED history => HistoryOK'
         /\ UNCHANGED <<conns, count>> => (CountInv => CountInv')
<1>1. UNCHANGED loops => LoopsOK'
  BY DEF TypeOK, loops, LoopsOK
<1>2. UNCHANGED control => ControlOK'
  BY DEF TypeOK, control, ControlOK
<1>3. UNCHANGED balancer => BalancerOK'
  BY DEF TypeOK, balancer, BalancerOK
<1>4. UNCHANGED acceptor => AcceptorOK'
  BY DEF TypeOK, acceptor, AcceptorOK
<1>5. UNCHANGED kernel => KernelOK'
  BY DEF TypeOK, kernel, KernelOK
<1>6. UNCHANGED callers => CallersOK'
  BY DEF TypeOK, callers, CallersOK
<1>7. UNCHANGED history => HistoryOK'
  BY DEF TypeOK, history, HistoryOK
<1> QED
  BY <1>1, <1>2, <1>3, <1>4, <1>5, <1>6, <1>7 DEF TypeOK, CountInv

(* The initial state is well typed.                                        *)
LEMMA TypeInit == Init => TypeInv
<1> SUFFICES ASSUME Init
             PROVE  TypeInv
  OBVIOUS
<1> USE EngineAssumption DEF Init
<1>1. <<>> \in Seq(Conns \cup {"Shutdown"}) /\ <<>> \in Seq(Nat) /\ Len(<<>>) = 0
  OBVIOUS
<1>2. scene.peers \subseteq Conns
  OBVIOUS
<1>3. ControlOK /\ LoopsOK /\ BalancerOK
  BY <1>1 DEF ControlOK, LoopsOK, BalancerOK
<1>4. AcceptorOK /\ KernelOK /\ CallersOK /\ HistoryOK
  <2>1. AcceptorOK /\ HistoryOK
    BY DEF AcceptorOK, HistoryOK
  <2>2. KernelOK
    BY <1>2 DEF KernelOK
  <2>3. CallersOK
    BY DEF CallersOK
  <2> QED
    BY <2>1, <2>2, <2>3
<1>5. CountInv /\ HandInv /\ AcceptorUp
  BY FS_EmptySet DEF CountInv, HandInv, AcceptorUp
<1> QED
  BY <1>1, <1>3, <1>4, <1>5 DEF TypeOK, TypeInv

(* The main thread keeps the types.                                        *)
LEMMA TypeMain ==
  ASSUME TypeInv, Build \/ StartFails \/ MainStep
  PROVE  TypeInv'
<1>1. /\ UNCHANGED <<scene, queue, conns, count, balancer, callers, history>>
      /\ UNCHANGED <<events, hand, running, awoken, edge, fresh>>
  BY DEF Build, StartFails, MainStep, Bind, MakeLoop, LoopsMade, SetWorkers,
    NewAcceptor, SetAcceptor, SpawnAcceptor, NewPool, SpawnLoop, LoopsSpawned,
    JoinThread, JoinPanicked, AllJoined, StopPool, loops, acceptor, kernel
<1>2. /\ scene' \in Scenes /\ BalancerOK' /\ CallersOK' /\ HistoryOK'
      /\ CountInv' /\ (Len(scan) <= N)'
  BY <1>1, TypeFrame DEF TypeInv, balancer
<1> SUFFICES /\ ControlOK' /\ LoopsOK' /\ AcceptorOK' /\ KernelOK'
             /\ HandInv' /\ AcceptorUp'
  BY <1>2 DEF TypeInv, TypeOK
<1>3. ControlOK'
  <2>0. N \in Nat /\ ControlOK
    BY EngineAssumption DEF TypeInv, TypeOK
  <2> USE <2>0 DEF ControlOK, Main, control
  <2>1. CASE Build \/ StartFails \/ Bind \/ MakeLoop \/ LoopsMade
    BY <2>1 DEF Build, StartFails, Bind, MakeLoop, LoopsMade
  <2>2. CASE SetWorkers \/ NewAcceptor \/ SetAcceptor \/ SpawnAcceptor
    BY <2>2 DEF SetWorkers, NewAcceptor, SetAcceptor, SpawnAcceptor
  <2>3. CASE NewPool \/ StopPool
    BY <2>3 DEF NewPool, StopPool
  <2>4. CASE SpawnLoop
    BY <2>4 DEF SpawnLoop
  <2>5. CASE LoopsSpawned
    BY <2>5 DEF LoopsSpawned
  <2>6. CASE JoinThread
    <3>1. step' \in 0..(N + 1)
      BY <2>6 DEF JoinThread, ThreadsToJoin
    <3> QED
      BY <2>6, <3>1 DEF JoinThread
  <2>7. CASE JoinPanicked \/ AllJoined
    BY <2>7 DEF JoinPanicked, AllJoined
  <2> QED
    BY <2>1, <2>2, <2>3, <2>4, <2>5, <2>6, <2>7 DEF MainStep
<1>4. LoopsOK' /\ KernelOK'
  <2> USE <1>1 DEF LoopsOK, KernelOK, TypeInv, TypeOK
  <2>1. CASE StartFails
    BY <2>1 DEF StartFails
  <2>2. CASE MakeLoop
    <3>1. step \in Loops
      BY <2>2, EngineAssumption DEF MakeLoop, ControlOK, Loops
    <3> QED
      BY <2>2, <3>1 DEF MakeLoop, MadeLoop
  <2>3. CASE SpawnLoop
    BY <2>3 DEF SpawnLoop, kernel
  <2>4. CASE Bind
    BY <2>4 DEF Bind, loops
  <2>5. CASE UNCHANGED <<loops, kernel>>
    BY <2>5, TypeFrame
  <2> QED
    BY <2>1, <2>2, <2>3, <2>4, <2>5 DEF MainStep, Build, LoopsMade, SetWorkers,
      NewAcceptor, SetAcceptor, SpawnAcceptor, NewPool, LoopsSpawned,
      JoinThread, JoinPanicked, AllJoined, StopPool
<1>5. AcceptorOK' /\ HandInv'
  <2>1. CASE SpawnAcceptor
    <3>1. AcceptorOK'
      BY <1>1, <2>1 DEF SpawnAcceptor, AcceptorOK, TypeInv, TypeOK
    <3>2. acc = "none"
      BY <2>1 DEF SpawnAcceptor, Main, TypeInv, AcceptorUp
    <3> QED
      BY <1>1, <2>1, <3>1, <3>2 DEF SpawnAcceptor, HandInv, TypeInv
  <2>2. CASE UNCHANGED acceptor
    BY <2>2, TypeFrame DEF TypeInv, HandInv, acceptor
  <2> QED
    BY <2>1, <2>2 DEF MainStep, Build, StartFails, Bind, MakeLoop, LoopsMade,
      SetWorkers, NewAcceptor, SetAcceptor, NewPool, SpawnLoop, LoopsSpawned,
      JoinThread, JoinPanicked, AllJoined, StopPool
<1>6. AcceptorUp'
  <2> USE DEF AcceptorUp, TypeInv, Main, acceptor, ReusePort
  <2>1. CASE Build \/ StartFails \/ Bind \/ MakeLoop \/ LoopsMade \/ SetWorkers
    BY <1>1, <2>1 DEF Build, StartFails, Bind, MakeLoop, LoopsMade, SetWorkers
  <2>2. CASE NewAcceptor \/ SetAcceptor
    BY <1>1, <2>2 DEF NewAcceptor, SetAcceptor
  <2>3. CASE SpawnAcceptor
    BY <1>1, <2>3 DEF SpawnAcceptor
  <2>4. CASE NewPool \/ StopPool \/ SpawnLoop \/ LoopsSpawned
    BY <1>1, <2>4 DEF NewPool, StopPool, SpawnLoop, LoopsSpawned
  <2>5. CASE JoinThread \/ JoinPanicked \/ AllJoined
    BY <1>1, <2>5 DEF JoinThread, JoinPanicked, AllJoined
  <2> QED
    BY <2>1, <2>2, <2>3, <2>4, <2>5 DEF MainStep
<1> QED
  BY <1>3, <1>4, <1>5, <1>6

(* The elements of a channel with one command more, and without the first. *)
LEMMA AppendElements ==
  ASSUME NEW S, NEW q \in Seq(S), NEW e \in S
  PROVE  /\ Append(q, e) \in Seq(S) /\ Len(Append(q, e)) = Len(q) + 1
         /\ DOMAIN q = 1..Len(q) /\ Len(q) \in Nat
         /\ DOMAIN Append(q, e) = 1..(Len(q) + 1)
         /\ \A i \in 1..Len(q) : Append(q, e)[i] = q[i]
         /\ Append(q, e)[Len(q) + 1] = e
  OBVIOUS

(* The elements of a channel without the first.                            *)
LEMMA TailElements ==
  ASSUME NEW S, NEW q \in Seq(S), q # <<>>
  PROVE  /\ Tail(q) \in Seq(S) /\ Len(Tail(q)) = Len(q) - 1
         /\ DOMAIN q = 1..Len(q) /\ Len(q) \in Nat \ {0}
         /\ 1 \in DOMAIN q /\ Head(q) = q[1] /\ Head(q) \in S
         /\ DOMAIN Tail(q) = 1..(Len(q) - 1)
         /\ \A i \in DOMAIN Tail(q) : i + 1 \in DOMAIN q /\ Tail(q)[i] = q[i + 1]
  OBVIOUS

(* What the engine sees of one loop.                                       *)
LoopDoes(i) ==
  \/ LoopStep(i) \/ LoopAction(i) \/ LoopFails(i) \/ LoopPanics(i)
  \/ LoopClose(i) \/ LoopSubmit(i) \/ LoopAcceptFails(i)

(* Where a loop enters accept_process and leaves it.                       *)
LoopTurns(i) == LoopListener(i) \/ LoopWouldBlock(i) \/ LoopAcceptFails(i)

(* A loop keeps the types: conn_count follows the slab up and down.        *)
LEMMA TypeLoop ==
  ASSUME TypeInv, NEW i \in Loops, LoopDoes(i)
  PROVE  TypeInv'
<1> DEFINE Commands == Conns \cup {"Shutdown"}
<1>1. /\ loop[i] \in {"none", "made", "running", "stopped", "panicked"}
      /\ queue[i] \in Seq(Commands) /\ conns[i] \subseteq Conns
      /\ count[i] \in Nat /\ backlog[i] \subseteq Conns
      /\ IsFiniteSet(conns[i]) /\ Cardinality(conns[i]) <= count[i]
      /\ Cardinality(conns[i]) \in Nat
  BY FS_CardinalityType DEF TypeInv, TypeOK, LoopsOK, KernelOK, CountInv
<1>2. /\ UNCHANGED <<scene, control, balancer, acceptor, callers>>
      /\ UNCHANGED <<fresh, heard>>
  BY DEF LoopDoes, LoopStep, LoopAction, LoopFails, LoopPanics, LoopClose,
    LoopSubmit, LoopRegister, LoopShutdown, LoopAccept, LoopListener,
    LoopWouldBlock, LoopAcceptFails, LoopEnds, kernel, history
<1>3. /\ scene' \in Scenes /\ ControlOK' /\ BalancerOK' /\ AcceptorOK'
      /\ CallersOK' /\ (Len(scan) <= N)' /\ HandInv' /\ AcceptorUp'
  BY <1>2, TypeFrame DEF TypeInv, balancer, HandInv, AcceptorUp, ReusePort,
    control, acceptor
<1> SUFFICES LoopsOK' /\ KernelOK' /\ HistoryOK' /\ CountInv'
  BY <1>3 DEF TypeInv, TypeOK
<1>4. LoopsOK /\ KernelOK /\ HistoryOK /\ CountInv
  BY DEF TypeInv, TypeOK
<1>5. ASSUME NEW how \in {"stopped", "panicked"}, NEW left \in Nat,
             LoopEnds(i, how, left)
      PROVE  LoopsOK' /\ KernelOK' /\ HistoryOK' /\ CountInv'
  <2>1. LoopsOK'
    BY <1>4, <1>5 DEF LoopEnds, LoopsOK
  <2>2. KernelOK' /\ HistoryOK'
    BY <1>2, <1>4, <1>5 DEF LoopEnds, KernelOK, HistoryOK
  <2>3. CountInv'
    BY <1>1, <1>4, <1>5, FS_EmptySet DEF LoopEnds, CountInv, LoopsOK
  <2> QED
    BY <2>1, <2>2, <2>3
<1>6. ASSUME NEW c \in Conns, conns' = [conns EXCEPT ![i] = @ \cup {c}],
             count' = [count EXCEPT ![i] = @ + 1]
      PROVE  CountInv' /\ conns' \in [Loops -> SUBSET Conns]
             /\ count' \in [Loops -> Nat]
  <2>1. /\ IsFiniteSet(conns[i] \cup {c})
        /\ Cardinality(conns[i] \cup {c}) \in Nat
        /\ Cardinality(conns[i] \cup {c}) <= Cardinality(conns[i]) + 1
    <3>1. /\ IsFiniteSet(conns[i] \cup {c})
          /\ Cardinality(conns[i] \cup {c}) =
               IF c \in conns[i] THEN Cardinality(conns[i])
                                 ELSE Cardinality(conns[i]) + 1
      BY <1>1, FS_AddElement
    <3> QED
      BY <1>1, <3>1
  <2> QED
    BY <1>1, <1>4, <1>6, <2>1 DEF CountInv, LoopsOK
<1>7. CASE LoopRegister(i)
  <2>1. Head(queue[i]) \in Conns /\ Tail(queue[i]) \in Seq(Commands)
    BY <1>1, <1>7, TailElements DEF LoopRegister
  <2>2. CountInv' /\ LoopsOK'
    BY <1>4, <1>6, <1>7, <2>1 DEF LoopRegister, LoopsOK
  <2> QED
    BY <1>7, <2>2, TypeFrame DEF LoopRegister, TypeInv
<1>8. CASE LoopShutdown(i) \/ LoopAction(i) \/ LoopFails(i) \/ LoopPanics(i)
  <2>1. \E how \in {"stopped", "panicked"}, left \in Nat : LoopEnds(i, how, left)
    BY <1>1, <1>8 DEF LoopShutdown, LoopAction, LoopFails, LoopPanics
  <2> QED
    BY <1>5, <2>1
<1>9. CASE LoopAccept(i)
  <2>1. PICK c \in Conns : /\ backlog' = [backlog EXCEPT ![i] = @ \ {c}]
                           /\ conns' = [conns EXCEPT ![i] = @ \cup {c}]
    BY <1>1, <1>9 DEF LoopAccept
  <2>2. CountInv' /\ LoopsOK'
    BY <1>4, <1>6, <1>9, <2>1 DEF LoopAccept, LoopsOK
  <2>3. KernelOK'
    BY <1>4, <1>9, <2>1 DEF LoopAccept, KernelOK
  <2> QED
    BY <1>9, <2>2, <2>3, TypeFrame DEF LoopAccept, TypeInv
<1>10. CASE LoopClose(i)
  <2>1. PICK c \in conns[i] : conns' = [conns EXCEPT ![i] = @ \ {c}]
    BY <1>10 DEF LoopClose
  <2>2. /\ count' = [count EXCEPT ![i] = @ - 1]
        /\ UNCHANGED <<loop, queue, accepting>>
    BY <1>10 DEF LoopClose
  <2>3. Cardinality(conns[i]) # 0
    BY <1>1, <2>1, FS_EmptySet
  <2>4. /\ IsFiniteSet(conns[i] \ {c})
        /\ Cardinality(conns[i] \ {c}) = Cardinality(conns[i]) - 1
    BY <1>1, <2>1, FS_RemoveElement
  <2>5. CountInv' /\ LoopsOK'
    BY <1>1, <1>4, <2>1, <2>2, <2>3, <2>4 DEF CountInv, LoopsOK
  <2>6. HistoryOK'
    BY <1>4, <1>10 DEF LoopClose, HistoryOK
  <2> QED
    BY <1>10, <2>5, <2>6, TypeFrame DEF LoopClose, TypeInv
<1>11. CASE LoopSubmit(i)
  <2>1. UNCHANGED <<loops, kernel, heard, refused, calm>>
    BY <1>11 DEF LoopSubmit
  <2>2. missed' \subseteq {"early", "late"}
    BY <1>4, <1>11 DEF LoopSubmit, HistoryOK, TypeInv, TypeOK, ControlOK
  <2>3. HistoryOK'
    BY <1>4, <2>1, <2>2 DEF HistoryOK
  <2> QED
    BY <2>1, <2>3, TypeFrame DEF loops, TypeInv
<1>12. CASE LoopTurns(i)
  <2> USE DEF LoopTurns, LoopListener, LoopWouldBlock, LoopAcceptFails
  <2>1. UNCHANGED <<loop, queue, conns, count, fresh, listening, backlog>>
    BY <1>12 DEF kernel
  <2>2. CountInv'
    BY <2>1, TypeFrame DEF TypeInv
  <2>3. LoopsOK'
    BY <1>4, <1>12, <2>1 DEF LoopsOK
  <2>4. KernelOK'
    BY <1>4, <1>12, <2>1 DEF KernelOK, kernel
  <2>5. HistoryOK'
    BY <1>4, <1>12 DEF HistoryOK, history
  <2> QED
    BY <2>2, <2>3, <2>4, <2>5
<1> QED
  BY <1>7, <1>8, <1>9, <1>10, <1>11, <1>12 DEF LoopDoes, LoopStep, LoopTurns

(* A peer that connects, and a thread in shutdown, keep the types.         *)
LEMMA TypeOutside ==
  ASSUME TypeInv,
         \/ \E c \in Conns : Connect(c)
         \/ \E c \in Callers : CallShutdown(c) \/ CallerStep(c)
  PROVE  TypeInv'
<1>1. UNCHANGED <<scene, control, loop, conns, count, balancer, acc, events,
                  hand, missed, refused, calm>>
  BY DEF Connect, CallShutdown, CallerStep, ClearRunning, SwapAwoken,
    WriteEventfd, ReadWorkers, SendShutdown, ShutdownSent, loops, acceptor,
    history
<1>2. /\ scene' \in Scenes /\ ControlOK' /\ BalancerOK' /\ CountInv'
      /\ (Len(scan) <= N)' /\ HandInv' /\ AcceptorUp'
  BY <1>1, TypeFrame DEF TypeInv, balancer, HandInv, AcceptorUp, ReusePort,
    control
<1> SUFFICES LoopsOK' /\ AcceptorOK' /\ KernelOK' /\ CallersOK' /\ HistoryOK'
  BY <1>2 DEF TypeInv, TypeOK
<1>3. /\ TypeOK /\ LoopsOK /\ AcceptorOK /\ KernelOK /\ CallersOK /\ HistoryOK
      /\ N \in Nat
  BY EngineAssumption DEF TypeInv, TypeOK
<1>4. ASSUME NEW c \in Conns, Connect(c)
      PROVE  LoopsOK' /\ AcceptorOK' /\ KernelOK' /\ CallersOK' /\ HistoryOK'
  <2>1. PICK o \in listening :
          /\ backlog' = [backlog EXCEPT ![o] = @ \cup {c}]
          /\ edge' = IF o = Acceptor THEN edge \cup {"listener"} ELSE edge
          /\ ready' = IF o = Acceptor THEN ready ELSE ready \cup {o}
    BY <1>4 DEF Connect
  <2>2. KernelOK'
    BY <1>3, <1>4, <2>1 DEF Connect, KernelOK
  <2>3. AcceptorOK'
    BY <1>3, <1>4, <2>1 DEF Connect, AcceptorOK
  <2> QED
    BY <1>3, <1>4, <2>2, <2>3, TypeFrame DEF Connect
<1>5. ASSUME NEW c \in Callers, CallShutdown(c)
      PROVE  LoopsOK' /\ AcceptorOK' /\ KernelOK' /\ CallersOK' /\ HistoryOK'
  <2>1. CallersOK'
    BY <1>3, <1>5 DEF CallShutdown, CallersOK, Call, WithoutAcceptor
  <2>2. Ready \in BOOLEAN
    BY DEF Ready
  <2>3. heard' \in BOOLEAN
    BY <1>3, <1>5, <2>2, Zenon DEF CallShutdown, HistoryOK
  <2>4. HistoryOK'
    BY <1>1, <1>3, <2>3 DEF HistoryOK
  <2> QED
    BY <1>3, <1>5, <2>1, <2>4, TypeFrame DEF CallShutdown
<1>6. ASSUME NEW c \in Callers, CallerStep(c), ~SendShutdown(c)
      PROVE  LoopsOK' /\ AcceptorOK' /\ KernelOK' /\ CallersOK' /\ HistoryOK'
  <2> USE DEF CallerStep, ClearRunning, SwapAwoken, WriteEventfd, ReadWorkers,
        ShutdownSent
  <2>1. CallersOK'
    BY <1>3, <1>6 DEF CallersOK, Call, AfterFlag
  <2>2. AcceptorOK'
    BY <1>3, <1>6 DEF AcceptorOK, acceptor
  <2>3. UNCHANGED <<loops, kernel, history>>
    BY <1>6
  <2> QED
    BY <1>3, <2>1, <2>2, <2>3, TypeFrame
<1>7. ASSUME NEW c \in Callers, SendShutdown(c)
      PROVE  LoopsOK' /\ AcceptorOK' /\ KernelOK' /\ CallersOK' /\ HistoryOK'
  <2>1. told[c] \in Loops
    BY <1>3, <1>7 DEF SendShutdown, CallersOK, Loops
  <2>2. Append(queue[told[c]], "Shutdown") \in Seq(Conns \cup {"Shutdown"})
    BY <1>3, <2>1, AppendElements DEF LoopsOK
  <2>3. LoopsOK'
    BY <1>3, <1>7, <2>1, <2>2 DEF SendShutdown, LoopsOK
  <2>4. CallersOK'
    BY <1>3, <1>7 DEF SendShutdown, CallersOK
  <2> QED
    BY <1>3, <1>7, <2>3, <2>4, TypeFrame DEF SendShutdown
<1> QED
  BY <1>4, <1>5, <1>6, <1>7

(* The acceptor keeps the types.                                           *)
LEMMA TypeAcceptor ==
  ASSUME TypeInv,
         AcceptorStep \/ AcceptorInterrupted \/ AcceptorFails \/ AcceptFails
  PROVE  TypeInv'
<1>1. UNCHANGED <<scene, control, loop, conns, count, fresh, callers, running,
                  missed, heard>>
  BY DEF AcceptorStep, AcceptorInterrupted, AcceptorFails, AcceptFails,
    AcceptorCheck, AcceptorPoll, AcceptorWake, AcceptorListener,
    AcceptorBatchDone, Accept, AcceptWouldBlock, SelectRoundRobin, ReadCount,
    SelectLeast, HandOver, AcceptorEnds, loops, acceptor, kernel, history
<1>2. scene' \in Scenes /\ ControlOK' /\ CallersOK' /\ CountInv' /\ AcceptorUp'
  <2>1. acc # "none"
    BY DEF AcceptorStep, AcceptorInterrupted, AcceptorFails, AcceptFails,
      AcceptorCheck, AcceptorPoll, AcceptorWake, AcceptorListener,
      AcceptorBatchDone, Accept, AcceptWouldBlock, SelectRoundRobin, ReadCount,
      SelectLeast, HandOver
  <2> QED
    BY <1>1, <2>1, TypeFrame DEF TypeInv, AcceptorUp, ReusePort, control
<1>3. /\ TypeOK /\ LoopsOK /\ BalancerOK /\ AcceptorOK /\ KernelOK /\ HistoryOK
      /\ N \in Nat /\ None \notin Conns /\ Len(scan) <= N /\ HandInv
  BY EngineAssumption DEF TypeInv, TypeOK
<1> DEFINE Goal ==
      LoopsOK' /\ BalancerOK' /\ AcceptorOK' /\ KernelOK' /\ HistoryOK'
        /\ Len(scan') <= N /\ HandInv'
<1> SUFFICES Goal
  BY <1>2 DEF TypeInv, TypeOK
<1>4. CASE AcceptorCheck \/ AcceptorWake \/ AcceptorFails
  <2> USE DEF AcceptorCheck, AcceptorWake, AcceptorFails, AcceptorEnds
  <2>1. UNCHANGED <<loops, balancer, history>>
    BY <1>4
  <2>2. AcceptorOK'
    BY <1>1, <1>3, <1>4 DEF AcceptorOK
  <2>4. HandInv'
    BY <1>3, <1>4 DEF HandInv
  <2>3. KernelOK'
    BY <1>3, <1>4 DEF KernelOK, kernel
  <2> QED
    BY <1>3, <2>1, <2>2, <2>3, <2>4, TypeFrame DEF balancer
<1>5. CASE \/ AcceptorPoll \/ AcceptorInterrupted \/ AcceptorListener
           \/ AcceptorBatchDone \/ AcceptWouldBlock \/ AcceptFails
  <2> USE DEF AcceptorPoll, AcceptorInterrupted, AcceptorListener,
        AcceptorBatchDone, AcceptWouldBlock, AcceptFails
  <2>1. UNCHANGED <<loops, balancer, kernel>>
    BY <1>5
  <2>2. AcceptorOK'
    BY <1>1, <1>3, <1>5 DEF AcceptorOK
  <2>3. HistoryOK'
    BY <1>1, <1>3, <1>5 DEF HistoryOK, history
  <2>4. HandInv'
    BY <1>3, <1>5 DEF HandInv
  <2> QED
    BY <1>3, <2>1, <2>2, <2>3, <2>4, TypeFrame DEF balancer
<1>6. CASE Accept
  <2>1. PICK c \in Conns : /\ backlog' = [backlog EXCEPT ![Acceptor] = @ \ {c}]
                           /\ hand' = c
    BY <1>3, <1>6 DEF Accept, KernelOK
  <2>2. AcceptorOK' /\ HandInv'
    BY <1>3, <1>6, <2>1 DEF Accept, AcceptorOK, HandInv
  <2>3. KernelOK'
    BY <1>3, <1>6, <2>1 DEF Accept, KernelOK
  <2> QED
    BY <1>3, <1>6, <2>2, <2>3, TypeFrame DEF Accept, balancer
<1>7. ASSUME NEW i \in Nat, acc = "select", Selected(i),
             UNCHANGED <<events, hand, awoken, edge>>
      PROVE  AcceptorOK' /\ HandInv' /\ target' \in Nat /\ given' \in [Loops -> Nat]
  <2>1. AcceptorOK' /\ HandInv'
    BY <1>1, <1>3, <1>7 DEF Selected, AcceptorOK, HandInv
  <2>2. /\ target' = i /\ given' = [given EXCEPT ![i] = @ + 1]
        /\ given \in [Loops -> Nat]
    BY <1>3, <1>7 DEF Selected, BalancerOK
  <2>3. CASE i \in Loops
    BY <2>1, <2>2, <2>3
  <2>4. CASE i \notin Loops
    <3>1. given' = given
      BY <2>2, <2>4
    <3> QED
      BY <2>1, <2>2, <3>1
  <2> QED
    BY <2>3, <2>4
<1>8. CASE SelectRoundRobin
  <2>1. AcceptorOK' /\ HandInv' /\ target' \in Nat /\ given' \in [Loops -> Nat]
    BY <1>3, <1>7, <1>8, SelectedLoop DEF SelectRoundRobin, BalancerOK
  <2>2. BalancerOK' /\ Len(scan') <= N
    BY <1>3, <1>8, <2>1 DEF SelectRoundRobin, BalancerOK
  <2> QED
    BY <1>3, <1>8, <2>1, <2>2, TypeFrame DEF SelectRoundRobin
<1>9. CASE SelectLeast
  <2>1. AcceptorOK' /\ HandInv' /\ target' \in Nat /\ given' \in [Loops -> Nat]
    BY <1>3, <1>7, <1>9, SelectedLoop DEF SelectLeast, BalancerOK
  <2>2. scan' \in Seq(Nat) /\ Len(scan') <= N
    BY <1>3, <1>9 DEF SelectLeast
  <2>3. BalancerOK'
    BY <1>3, <1>9, <2>1, <2>2 DEF SelectLeast, BalancerOK
  <2> QED
    BY <1>3, <1>9, <2>1, <2>2, <2>3, TypeFrame DEF SelectLeast
<1>10. CASE ReadCount
  <2>1. Len(scan) \in Nat /\ Len(scan) < N /\ scan' = Append(scan, count[Len(scan)])
    BY <1>3, <1>10 DEF ReadCount, BalancerOK
  <2>2. count[Len(scan)] \in Nat
    BY <1>3, <2>1 DEF LoopsOK, Loops
  <2>3. scan' \in Seq(Nat) /\ Len(scan') <= N
    BY <1>3, <2>1, <2>2, AppendElements DEF BalancerOK
  <2>4. BalancerOK'
    BY <1>3, <1>10, <2>3 DEF ReadCount, BalancerOK
  <2>5. calm' \in BOOLEAN
    BY <1>3, <1>10, Zenon DEF ReadCount, HistoryOK
  <2>6. HistoryOK'
    BY <1>3, <1>10, <2>5 DEF ReadCount, HistoryOK
  <2> QED
    BY <1>3, <1>10, <2>3, <2>4, <2>6, TypeFrame DEF ReadCount, HandInv, acceptor
<1>11. CASE HandOver
  <2>1. hand \in Conns /\ hand' = None /\ acc' = "accept"
    BY <1>3, <1>11 DEF HandOver, AfterSocket, HandInv, AcceptorOK
  <2>2. AcceptorOK' /\ HandInv'
    BY <1>3, <1>11, <2>1 DEF HandOver, AcceptorOK, HandInv
  <2>3. target \in Loops =>
          Append(queue[target], hand) \in Seq(Conns \cup {"Shutdown"})
    BY <1>3, <2>1, AppendElements DEF LoopsOK
  <2>4. LoopsOK'
    BY <1>3, <1>11, <2>3 DEF HandOver, LoopsOK
  <2> QED
    BY <1>3, <1>11, <2>2, <2>4, TypeFrame DEF HandOver, balancer
<1> QED
  BY <1>4, <1>5, <1>6, <1>8, <1>9, <1>10, <1>11 DEF AcceptorStep

(* Every step keeps the types.                                             *)
LEMMA TypeStep == TypeInv /\ [Next]_vars => TypeInv'
<1> SUFFICES ASSUME TypeInv, [Next]_vars
             PROVE  TypeInv'
  OBVIOUS
<1>1. CASE UNCHANGED vars
  <2>1. UNCHANGED <<scene, control, loops, balancer, acceptor, kernel, callers,
                    history>>
    BY <1>1 DEF vars
  <2>2. TypeOK' /\ CountInv'
    BY <2>1, TypeFrame DEF TypeInv, TypeOK, loops
  <2> QED
    BY <2>1, <2>2 DEF TypeInv, HandInv, AcceptorUp, ReusePort, control, balancer,
      acceptor
<1>2. CASE \E i \in Loops : LoopDoes(i)
  BY <1>2, TypeLoop
<1> QED
  BY <1>1, <1>2, TypeMain, TypeOutside, TypeAcceptor DEF Next, LoopDoes

(* Every variable keeps its type: in particular conn_count is never        *)
(* counted below zero (event_loop.rs 380-398), main's loop counter stays   *)
(* within the threads, the balancer always selects a loop that exists and  *)
(* no command reaches a channel out of nothing.                            *)
THEOREM TypeCorrect == Spec => []TypeOK
<1>1. Spec => []TypeInv
  BY TypeInit, TypeStep, PTL DEF Spec
<1>2. TypeInv => TypeOK
  BY DEF TypeInv
<1> QED
  BY <1>1, <1>2, PTL

-----------------------------------------------------------------------------
(* The acceptor's waker.  A wake-up is on its way while an edge waits in   *)
(* epoll, an event in the batch being handled, or a caller is about to     *)
(* write; awoken says so, a caller that has cleared is_running makes it    *)
(* so, and the acceptor polls with no event left in hand.                  *)
WakeComing ==
  \/ "wake" \in edge \/ "wake" \in events
  \/ \E c \in Callers : call[c] = "write"

WakeInv ==
  /\ awoken => WakeComing \/ acc = "stopped"
  /\ ~running =>
       WakeComing \/ acc = "stopped" \/ \E c \in Callers : call[c] = "swap"
  /\ acc \in {"none", "check", "poll"} => events = {}

(* Every step keeps the waker's invariant.                                 *)
LEMMA WakeStep == TypeInv /\ WakeInv /\ [Next]_vars => WakeInv'
<1> SUFFICES ASSUME TypeInv, WakeInv, [Next]_vars
             PROVE  WakeInv'
  OBVIOUS
<1> DEFINE wake == <<acc, events, running, awoken, edge, call>>
<1> USE DEF WakeInv, WakeComing
<1>0. AcceptorOK /\ CallersOK
  BY DEF TypeInv, TypeOK
<1>1. CASE UNCHANGED wake
  BY <1>1
<1>2. CASE Build \/ StartFails \/ MainStep
  <2>1. CASE SpawnAcceptor
    <3>1. acc = "none"
      BY <2>1 DEF SpawnAcceptor, Main, TypeInv, AcceptorUp
    <3> QED
      BY <2>1, <3>1 DEF SpawnAcceptor, callers
  <2>2. CASE ~SpawnAcceptor
    BY <1>1, <1>2, <2>2 DEF MainStep, Build, StartFails, Bind, MakeLoop,
      LoopsMade, SetWorkers, NewAcceptor, SetAcceptor, NewPool, SpawnLoop,
      LoopsSpawned, JoinThread, JoinPanicked, AllJoined, StopPool, acceptor,
      callers
  <2> QED
    BY <2>1, <2>2
<1>3. ASSUME NEW i \in Loops, LoopDoes(i)
      PROVE  WakeInv'
  BY <1>1, <1>3 DEF LoopDoes, LoopStep, LoopAction, LoopFails, LoopPanics,
    LoopClose, LoopSubmit, LoopRegister, LoopShutdown, LoopAccept,
    LoopListener, LoopWouldBlock, LoopAcceptFails, LoopEnds, acceptor, callers
<1>4. ASSUME NEW c \in Conns, Connect(c)
      PROVE  WakeInv'
  <2>1. edge \subseteq edge' /\ UNCHANGED <<acc, events, running, awoken, call>>
    BY <1>4 DEF Connect, callers
  <2> QED
    BY <2>1
<1>5. CASE AcceptorStep \/ AcceptorInterrupted \/ AcceptorFails \/ AcceptFails
  <2> USE DEF callers, kernel, acceptor
  <2>1. CASE AcceptorCheck \/ AcceptorFails
    BY <2>1 DEF AcceptorCheck, AcceptorFails, AcceptorEnds
  <2>2. CASE AcceptorPoll
    BY <2>2 DEF AcceptorPoll
  <2>3. CASE AcceptorWake
    BY <2>3 DEF AcceptorWake, AcceptorEnds
  <2>4. CASE AcceptorListener
    BY <2>4 DEF AcceptorListener
  <2>5. CASE AcceptorBatchDone \/ AcceptorInterrupted
    BY <2>5 DEF AcceptorBatchDone, AcceptorInterrupted
  <2>6. CASE Accept \/ AcceptWouldBlock \/ AcceptFails
    BY <2>6 DEF Accept, AcceptWouldBlock, AcceptFails
  <2>7. CASE SelectRoundRobin \/ SelectLeast
    BY <2>7 DEF SelectRoundRobin, SelectLeast, Selected
  <2>8. CASE ReadCount \/ HandOver
    BY <2>8 DEF ReadCount, HandOver, AfterSocket
  <2> QED
    BY <1>5, <2>1, <2>2, <2>3, <2>4, <2>5, <2>6, <2>7, <2>8 DEF AcceptorStep
<1>6. ASSUME NEW c \in Callers, CallShutdown(c) \/ CallerStep(c)
      PROVE  WakeInv'
  <2> USE DEF Call, acceptor
  <2>1. CASE CallShutdown(c)
    BY <1>0, <2>1 DEF CallShutdown, CallersOK, WithoutAcceptor
  <2>2. CASE ClearRunning(c)
    BY <1>0, <2>2 DEF ClearRunning, CallersOK, AfterFlag
  <2>3. CASE SwapAwoken(c)
    <3>1. CASE awoken
      BY <1>0, <2>3, <3>1 DEF SwapAwoken, CallersOK
    <3>2. CASE ~awoken
      <4>1. call'[c] = "write"
        BY <1>0, <2>3, <3>2 DEF SwapAwoken, CallersOK
      <4> QED
        BY <2>3, <4>1 DEF SwapAwoken
    <3> QED
      BY <3>1, <3>2
  <2>4. CASE WriteEventfd(c)
    BY <1>0, <2>4 DEF WriteEventfd, CallersOK
  <2>5. CASE ReadWorkers(c) \/ ShutdownSent(c)
    BY <1>0, <2>5 DEF ReadWorkers, ShutdownSent, CallersOK
  <2>6. CASE SendShutdown(c)
    BY <2>6 DEF SendShutdown
  <2> QED
    BY <1>6, <2>1, <2>2, <2>3, <2>4, <2>5, <2>6 DEF CallerStep
<1> QED
  BY <1>1, <1>2, <1>3, <1>4, <1>5, <1>6
  DEF Next, LoopDoes, vars, acceptor, callers

(* The acceptor never sleeps through a shutdown, for any number of threads *)
(* that call it at any moment: whenever it is in poll with is_running      *)
(* false, the eventfd has been written or a caller is about to write it    *)
(* (acceptor.rs 17-20, 70-88).                                             *)
THEOREM AcceptorStops == Spec => []AcceptorWillStop
<1>1. Init => WakeInv
  BY DEF Init, WakeInv, WakeComing
<1>2. WakeInv => AcceptorWillStop
  BY DEF WakeInv, WakeComing, AcceptorWillStop
<1> QED
  BY <1>1, <1>2, TypeInit, TypeStep, WakeStep, PTL DEF Spec

-----------------------------------------------------------------------------
(* Threads are joined in order and stay ended; the pool lives from before  *)
(* the loops of run_reuse_port start until after all threads have ended.   *)
JoinedInv ==
  /\ main \in {"workers", "acceptor", "handle", "spawnAcceptor", "pool"} =>
       step = 0
  /\ main = "join" => \A k \in 0..(step - 1) : ThreadEnd(k) = "stopped"
  /\ main \in {"stopPool", "ok"} =>
       \A k \in 0..(ThreadsToJoin - 1) : ThreadEnd(k) = "stopped"

PoolInv ==
  /\ main \in {"spawn", "join", "stopPool"} => pool = "up"
  /\ pool = "gone" => main = "ok"
  /\ \A i \in Loops : ReusePort /\ loop[i] = "running" =>
       pool # "none" /\ main \in {"spawn", "join", "stopPool", "ok", "panicked"}

(* Listeners belong to a thread that has not ended, and what is gone has   *)
(* left nothing behind.                                                    *)
ListenInv ==
  /\ \A i \in Loops \cap listening :
       ReusePort /\ loop[i] \in {"made", "running"}
  /\ Acceptor \in listening => ~ReusePort /\ acc # "stopped"
  /\ main \in {"new", "err"} => listening = {}

EmptyInv ==
  /\ \A i \in Loops : Gone(i) => conns[i] = {} /\ queue[i] = <<>>
  /\ \A o \in Loops \cup {Acceptor} : o \notin listening => backlog[o] = {}

LifeInv == JoinedInv /\ PoolInv /\ ListenInv /\ EmptyInv

(* The main thread keeps the life cycles.                                  *)
LEMMA LifeMain ==
  ASSUME TypeInv, LifeInv, Build \/ StartFails \/ MainStep
  PROVE  LifeInv'
<1>1. UNCHANGED <<scene, queue, conns>>
  BY DEF Build, StartFails, MainStep, Bind, MakeLoop, LoopsMade, SetWorkers,
    NewAcceptor, SetAcceptor, SpawnAcceptor, NewPool, SpawnLoop, LoopsSpawned,
    JoinThread, JoinPanicked, AllJoined, StopPool, loops
<1>2. /\ N \in Nat /\ ControlOK /\ LoopsOK /\ KernelOK /\ AcceptorUp
      /\ JoinedInv /\ PoolInv /\ ListenInv /\ EmptyInv
  BY EngineAssumption DEF TypeInv, TypeOK, LifeInv
<1> SUFFICES JoinedInv' /\ PoolInv' /\ ListenInv' /\ EmptyInv'
  BY DEF LifeInv
<1> USE <1>1, <1>2 DEF Main, ReusePort, loops, acceptor, kernel, control
<1>3. CASE Build
  BY <1>3 DEF Build, JoinedInv, PoolInv, ListenInv, EmptyInv, Gone
<1>4. CASE StartFails
  <2>1. JoinedInv' /\ PoolInv'
    BY <1>4 DEF StartFails, JoinedInv, PoolInv, LoopsOK
  <2>2. ListenInv'
    BY <1>4 DEF StartFails, ListenInv
  <2>3. EmptyInv'
    BY <1>4 DEF StartFails, EmptyInv, Gone, LoopsOK, KernelOK
  <2> QED
    BY <2>1, <2>2, <2>3
<1>5. CASE Bind
  <2>1. JoinedInv' /\ PoolInv'
    BY <1>5 DEF Bind, JoinedInv, PoolInv
  <2>2. ListenInv'
    BY <1>5 DEF Bind, ListenInv, AcceptorUp, Acceptor, Loops
  <2>3. EmptyInv'
    BY <1>5 DEF Bind, EmptyInv, Gone, ListenInv, AcceptorUp
  <2> QED
    BY <2>1, <2>2, <2>3
<1>6. CASE MakeLoop
  <2>1. step \in Loops
    BY <1>6 DEF MakeLoop, ControlOK, Loops
  <2>2. JoinedInv' /\ PoolInv'
    BY <1>6, <2>1 DEF MakeLoop, MadeLoop, JoinedInv, PoolInv, LoopsOK
  <2>3. ListenInv'
    BY <1>6, <2>1 DEF MakeLoop, MadeLoop, ListenInv, LoopsOK, Acceptor, Loops
  <2>4. EmptyInv'
    BY <1>6, <2>1 DEF MakeLoop, MadeLoop, EmptyInv, LoopsOK, Gone
  <2> QED
    BY <2>2, <2>3, <2>4
<1>7. CASE \/ LoopsMade \/ SetWorkers \/ NewAcceptor \/ SetAcceptor
           \/ NewPool \/ LoopsSpawned \/ JoinPanicked
  <2> USE DEF LoopsMade, SetWorkers, NewAcceptor, SetAcceptor, NewPool,
        LoopsSpawned, JoinPanicked
  <2>1. JoinedInv'
    BY <1>7 DEF JoinedInv, ThreadEnd
  <2>2. PoolInv'
    BY <1>7 DEF PoolInv
  <2>3. ListenInv' /\ EmptyInv'
    BY <1>7 DEF ListenInv, EmptyInv, Gone
  <2> QED
    BY <2>1, <2>2, <2>3
<1>8. CASE SpawnAcceptor
  <2>1. JoinedInv' /\ PoolInv'
    BY <1>8 DEF SpawnAcceptor, JoinedInv, PoolInv
  <2>2. ListenInv' /\ EmptyInv'
    BY <1>8 DEF SpawnAcceptor, ListenInv, EmptyInv, Gone
  <2> QED
    BY <2>1, <2>2
<1>9. CASE SpawnLoop
  <2>1. step \in Loops
    BY <1>9 DEF SpawnLoop, ControlOK, Loops
  <2>2. JoinedInv' /\ PoolInv'
    BY <1>9, <2>1 DEF SpawnLoop, JoinedInv, PoolInv, LoopsOK
  <2>3. ListenInv'
    BY <1>9, <2>1 DEF SpawnLoop, ListenInv, LoopsOK
  <2>4. EmptyInv'
    BY <1>9, <2>1 DEF SpawnLoop, EmptyInv, LoopsOK, Gone
  <2> QED
    BY <2>2, <2>3, <2>4
<1>10. CASE JoinThread \/ AllJoined \/ StopPool
  <2> USE DEF JoinThread, AllJoined, StopPool
  <2>1. JoinedInv'
    BY <1>10 DEF JoinedInv, ThreadEnd, ThreadsToJoin, ControlOK
  <2>2. PoolInv'
    BY <1>10 DEF PoolInv
  <2>3. ListenInv' /\ EmptyInv'
    BY <1>10 DEF ListenInv, EmptyInv, Gone
  <2> QED
    BY <2>1, <2>2, <2>3
<1> QED
  BY <1>3, <1>4, <1>5, <1>6, <1>7, <1>8, <1>9, <1>10 DEF MainStep

(* A thread that has ended stays so while main joins.                      *)
LEMMA JoinedFrame ==
  ASSUME TypeInv, JoinedInv, UNCHANGED <<scene, main, step>>,
         acc = "stopped" => acc' = "stopped",
         \A i \in Loops : loop[i] = "stopped" => loop'[i] = "stopped"
  PROVE  JoinedInv'
<1>1. N \in Nat /\ step \in 0..(N + 1)
  BY EngineAssumption DEF TypeInv, TypeOK, ControlOK
<1>2. \A k \in 0..N : ThreadEnd(k) = "stopped" => ThreadEnd(k)' = "stopped"
  BY <1>1 DEF ThreadEnd, Acceptor, Loops
<1>3. /\ ThreadsToJoin' = ThreadsToJoin
      /\ ThreadsToJoin \in {N, N + 1}
  BY DEF ThreadsToJoin, ReusePort
<1>4. 0..(step - 1) \subseteq 0..N /\ 0..(ThreadsToJoin - 1) \subseteq 0..N
  BY <1>1, <1>3
<1> QED
  BY <1>2, <1>3, <1>4 DEF JoinedInv

(* The loops keep the life cycles.                                         *)
LEMMA LifeLoop ==
  ASSUME TypeInv, LifeInv, NEW i \in Loops, LoopDoes(i)
  PROVE  LifeInv'
<1>1. UNCHANGED <<scene, main, step, pool, acc>>
  BY DEF LoopDoes, LoopStep, LoopAction, LoopFails, LoopPanics, LoopClose,
    LoopSubmit, LoopRegister, LoopShutdown, LoopAccept, LoopListener,
    LoopWouldBlock, LoopAcceptFails, LoopEnds, control, acceptor
<1>2. /\ N \in Nat /\ LoopsOK /\ KernelOK
      /\ JoinedInv /\ PoolInv /\ ListenInv /\ EmptyInv
  BY EngineAssumption DEF TypeInv, TypeOK, LifeInv
<1>3. loop[i] = "running"
  BY DEF LoopDoes, LoopStep, LoopAction, LoopFails, LoopPanics, LoopClose,
    LoopSubmit, LoopRegister, LoopShutdown, LoopAccept, LoopListener,
    LoopWouldBlock, LoopAcceptFails, AtEvents, InAccept
<1> SUFFICES JoinedInv' /\ PoolInv' /\ ListenInv' /\ EmptyInv'
  BY DEF LifeInv
<1> USE DEF ReusePort, loops, kernel
<1>4. ASSUME NEW how \in {"stopped", "panicked"}, NEW left,
             LoopEnds(i, how, left)
      PROVE  JoinedInv' /\ PoolInv' /\ ListenInv' /\ EmptyInv'
  <2>1. JoinedInv'
    BY <1>1, <1>2, <1>3, <1>4, JoinedFrame DEF LoopEnds, LoopsOK
  <2>2. PoolInv'
    BY <1>1, <1>2, <1>4 DEF LoopEnds, LoopsOK, PoolInv
  <2>3. ListenInv'
    BY <1>1, <1>2, <1>4 DEF LoopEnds, LoopsOK, ListenInv
  <2>4. EmptyInv'
    BY <1>2, <1>4 DEF LoopEnds, LoopsOK, KernelOK, EmptyInv, Gone
  <2> QED
    BY <2>1, <2>2, <2>3, <2>4
<1>5. CASE LoopShutdown(i) \/ LoopAction(i) \/ LoopFails(i) \/ LoopPanics(i)
  <2>1. \E how \in {"stopped", "panicked"} : \E left : LoopEnds(i, how, left)
    BY <1>5 DEF LoopShutdown, LoopAction, LoopFails, LoopPanics
  <2> QED
    BY <1>4, <2>1
<1>6. CASE \/ LoopRegister(i) \/ LoopAccept(i) \/ LoopClose(i) \/ LoopSubmit(i)
           \/ LoopTurns(i)
  <2> USE DEF LoopRegister, LoopAccept, LoopClose, LoopSubmit, LoopTurns,
        LoopListener, LoopWouldBlock, LoopAcceptFails
  <2>1. UNCHANGED <<loop, listening>>
    BY <1>6
  <2>2. JoinedInv' /\ PoolInv' /\ ListenInv'
    BY <1>1, <1>2, <2>1, JoinedFrame DEF PoolInv, ListenInv
  <2>3. EmptyInv'
    BY <1>2, <1>3, <1>6, <2>1 DEF LoopsOK, KernelOK, EmptyInv, Gone
  <2> QED
    BY <2>2, <2>3
<1> QED
  BY <1>5, <1>6 DEF LoopDoes, LoopStep, LoopTurns

(* The acceptor, peers and the threads in shutdown keep the life cycles.   *)
LEMMA LifeOthers ==
  ASSUME TypeInv, LifeInv,
         \/ AcceptorStep \/ AcceptorInterrupted \/ AcceptorFails \/ AcceptFails
         \/ \E c \in Conns : Connect(c)
         \/ \E c \in Callers : CallShutdown(c) \/ CallerStep(c)
  PROVE  LifeInv'
<1>0. CASE \E c \in Callers : CallShutdown(c) \/ CallerStep(c)
  <2>1. UNCHANGED <<scene, main, step, pool, acc, loop, conns, listening, backlog>>
    BY <1>0 DEF CallShutdown, CallerStep, ClearRunning, SwapAwoken,
      WriteEventfd, ReadWorkers, SendShutdown, ShutdownSent, control, loops,
      acceptor, kernel
  <2>2. EmptyInv'
    <3>1. \A i \in Loops : Gone(i) => queue'[i] = queue[i]
      BY <1>0 DEF CallShutdown, CallerStep, ClearRunning, SwapAwoken,
        WriteEventfd, ReadWorkers, SendShutdown, ShutdownSent, loops, TypeInv,
        TypeOK, LoopsOK
    <3> QED
      BY <2>1, <3>1 DEF LifeInv, EmptyInv, Gone
  <2> QED
    BY <2>1, <2>2, JoinedFrame DEF LifeInv, PoolInv, ListenInv, ReusePort
<1>1. CASE \E c \in Conns : Connect(c)
  <2>1. PICK c \in Conns : Connect(c)
    BY <1>1
  <2>2. /\ UNCHANGED <<scene, main, step, pool, acc, loop, queue, conns>>
        /\ UNCHANGED listening
        /\ \E o \in listening : backlog' = [backlog EXCEPT ![o] = @ \cup {c}]
    BY <2>1 DEF Connect, control, loops
  <2>3. EmptyInv'
    BY <2>2 DEF LifeInv, EmptyInv, Gone, TypeInv, TypeOK, KernelOK
  <2> QED
    BY <2>2, <2>3, JoinedFrame DEF LifeInv, PoolInv, ListenInv, ReusePort
<1>2. CASE AcceptorStep \/ AcceptorInterrupted \/ AcceptorFails \/ AcceptFails
  <2> USE DEF AcceptorStep, AcceptorInterrupted, AcceptorFails, AcceptFails,
        AcceptorCheck, AcceptorPoll, AcceptorWake, AcceptorListener,
        AcceptorBatchDone, Accept, AcceptWouldBlock, SelectRoundRobin,
        ReadCount, SelectLeast, HandOver
  <2>1. UNCHANGED <<scene, main, step, pool, loop, conns>> /\ acc # "stopped"
    BY <1>2 DEF control, loops
  <2>2. JoinedInv' /\ PoolInv'
    BY <2>1, JoinedFrame DEF LifeInv, PoolInv, ReusePort
  <2>3. \A i \in Loops : Gone(i) => queue'[i] = queue[i]
    BY <1>2 DEF loops, TypeInv, TypeOK, LoopsOK
  <2>4. \/ AcceptorEnds
        \/ /\ acc' # "stopped" /\ UNCHANGED listening
           /\ \/ UNCHANGED backlog
              \/ \E c \in backlog[Acceptor] :
                   backlog' = [backlog EXCEPT ![Acceptor] = @ \ {c}]
    BY <1>2, <2>1 DEF kernel, Selected, AfterSocket, acceptor
  <2>5. N \in Nat /\ KernelOK /\ EmptyInv /\ ListenInv
    BY EngineAssumption DEF TypeInv, TypeOK, LifeInv
  <2>6. CASE AcceptorEnds
    BY <2>1, <2>2, <2>3, <2>5, <2>6 DEF AcceptorEnds, LifeInv, ListenInv,
      EmptyInv, Gone, KernelOK, ReusePort, Loops, Acceptor
  <2>7. CASE ~AcceptorEnds
    BY <2>1, <2>2, <2>3, <2>4, <2>5, <2>7 DEF LifeInv, ListenInv, EmptyInv,
      Gone, KernelOK, ReusePort
  <2> QED
    BY <2>6, <2>7
<1> QED
  BY <1>0, <1>1, <1>2

(* Initially nothing runs.                                                 *)
LEMMA LifeInit == Init => LifeInv
  BY DEF Init, LifeInv, JoinedInv, PoolInv, ListenInv, EmptyInv, Gone

(* Every step keeps the life cycles.                                       *)
LEMMA LifeStep == TypeInv /\ LifeInv /\ [Next]_vars => LifeInv'
<1> SUFFICES ASSUME TypeInv, LifeInv, [Next]_vars
             PROVE  LifeInv'
  OBVIOUS
<1>1. CASE UNCHANGED vars
  BY <1>1, JoinedFrame DEF vars, control, loops, acceptor, kernel, LifeInv,
    PoolInv, ListenInv, EmptyInv, Gone, ReusePort
<1>2. CASE \E i \in Loops : LoopDoes(i)
  BY <1>2, LifeLoop
<1> QED
  BY <1>1, <1>2, LifeMain, LifeOthers DEF Next, LoopDoes

(* run returns Ok only with nothing left behind, and an error of its start *)
(* leaves no listener and, under reuse_port, no thread, in every scene and *)
(* for any number of loops (engine.rs 160-169, 205-210, 228-262, 286-291). *)
THEOREM EndsClean == Spec => []CleanEnd
<1>1. TypeInv /\ LifeInv => CleanEnd
  <2> SUFFICES ASSUME TypeInv, LifeInv
               PROVE  CleanEnd
    OBVIOUS
  <2>1. /\ N \in Nat /\ LoopsOK /\ AcceptorOK /\ KernelOK /\ AcceptorUp
        /\ HandInv /\ JoinedInv /\ PoolInv /\ ListenInv /\ EmptyInv
    BY EngineAssumption DEF TypeInv, TypeOK, LifeInv
  <2>2. ASSUME main = "ok"
        PROVE  /\ acc \in {"none", "stopped"}
               /\ \A i \in Loops : loop[i] = "stopped"
               /\ listening = {}
    <3>1. \A i \in Loops : loop[i] = "stopped"
      BY <2>1, <2>2 DEF JoinedInv, ThreadsToJoin, ThreadEnd, Loops, Acceptor
    <3>2. ReusePort => acc = "none"
      BY <2>1 DEF AcceptorUp
    <3>3. ~ReusePort => acc = "stopped"
      BY <2>1, <2>2 DEF JoinedInv, ThreadsToJoin, ThreadEnd, Acceptor
    <3> QED
      BY <2>1, <3>1, <3>2, <3>3 DEF ListenInv, KernelOK
  <2>3. ASSUME main = "err"
        PROVE  /\ listening = {}
               /\ acc = "none"
               /\ ReusePort => "running" \notin Threads
    BY <2>1, <2>3 DEF ListenInv, AcceptorUp, PoolInv, Threads
  <2>4. ASSUME main = "ok"
        PROVE  /\ Threads \cap {"check", "poll", "events", "accept", "select",
                                "send", "made", "running"} = {}
               /\ hand = None
               /\ \A i \in Loops : conns[i] = {} /\ queue[i] = <<>>
               /\ \A o \in DOMAIN backlog : backlog[o] = {}
    BY <2>1, <2>2, <2>4 DEF Threads, HandInv, EmptyInv, Gone, KernelOK
  <2> QED
    BY <2>2, <2>3, <2>4 DEF CleanEnd
<1> QED
  BY <1>1, TypeInit, TypeStep, LifeInit, LifeStep, PTL DEF Spec

(* The scene never changes, and what the histories record is written in    *)
(* few places.                                                             *)
LEMMA Footprint ==
  ASSUME [Next]_vars
  PROVE  /\ UNCHANGED scene
         /\ (\E i \in Loops : LoopSubmit(i)) \/ UNCHANGED missed
         /\ SelectRoundRobin \/ SelectLeast \/ UNCHANGED <<given, next, target>>
         /\ SelectLeast \/ ReadCount \/ UNCHANGED scan
<1> USE DEF vars, loops, balancer, history
<1>1. CASE UNCHANGED vars
  BY <1>1
<1>2. CASE Build \/ StartFails \/ MainStep
  BY <1>2 DEF MainStep, Build, StartFails, Bind, MakeLoop, LoopsMade,
    SetWorkers, NewAcceptor, SetAcceptor, SpawnAcceptor, NewPool, SpawnLoop,
    LoopsSpawned, JoinThread, JoinPanicked, AllJoined, StopPool
<1>3. ASSUME NEW i \in Loops, LoopDoes(i)
      PROVE  /\ UNCHANGED <<scene, given, next, target, scan>>
             /\ LoopSubmit(i) \/ UNCHANGED missed
  BY <1>3 DEF LoopDoes, LoopStep, LoopRegister, LoopShutdown, LoopAccept,
    LoopListener, LoopWouldBlock, LoopAcceptFails,
    LoopAction, LoopFails, LoopPanics, LoopEnds, LoopClose, LoopSubmit
<1>4. CASE \/ \E c \in Conns : Connect(c)
           \/ \E c \in Callers : CallShutdown(c) \/ CallerStep(c)
  BY <1>4 DEF Connect, CallShutdown, CallerStep, ClearRunning, SwapAwoken,
    WriteEventfd, ReadWorkers, SendShutdown, ShutdownSent
<1>5. CASE AcceptorStep \/ AcceptorInterrupted \/ AcceptorFails \/ AcceptFails
  BY <1>5 DEF AcceptorStep, AcceptorInterrupted, AcceptorFails, AcceptFails,
    AcceptorCheck, AcceptorPoll, AcceptorWake, AcceptorListener,
    AcceptorBatchDone, Accept, AcceptWouldBlock, SelectRoundRobin, ReadCount,
    SelectLeast, HandOver
<1> QED
  BY <1>1, <1>2, <1>3, <1>4, <1>5 DEF Next, LoopDoes

(* A callback finds the pool whenever it runs under reuse_port, and in     *)
(* neither mode does it come too late (engine.rs 203-209, 265-290).        *)
THEOREM PoolFound == Spec => []TasksFindPool
<1>1. Init => TasksFindPool
  BY DEF Init, TasksFindPool
<1>2. TypeInv /\ LifeInv /\ TasksFindPool /\ [Next]_vars => TasksFindPool'
  <2> SUFFICES ASSUME TypeInv, LifeInv, TasksFindPool, [Next]_vars
               PROVE  TasksFindPool'
    OBVIOUS
  <2>1. UNCHANGED scene
    BY Footprint
  <2>2. ASSUME NEW i \in Loops, LoopSubmit(i)
        PROVE  TasksFindPool'
    <3>1. N \in Nat /\ JoinedInv /\ PoolInv /\ ControlOK
      BY EngineAssumption DEF LifeInv, TypeInv, TypeOK
    <3>2. pool # "gone"
      BY <2>2, <3>1 DEF LoopSubmit, PoolInv, JoinedInv, ThreadsToJoin, ThreadEnd,
        Acceptor, Loops
    <3>3. ReusePort => pool = "up"
      BY <2>2, <3>1, <3>2 DEF LoopSubmit, PoolInv, ControlOK
    <3>4. pool = "up" \/ pool = "none"
      BY <3>1, <3>2 DEF ControlOK
    <3> QED
      BY <2>1, <2>2, <3>3, <3>4 DEF LoopSubmit, TasksFindPool, ReusePort
  <2>3. CASE UNCHANGED missed
    BY <2>1, <2>3 DEF TasksFindPool, ReusePort
  <2>4. (\E i \in Loops : LoopSubmit(i)) \/ UNCHANGED missed
    BY Footprint
  <2> QED
    BY <2>2, <2>3, <2>4
<1> QED
  BY <1>1, <1>2, TypeInit, TypeStep, LifeInit, LifeStep, PTL DEF Spec

-----------------------------------------------------------------------------
(* RoundRobin: the loops before the next one are one socket ahead.         *)
RotationInv ==
  N > 0 /\ Policy = "RoundRobin" =>
    \E q \in Nat : \A i \in Loops :
      given[i] = q + (IF i < next % N THEN 1 ELSE 0)

(* The Register commands in a channel.                                     *)
Registers(q) == {k \in DOMAIN q : q[k] # "Shutdown"}

(* LeastConnections: as long as its reads are exact, what a loop has been  *)
(* given is in its slab, in its channel or about to be sent to it, and     *)
(* what has been read so far is what the loops have been given.            *)
Sending(i) == IF acc = "send" /\ target = i THEN 1 ELSE 0

CalmInv ==
  calm =>
    /\ \A i \in Loops : ~Gone(i)
    /\ ~ReusePort => \A i \in Loops :
         given[i] = count[i] + Cardinality(Registers(queue[i])) + Sending(i)

LeastInv ==
  calm /\ Policy # "RoundRobin" =>
    /\ \A i, j \in Loops : given[i] <= given[j] + 1
    /\ \A k \in 1..Len(scan) : acc = "select" /\ scan[k] = given[k - 1]

LoadInv == RotationInv /\ CalmInv /\ LeastInv

(* A Register command more in a channel, and one less.                     *)
LEMMA RegistersAppend ==
  ASSUME NEW S, NEW q \in Seq(S), NEW e \in S
  PROVE  /\ IsFiniteSet(Registers(q)) /\ Cardinality(Registers(q)) \in Nat
         /\ Cardinality(Registers(Append(q, e))) =
              IF e = "Shutdown" THEN Cardinality(Registers(q))
                                ELSE Cardinality(Registers(q)) + 1
<1>1. /\ Registers(q) \subseteq 1..Len(q) /\ Len(q) \in Nat
      /\ DOMAIN Append(q, e) = 1..(Len(q) + 1)
      /\ \A i \in 1..Len(q) : Append(q, e)[i] = q[i]
      /\ Append(q, e)[Len(q) + 1] = e /\ DOMAIN q = 1..Len(q)
  BY AppendElements DEF Registers
<1>2. IsFiniteSet(1..Len(q))
  BY <1>1, FS_Interval
<1>3. IsFiniteSet(Registers(q)) /\ Cardinality(Registers(q)) \in Nat
  BY <1>1, <1>2, FS_Subset, FS_CardinalityType
<1>4. Len(q) + 1 \notin Registers(q)
  BY <1>1
<1>5. CASE e = "Shutdown"
  <2>1. Registers(Append(q, e)) = Registers(q)
    BY <1>1, <1>5 DEF Registers
  <2> QED
    BY <1>3, <1>5, <2>1
<1>6. CASE e # "Shutdown"
  <2>1. Registers(Append(q, e)) = Registers(q) \cup {Len(q) + 1}
    BY <1>1, <1>6 DEF Registers
  <2>2. Cardinality(Registers(q) \cup {Len(q) + 1}) = Cardinality(Registers(q)) + 1
    BY <1>3, <1>4, FS_AddElement
  <2> QED
    BY <1>3, <1>6, <2>1, <2>2
<1> QED
  BY <1>5, <1>6

(* Taking a Register command leaves one fewer.                             *)
LEMMA RegistersTail ==
  ASSUME NEW S, NEW q \in Seq(S), q # <<>>, Head(q) # "Shutdown"
  PROVE  /\ Cardinality(Registers(Tail(q))) \in Nat
         /\ Cardinality(Registers(q)) = Cardinality(Registers(Tail(q))) + 1
<1>1. /\ Tail(q) \in Seq(S) /\ DOMAIN q = 1..Len(q) /\ Len(q) \in Nat \ {0}
      /\ Head(q) = q[1] /\ DOMAIN Tail(q) = 1..(Len(q) - 1)
      /\ \A i \in 1..(Len(q) - 1) : Tail(q)[i] = q[i + 1]
      /\ Head(q) \in S
  BY TailElements
<1>2. /\ IsFiniteSet(Registers(q)) /\ Cardinality(Registers(q)) \in Nat
      /\ IsFiniteSet(Registers(Tail(q)))
      /\ Cardinality(Registers(Tail(q))) \in Nat
  BY <1>1, RegistersAppend
<1> DEFINE A == Registers(Tail(q))
           B == Registers(q) \ {1}
           f == [k \in A |-> k + 1]
<1>3. A \subseteq 1..(Len(q) - 1) /\ B \subseteq 2..Len(q)
  BY <1>1 DEF Registers
<1>4. \A k \in A : k + 1 \in B
  BY <1>1, <1>3 DEF Registers
<1>5. \A m \in B : m - 1 \in A
  BY <1>1, <1>3 DEF Registers
<1>6. f \in Bijection(A, B)
  <2>1. f \in [A -> B] /\ \A k, m \in A : f[k] = f[m] => k = m
    BY <1>3, <1>4
  <2>2. \A m \in B : \E k \in A : f[k] = m
    <3> SUFFICES ASSUME NEW m \in B
                 PROVE  \E k \in A : f[k] = m
      OBVIOUS
    <3>1. m - 1 \in A /\ f[m - 1] = m
      BY <1>3, <1>5
    <3> QED
      BY <3>1
  <2> QED
    BY <2>1, <2>2 DEF Bijection, Injection, Surjection, IsInjective
<1>7. Cardinality(B) = Cardinality(A)
  BY <1>2, <1>6, FS_Bijection DEF ExistsBijection
<1>8. 1 \in Registers(q)
  BY <1>1 DEF Registers
<1>9. Cardinality(B) = Cardinality(Registers(q)) - 1
  BY <1>2, <1>8, FS_RemoveElement
<1> QED
  BY <1>2, <1>7, <1>9

(* RoundRobin keeps its rotation.                                          *)
LEMMA RotationStep ==
  ASSUME TypeInv, RotationInv, [Next]_vars
  PROVE  RotationInv'
<1>1. UNCHANGED scene /\ N \in Nat /\ next \in Nat /\ given \in [Loops -> Nat]
  BY Footprint, EngineAssumption DEF TypeInv, TypeOK, BalancerOK
<1>2. CASE UNCHANGED <<given, next>>
  BY <1>1, <1>2 DEF RotationInv, Policy
<1>3. CASE SelectLeast
  BY <1>1, <1>3 DEF RotationInv, Policy, SelectLeast
<1>4. CASE SelectRoundRobin
  <2> SUFFICES ASSUME N > 0, Policy = "RoundRobin"
               PROVE  \E q \in Nat : \A i \in Loops :
                        given'[i] = q + (IF i < next' % N THEN 1 ELSE 0)
    BY <1>1 DEF RotationInv, Policy
  <2>1. PICK q \in Nat : \A i \in Loops :
          given[i] = q + (IF i < next % N THEN 1 ELSE 0)
    BY DEF RotationInv
  <2>2. /\ next % N \in 0..(N - 1)
        /\ (next + 1) % N = IF (next % N) + 1 = N THEN 0 ELSE (next % N) + 1
    <3>1. N \in Nat \ {0} /\ next \in Nat
      BY <1>1
    <3> QED
      BY <3>1, NextRemainder, Zenon
  <2>3. Rotation(next) = next % N
    BY <1>1 DEF Rotation
  <2> PICK r \in 0..(N - 1) : r = next % N
    BY <2>2
  <2>4. /\ next' = next + 1 /\ given' = [given EXCEPT ![r] = @ + 1]
        /\ r \in Loops /\ (next' % N = IF r + 1 = N THEN 0 ELSE r + 1)
    <3>1. next' = next + 1
      BY <1>1, <1>4 DEF SelectRoundRobin
    <3>2. given' = [given EXCEPT ![r] = @ + 1]
      BY <1>4, <2>3 DEF SelectRoundRobin, Selected
    <3>3. next' % N = IF r + 1 = N THEN 0 ELSE r + 1
      BY <2>2, <3>1
    <3> QED
      BY <3>1, <3>2, <3>3 DEF Loops
  <2>5. \A i \in Loops : given'[i] = q + (IF i <= r THEN 1 ELSE 0)
    BY <1>1, <2>1, <2>4 DEF Loops
  <2>6. CASE r + 1 = N
    <3>1. next' % N = 0
      BY <2>4, <2>6
    <3>2. \A i \in Loops : given'[i] = (q + 1) + 0 /\ ~(i < 0)
      BY <1>1, <2>5, <2>6 DEF Loops
    <3>3. \A i \in Loops : given'[i] = (q + 1) + (IF i < next' % N THEN 1 ELSE 0)
      BY <3>1, <3>2
    <3> QED
      BY <3>3
  <2>7. CASE r + 1 # N
    <3>1. next' % N = r + 1
      BY <2>4, <2>7
    <3>2. \A i \in Loops : i <= r <=> i < r + 1
      BY <1>1 DEF Loops
    <3>3. \A i \in Loops : given'[i] = q + (IF i < next' % N THEN 1 ELSE 0)
      BY <2>5, <3>1, <3>2
    <3> QED
      BY <3>3
  <2> QED
    BY <2>6, <2>7
<1> QED
  BY <1>2, <1>3, <1>4, Footprint

(* What a loop has been given stays accounted for.                         *)
LEMMA CalmStep ==
  ASSUME TypeInv, LifeInv, CalmInv, [Next]_vars
  PROVE  CalmInv'
<1> SUFFICES ASSUME calm'
             PROVE  /\ \A i \in Loops : ~Gone(i)'
                    /\ ~ReusePort => \A i \in Loops :
                         given'[i] = count'[i] + Cardinality(Registers(queue'[i]))
                                       + Sending(i)'
  BY Footprint DEF CalmInv, ReusePort
<1>1. /\ UNCHANGED scene /\ N \in Nat
      /\ LoopsOK /\ BalancerOK /\ AcceptorOK /\ KernelOK /\ HandInv /\ AcceptorUp
      /\ HistoryOK
  BY Footprint, EngineAssumption DEF TypeInv, TypeOK
<1> DEFINE R(i) == Cardinality(Registers(queue[i]))
<1>2. \A i \in Loops : count[i] \in Nat /\ R(i) \in Nat /\ given[i] \in Nat
  <2>1. "Shutdown" \in Conns \cup {"Shutdown"}
    OBVIOUS
  <2> QED
    BY <1>1, <2>1, RegistersAppend DEF LoopsOK, BalancerOK
<1> HIDE DEF R
<1>3. ASSUME calm, UNCHANGED <<count, queue, given>>,
             \A i \in Loops : Gone(i)' => Gone(i),
             \A i \in Loops : Sending(i)' = Sending(i)
      PROVE  /\ \A i \in Loops : ~Gone(i)'
             /\ ~ReusePort => \A i \in Loops :
                  given'[i] = count'[i] + Cardinality(Registers(queue'[i]))
                                + Sending(i)'
  BY <1>3 DEF CalmInv
<1>4. CASE UNCHANGED vars
  BY <1>3, <1>4 DEF vars, loops, balancer, acceptor, history, Gone, Sending
<1>5. CASE Build \/ StartFails \/ MainStep
  <2>1. UNCHANGED <<calm, count, queue, given, target>>
    BY <1>5 DEF MainStep, Build, StartFails, Bind, MakeLoop, LoopsMade,
      SetWorkers, NewAcceptor, SetAcceptor, SpawnAcceptor, NewPool, SpawnLoop,
      LoopsSpawned, JoinThread, JoinPanicked, AllJoined, StopPool, loops,
      balancer, history
  <2>2. \A i \in Loops : Gone(i)' => Gone(i)
    BY <1>1, <1>5 DEF MainStep, Build, StartFails, Bind, MakeLoop, LoopsMade,
      SetWorkers, NewAcceptor, SetAcceptor, SpawnAcceptor, NewPool, SpawnLoop,
      LoopsSpawned, JoinThread, JoinPanicked, AllJoined, StopPool, loops,
      Gone, LoopsOK, MadeLoop
  <2>3. acc' = "send" <=> acc = "send"
    BY <1>1, <1>5 DEF MainStep, Build, StartFails, Bind, MakeLoop, LoopsMade,
      SetWorkers, NewAcceptor, SetAcceptor, SpawnAcceptor, NewPool, SpawnLoop,
      LoopsSpawned, JoinThread, JoinPanicked, AllJoined, StopPool, acceptor,
      AcceptorUp, Main
  <2> QED
    BY <1>3, <2>1, <2>2, <2>3 DEF Sending
<1>6. ASSUME NEW j \in Loops, LoopDoes(j)
      PROVE  /\ \A i \in Loops : ~Gone(i)'
             /\ ~ReusePort => \A i \in Loops :
                  given'[i] = count'[i] + Cardinality(Registers(queue'[i]))
                                + Sending(i)'
  <2>1. UNCHANGED <<acc, target, given>>
    BY <1>6 DEF LoopDoes, LoopStep, LoopRegister, LoopShutdown, LoopAccept,
      LoopListener, LoopWouldBlock, LoopAcceptFails,
      LoopAction, LoopFails, LoopPanics, LoopEnds, LoopClose, LoopSubmit,
      balancer, acceptor
  <2>2. \A i \in Loops : Sending(i)' = Sending(i)
    BY <2>1 DEF Sending
  <2>3. LoopRegister(j) \/ LoopAccept(j) \/ LoopSubmit(j) \/ LoopTurns(j)
    BY <1>6 DEF LoopDoes, LoopStep, LoopShutdown, LoopAction, LoopFails,
      LoopPanics, LoopEnds, LoopClose, LoopTurns
  <2>4. calm /\ \A i \in Loops : Gone(i)' <=> Gone(i)
    BY <2>3 DEF LoopRegister, LoopAccept, LoopSubmit, LoopTurns, LoopListener,
      LoopWouldBlock, LoopAcceptFails, Gone, loops, history
  <2>5. CASE LoopSubmit(j)
    BY <1>3, <2>1, <2>2, <2>4, <2>5 DEF LoopSubmit, loops
  <2>6. CASE LoopAccept(j)
    <3>1. ReusePort
      BY <1>1, <2>6 DEF LoopAccept, LifeInv, EmptyInv, ListenInv
    <3> QED
      BY <2>4, <3>1 DEF CalmInv
  <2>7. CASE LoopRegister(j)
    <3>1. /\ queue[j] \in Seq(Conns \cup {"Shutdown"}) /\ queue[j] # <<>>
          /\ Head(queue[j]) # "Shutdown"
          /\ queue' = [queue EXCEPT ![j] = Tail(@)]
          /\ count' = [count EXCEPT ![j] = @ + 1]
      BY <1>1, <2>7 DEF LoopRegister, LoopsOK
    <3>2. /\ Cardinality(Registers(Tail(queue[j]))) \in Nat
          /\ R(j) = Cardinality(Registers(Tail(queue[j]))) + 1
      BY <3>1, RegistersTail DEF R
    <3>3. /\ queue'[j] = Tail(queue[j]) /\ count'[j] = count[j] + 1
          /\ \A i \in Loops : i # j => queue'[i] = queue[i] /\ count'[i] = count[i]
      BY <1>1, <3>1 DEF LoopsOK
    <3>4. \A i \in Loops : Sending(i) \in Nat
      BY DEF Sending
    <3>5. ~ReusePort => \A i \in Loops : given[i] = count[i] + R(i) + Sending(i)
      BY <2>4 DEF CalmInv, R
    <3>6. ASSUME ~ReusePort, NEW i \in Loops
          PROVE  given'[i] = count'[i] + Cardinality(Registers(queue'[i]))
                                + Sending(i)'
      <4>1. CASE i = j
        BY <1>2, <2>1, <2>2, <3>2, <3>3, <3>4, <3>5, <3>6, <4>1
      <4>2. CASE i # j
        BY <2>1, <2>2, <3>3, <3>5, <3>6, <4>2 DEF R
      <4> QED
        BY <4>1, <4>2
    <3> QED
      BY <2>4, <3>6 DEF CalmInv
  <2>8. CASE LoopTurns(j)
    BY <1>3, <2>1, <2>2, <2>4, <2>8 DEF LoopTurns, LoopListener,
      LoopWouldBlock, LoopAcceptFails
  <2> QED
    BY <2>3, <2>5, <2>6, <2>7, <2>8
<1>7. CASE \E c \in Conns : Connect(c)
  BY <1>3, <1>7 DEF Connect, Gone, Sending, loops, balancer, history
<1>8. ASSUME NEW c \in Callers, CallShutdown(c) \/ CallerStep(c)
      PROVE  /\ \A i \in Loops : ~Gone(i)'
             /\ ~ReusePort => \A i \in Loops :
                  given'[i] = count'[i] + Cardinality(Registers(queue'[i]))
                                + Sending(i)'
  <2>1. UNCHANGED <<calm, loop, count, given, acc, target>>
    BY <1>8 DEF CallShutdown, CallerStep, ClearRunning, SwapAwoken,
      WriteEventfd, ReadWorkers, SendShutdown, ShutdownSent, loops, balancer,
      acceptor, history
  <2>2. calm /\ \A i \in Loops : /\ Gone(i)' <=> Gone(i)
                                /\ Sending(i)' = Sending(i)
    BY <2>1 DEF Gone, Sending
  <2>3. CASE UNCHANGED queue
    BY <1>3, <2>1, <2>2, <2>3
  <2>4. CASE SendShutdown(c)
    <3>1. \A i \in Loops :
            \/ queue'[i] = queue[i]
            \/ queue'[i] = Append(queue[i], "Shutdown")
      BY <1>1, <2>4 DEF SendShutdown, LoopsOK
    <3>2. \A i \in Loops : /\ queue[i] \in Seq(Conns \cup {"Shutdown"})
                           /\ "Shutdown" \in Conns \cup {"Shutdown"}
      BY <1>1 DEF LoopsOK
    <3>3. \A i \in Loops : Cardinality(Registers(Append(queue[i], "Shutdown"))) =
                             Cardinality(Registers(queue[i]))
      BY <3>2, RegistersAppend
    <3>4. \A i \in Loops : Cardinality(Registers(queue'[i])) =
                             Cardinality(Registers(queue[i]))
      BY <3>1, <3>3
    <3> QED
      BY <2>1, <2>2, <3>4 DEF CalmInv
  <2> QED
    BY <1>8, <2>3, <2>4 DEF CallShutdown, CallerStep, ClearRunning, SwapAwoken,
      WriteEventfd, ReadWorkers, ShutdownSent, loops
<1>9. CASE AcceptorStep \/ AcceptorInterrupted \/ AcceptorFails \/ AcceptFails
  <2>1. CASE SelectRoundRobin \/ SelectLeast
    <3>1. PICK t \in Nat : /\ given' = [given EXCEPT ![t] = @ + 1]
                           /\ target' = t /\ acc' = "send"
      <4>1. N \in Nat /\ next \in Nat /\ scan \in Seq(Nat)
        BY <1>1 DEF BalancerOK
      <4> QED
        BY <2>1, <4>1, SelectedLoop DEF SelectRoundRobin, SelectLeast, Selected
    <3>2. acc = "select" /\ calm /\ UNCHANGED <<loop, count, queue>>
      BY <2>1 DEF SelectRoundRobin, SelectLeast, loops, history
    <3>3. \A i \in Loops : /\ Sending(i) = 0
                           /\ Sending(i)' = IF i = t THEN 1 ELSE 0
                           /\ given'[i] = given[i] + (IF i = t THEN 1 ELSE 0)
      BY <1>1, <1>2, <3>1, <3>2 DEF Sending, BalancerOK
    <3>4. \A i \in Loops : Gone(i)' <=> Gone(i)
      BY <3>2 DEF Gone
    <3>5. ~ReusePort => \A i \in Loops : given[i] = count[i] + R(i) + Sending(i)
      BY <3>2 DEF CalmInv, R
    <3>6. ~ReusePort => \A i \in Loops : given'[i] = count[i] + R(i) + Sending(i)'
      BY <1>2, <3>3, <3>5
    <3> QED
      BY <3>2, <3>4, <3>6 DEF CalmInv, R
  <2>2. CASE HandOver
    <3>1. /\ acc = "send" /\ acc' = "accept" /\ hand \in Conns /\ calm
          /\ UNCHANGED <<loop, count, given, target>>
          /\ queue' = IF target \in Loops /\ ~Gone(target)
                      THEN [queue EXCEPT ![target] = Append(@, hand)]
                      ELSE queue
      BY <1>1, <2>2 DEF HandOver, AfterSocket, HandInv, AcceptorOK, balancer,
        history
    <3>2. \A i \in Loops : /\ Sending(i) = IF i = target THEN 1 ELSE 0
                           /\ Sending(i)' = 0
                           /\ Gone(i)' <=> Gone(i)
      BY <3>1 DEF Sending, Gone
    <3>3. \A i \in Loops : ~Gone(i)
      BY <3>1 DEF CalmInv
    <3>4. \A i \in Loops :
            queue'[i] = IF i = target THEN Append(queue[i], hand) ELSE queue[i]
      BY <1>1, <3>1, <3>3 DEF LoopsOK
    <3>5. hand # "Shutdown"
      BY <3>1, EngineAssumption
    <3>6. \A i \in Loops :
            Cardinality(Registers(Append(queue[i], hand))) = R(i) + 1
      BY <1>1, <3>1, <3>5, RegistersAppend DEF LoopsOK, R
    <3>7. \A i \in Loops : Cardinality(Registers(queue'[i])) =
                             R(i) + (IF i = target THEN 1 ELSE 0)
      BY <1>2, <3>4, <3>6 DEF R
    <3>8. ~ReusePort => \A i \in Loops : given[i] = count[i] + R(i) + Sending(i)
      BY <3>1 DEF CalmInv, R
    <3> QED
      BY <1>2, <3>1, <3>2, <3>3, <3>7, <3>8
  <2>3. CASE ~(SelectRoundRobin \/ SelectLeast \/ HandOver)
    <3>1. /\ UNCHANGED <<loop, count, queue, given, target>> /\ calm
          /\ acc # "send" /\ acc' # "send"
      BY <1>1, <1>9, <2>3 DEF AcceptorStep, AcceptorInterrupted, AcceptorFails,
        AcceptFails, AcceptorCheck, AcceptorPoll, AcceptorWake,
        AcceptorListener, AcceptorBatchDone, Accept, AcceptWouldBlock,
        ReadCount, AcceptorEnds, loops, balancer, acceptor, history
    <3> QED
      BY <1>3, <3>1 DEF Gone, Sending
  <2> QED
    BY <2>1, <2>2, <2>3
<1> QED
  BY <1>4, <1>5, <1>6, <1>7, <1>8, <1>9 DEF Next, LoopDoes

(* The acceptor leaves the selection only with a loop selected, and calm   *)
(* never comes back.                                                       *)
LEMMA SelectFrame ==
  ASSUME TypeInv, [Next]_vars
  PROVE  /\ calm' => calm
         /\ acc = "select" /\ ~SelectRoundRobin /\ ~SelectLeast => acc' = "select"
<1>0. AcceptorUp /\ HistoryOK
  BY DEF TypeInv, TypeOK
<1> USE DEF acceptor, history
<1>1. CASE UNCHANGED vars
  BY <1>1 DEF vars
<1>2. CASE Build \/ StartFails \/ MainStep
  BY <1>0, <1>2 DEF MainStep, Build, StartFails, Bind, MakeLoop, LoopsMade,
    SetWorkers, NewAcceptor, SetAcceptor, SpawnAcceptor, NewPool, SpawnLoop,
    LoopsSpawned, JoinThread, JoinPanicked, AllJoined, StopPool, AcceptorUp,
    Main
<1>3. ASSUME NEW i \in Loops, LoopDoes(i)
      PROVE  (calm' => calm) /\ UNCHANGED acc
  BY <1>3 DEF LoopDoes, LoopStep, LoopRegister, LoopShutdown, LoopAccept,
    LoopListener, LoopWouldBlock, LoopAcceptFails,
    LoopAction, LoopFails, LoopPanics, LoopEnds, LoopClose, LoopSubmit
<1>4. CASE \/ \E c \in Conns : Connect(c)
           \/ \E c \in Callers : CallShutdown(c) \/ CallerStep(c)
  BY <1>4 DEF Connect, CallShutdown, CallerStep, ClearRunning, SwapAwoken,
    WriteEventfd, ReadWorkers, SendShutdown, ShutdownSent
<1>5. CASE SelectRoundRobin \/ SelectLeast
  BY <1>5 DEF SelectRoundRobin, SelectLeast
<1>6. CASE ReadCount
  BY <1>0, <1>6 DEF ReadCount, HistoryOK
<1>7. CASE /\ AcceptorStep \/ AcceptorInterrupted \/ AcceptorFails \/ AcceptFails
           /\ ~(SelectRoundRobin \/ SelectLeast \/ ReadCount)
  BY <1>7 DEF AcceptorStep, AcceptorInterrupted, AcceptorFails, AcceptFails,
    AcceptorCheck, AcceptorPoll, AcceptorWake, AcceptorListener,
    AcceptorBatchDone, Accept, AcceptWouldBlock, HandOver
<1> QED
  BY <1>1, <1>2, <1>3, <1>4, <1>5, <1>6, <1>7 DEF Next, LoopDoes

(* LeastConnections stays even while what it reads is exact.               *)
LEMMA LeastStep ==
  ASSUME TypeInv, CalmInv, LeastInv, [Next]_vars
  PROVE  LeastInv'
<1> DEFINE Even == \A i, j \in Loops : given[i] <= given[j] + 1
           Read == \A k \in 1..Len(scan) : acc = "select" /\ scan[k] = given[k - 1]
<1> SUFFICES ASSUME calm', Policy # "RoundRobin"
             PROVE  Even' /\ Read'
  BY Footprint DEF LeastInv, Policy
<1>1. /\ N \in Nat /\ LoopsOK /\ AcceptorUp /\ scan \in Seq(Nat) /\ Len(scan) <= N
      /\ given \in [Loops -> Nat] /\ Len(scan) \in Nat
  BY EngineAssumption DEF TypeInv, TypeOK, BalancerOK
<1>2. calm /\ Even /\ Read
  BY SelectFrame DEF LeastInv
<1>3. ~SelectRoundRobin
  BY DEF SelectRoundRobin
<1>4. CASE SelectLeast
  <2>1. /\ Len(scan) = N /\ scan' = <<>>
        /\ given' = [given EXCEPT ![LeastOf(scan)] = @ + 1]
    BY <1>4 DEF SelectLeast, Selected
  <2>2. Read'
    BY <2>1
  <2>3. CASE N = 0
    BY <2>2, <2>3 DEF Loops
  <2>4. CASE N # 0
    <3>1. PICK t \in Loops : /\ t = LeastOf(scan)
                             /\ \A j \in Loops : scan[t + 1] <= scan[j + 1]
      <4>1. N > 0 /\ Len(scan) = N /\ scan \in Seq(Nat)
        BY <1>1, <2>1, <2>4
      <4> HIDE DEF Even, Read
      <4>2. /\ LeastOf(scan) \in Loops
            /\ \A j \in Loops : scan[LeastOf(scan) + 1] <= scan[j + 1]
        BY <4>1, SelectedLoop
      <4> QED
        BY <4>2
    <3>2. \A j \in Loops : scan[j + 1] = given[j]
      <4> SUFFICES ASSUME NEW j \in Loops
                   PROVE  scan[j + 1] = given[j]
        OBVIOUS
      <4>1. j + 1 \in 1..Len(scan) /\ (j + 1) - 1 = j
        BY <1>1, <2>1 DEF Loops
      <4> QED
        BY <1>2, <4>1
    <3>3. \A j \in Loops : given[t] <= given[j]
      BY <3>1, <3>2
    <3>4. \A i \in Loops : given'[i] = given[i] + (IF i = t THEN 1 ELSE 0)
      BY <1>1, <2>1, <3>1
    <3>5. \A i \in Loops : given[i] \in Nat
      BY <1>1
    <3>6. Even'
      BY <1>2, <3>3, <3>4, <3>5
    <3> QED
      BY <2>2, <3>6
  <2> QED
    BY <2>3, <2>4
<1>5. CASE ReadCount
  <2>1. /\ acc = "select" /\ Len(scan) < N /\ acc' = acc /\ given' = given
        /\ scan' = Append(scan, count[Len(scan)])
        /\ \A i \in Loops : queue[i] = <<>>
    BY <1>5 DEF ReadCount, acceptor
  <2>2. Len(scan) \in Loops /\ ~ReusePort
    BY <1>1, <2>1 DEF Loops, AcceptorUp
  <2>3. Registers(<<>>) = {}
    BY DEF Registers
  <2>4. count[Len(scan)] = given[Len(scan)] /\ count[Len(scan)] \in Nat
    <3>1. /\ count[Len(scan)] \in Nat
          /\ Cardinality(Registers(queue[Len(scan)])) = 0
          /\ Sending(Len(scan)) = 0
      BY <1>1, <2>1, <2>2, <2>3, FS_EmptySet DEF LoopsOK, Sending
    <3>2. given[Len(scan)] =
            count[Len(scan)] + Cardinality(Registers(queue[Len(scan)]))
              + Sending(Len(scan))
      BY <1>2, <2>2 DEF CalmInv
    <3> QED
      BY <3>1, <3>2
  <2>5. /\ Len(scan') = Len(scan) + 1
        /\ \A k \in 1..Len(scan) : scan'[k] = scan[k]
        /\ scan'[Len(scan) + 1] = count[Len(scan)]
    BY <1>1, <2>1, <2>4, AppendElements
  <2>6. Read'
    <3> SUFFICES ASSUME NEW k \in 1..(Len(scan) + 1)
                 PROVE  scan'[k] = given[k - 1]
      BY <2>1, <2>5
    <3>1. CASE k \in 1..Len(scan)
      BY <1>2, <2>5, <3>1
    <3>2. CASE k = Len(scan) + 1
      BY <1>1, <2>4, <2>5, <3>2
    <3> QED
      BY <1>1, <3>1, <3>2
  <2> QED
    BY <1>2, <2>1, <2>6
<1>6. CASE UNCHANGED <<given, scan>> /\ ~SelectLeast
  BY <1>2, <1>3, <1>6, SelectFrame
<1> QED
  BY <1>3, <1>4, <1>5, <1>6, Footprint DEF ReadCount

(* The balancer deals evenly, for any number of loops: RoundRobin always,  *)
(* LeastConnections as long as no connection ends and no socket handed out *)
(* is still on its way when it reads the counts (balancer.rs 46-75).       *)
THEOREM DealtEvenly == Spec => []LoadEven
<1>1. Init => LoadInv
  <2> SUFFICES ASSUME Init
               PROVE  LoadInv
    OBVIOUS
  <2>1. N \in Nat /\ N > 0 => 0 % N = 0
    OBVIOUS
  <2>2. \A i \in Loops : i \in Nat
    BY EngineAssumption DEF Loops
  <2>3. RotationInv
    <3>1. ASSUME N > 0
          PROVE  \A i \in Loops : given[i] = 0 + (IF i < next % N THEN 1 ELSE 0)
      BY <2>1, <2>2, <3>1, EngineAssumption DEF Init
    <3> QED
      BY <3>1 DEF RotationInv
  <2>4. Registers(<<>>) = {}
    BY DEF Registers
  <2>5. CalmInv
    <3>1. \A i \in Loops : /\ ~Gone(i) /\ given[i] = 0 /\ count[i] = 0
                           /\ Sending(i) = 0 /\ queue[i] = <<>>
      BY DEF Init, Gone, Sending
    <3>2. Cardinality(Registers(<<>>)) = 0
      BY <2>4, FS_EmptySet
    <3> QED
      BY <3>1, <3>2 DEF CalmInv
  <2>6. LeastInv
    BY DEF Init, LeastInv
  <2> QED
    BY <2>3, <2>5, <2>6 DEF LoadInv
<1>2. TypeInv /\ LifeInv /\ LoadInv /\ [Next]_vars => LoadInv'
  BY RotationStep, CalmStep, LeastStep DEF LoadInv
<1>3. TypeInv /\ LoadInv => LoadEven
  <2> SUFFICES ASSUME TypeInv, LoadInv, NEW i \in Loops, NEW j \in Loops,
                      Policy = "RoundRobin" \/ calm
               PROVE  given[i] <= given[j] + 1
    BY DEF LoadEven
  <2>1. CASE Policy = "RoundRobin"
    <3>1. N > 0
      BY EngineAssumption DEF Loops
    <3> QED
      BY <2>1, <3>1 DEF LoadInv, RotationInv
  <2>2. CASE Policy # "RoundRobin"
    BY <2>2 DEF LoadInv, LeastInv
  <2> QED
    BY <2>1, <2>2
<1> QED
  BY <1>1, <1>2, <1>3, TypeInit, TypeStep, LifeInit, LifeStep, PTL DEF Spec
=============================================================================
