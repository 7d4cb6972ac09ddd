----------------------------- MODULE HubProofs ------------------------------
(***************************************************************************)
(* For any players and any lengths, no consumer of a queue of the hub      *)
(* finds it empty between empty() and pop().  The argument: each queue has *)
(* one consumer, so nobody else makes it shorter.                          *)
(***************************************************************************)
EXTENDS MessageHub, TLAPS

Place == {"IDLE", "FIND", "PUSH", "EMPTY", "FRONT", "CALLBACK", "POP"}

Holding == {"FRONT", "CALLBACK", "POP"}

(* The calls of the threads are on queues that are theirs to access. *)
HubTypeOK ==
  /\ length \in [Queue -> Nat]
  /\ producing \in [Thread -> [at : Place, queue : Queue]]
  /\ consuming \in [Thread -> [at : Place, queue : Queue]]

ConsumesItsOwn ==
  \A t \in Thread :
    consuming[t].at # "IDLE" => consuming[t].queue \in Consumes[t]

HubInv == HubTypeOK /\ ConsumesItsOwn /\ PopsFindAMessage

(* A queue has one consumer. *)
LEMMA OneConsumer ==
  ASSUME NEW t \in Thread, NEW u \in Thread, t # u
  PROVE  Consumes[t] \cap Consumes[u] = {}
BY DEF Thread, Consumes, ToGame, GameplayQueue, ActionQueue, Connectivity

(* A call begins at a queue, with an access to it or to its map. *)
LEMMA EntryType ==
  ASSUME NEW queue \in Queue, NEW first \in Place
  PROVE  Entry(queue, first) \in [at : Place, queue : Queue]
BY DEF Entry, Place

LEMMA HubInit == Init => HubInv
BY DEF Init, HubInv, HubTypeOK, ConsumesItsOwn, PopsFindAMessage, Thread,
       Idle, Place, Queue

(* A thread that produces leaves the consumers where they are and makes no *)
(* queue shorter.                                                          *)
LEMMA ProducerKeeps ==
  ASSUME HubInv, HubTypeOK', UNCHANGED consuming,
         \A queue \in Queue : length'[queue] >= length[queue]
  PROVE  HubInv'
<1>1. ConsumesItsOwn'
  BY DEF HubInv, ConsumesItsOwn
<1>2. PopsFindAMessage'
  BY DEF HubInv, HubTypeOK, PopsFindAMessage, Queue
<1> QED
  BY <1>1, <1>2 DEF HubInv

(* A thread that consumes changes the length of no queue, and may only     *)
(* hold a message it has found.                                            *)
LEMMA ConsumerKeeps ==
  ASSUME HubInv, HubTypeOK', UNCHANGED length,
         NEW t \in Thread,
         \A u \in Thread \ {t} : consuming'[u] = consuming[u],
         consuming'[t].at # "IDLE" => consuming'[t].queue \in Consumes[t],
         consuming'[t].at \in Holding => length[consuming'[t].queue] > 0
  PROVE  HubInv'
<1>1. ConsumesItsOwn'
  BY DEF HubInv, ConsumesItsOwn
<1>2. PopsFindAMessage'
  BY DEF HubInv, PopsFindAMessage, Holding
<1> QED
  BY <1>1, <1>2 DEF HubInv

LEMMA HubStep == HubInv /\ [Next]_vars => HubInv'
<1> SUFFICES ASSUME HubInv, [Next]_vars
             PROVE  HubInv'
  OBVIOUS
<1> USE DEF HubInv
<1>1. CASE UNCHANGED vars
  BY <1>1 DEF vars, HubTypeOK, ConsumesItsOwn, PopsFindAMessage
<1>2. ASSUME NEW t \in Thread, NEW queue \in Queue, Produce(t, queue)
      PROVE  HubInv'
  <2>1. HubTypeOK'
    BY <1>2, EntryType DEF Produce, HubTypeOK, Place
  <2> QED
    BY <1>2, <2>1, ProducerKeeps DEF Produce, HubTypeOK
<1>3. ASSUME NEW t \in Thread, FindToPush(t)
      PROVE  HubInv'
  <2>1. HubTypeOK'
    BY <1>3 DEF FindToPush, To, HubTypeOK, Place
  <2> QED
    BY <1>3, <2>1, ProducerKeeps DEF FindToPush, HubTypeOK
<1>4. ASSUME NEW t \in Thread, Push(t)
      PROVE  HubInv'
  <2>1. HubTypeOK'
    <3>1. Idle \in [at : Place, queue : Queue]
      BY DEF Idle, Place, Queue
    <3>2. producing' \in [Thread -> [at : Place, queue : Queue]]
      BY <1>4, <3>1 DEF Push, HubTypeOK
    <3>3. length' \in [Queue -> Nat]
      BY <1>4 DEF Push, HubTypeOK
    <3> QED
      BY <1>4, <3>2, <3>3 DEF Push, HubTypeOK
  <2>2. \A queue \in Queue : length'[queue] >= length[queue]
    BY <1>4 DEF Push, HubTypeOK
  <2> QED
    BY <1>4, <2>1, <2>2, ProducerKeeps DEF Push
<1>5. ASSUME NEW t \in Thread, NEW queue \in Queue, Consume(t, queue)
      PROVE  HubInv'
  <2>1. HubTypeOK'
    BY <1>5, EntryType DEF Consume, HubTypeOK, Place
  <2>2. /\ consuming'[t].queue \in Consumes[t]
        /\ consuming'[t].at \notin Holding
    BY <1>5 DEF Consume, Entry, HubTypeOK, Holding
  <2>3. \A u \in Thread \ {t} : consuming'[u] = consuming[u]
    BY <1>5 DEF Consume, HubTypeOK
  <2> QED
    BY <1>5, <2>1, <2>2, <2>3, ConsumerKeeps DEF Consume
<1>6. ASSUME NEW t \in Thread, FindToPop(t)
      PROVE  HubInv'
  <2>1. HubTypeOK'
    BY <1>6 DEF FindToPop, To, HubTypeOK, Place
  <2>2. /\ consuming'[t].queue \in Consumes[t]
        /\ consuming'[t].at \notin Holding
    BY <1>6 DEF FindToPop, To, HubTypeOK, ConsumesItsOwn, Holding
  <2>3. \A u \in Thread \ {t} : consuming'[u] = consuming[u]
    BY <1>6 DEF FindToPop, To, HubTypeOK
  <2> QED
    BY <1>6, <2>1, <2>2, <2>3, ConsumerKeeps DEF FindToPop
<1>7. ASSUME NEW t \in Thread, Empty(t)
      PROVE  HubInv'
  <2>1. /\ UNCHANGED <<length, producing>>
        /\ \/ consuming' = [consuming EXCEPT ![t] = Idle]
           \/ /\ length[consuming[t].queue] # 0
              /\ consuming' = To(consuming, t, "FRONT")
    BY <1>7 DEF Empty
  <2>2. HubTypeOK'
    BY <2>1 DEF To, HubTypeOK, Place, Idle, Queue
  <2>3. /\ consuming'[t].at # "IDLE" => consuming'[t].queue \in Consumes[t]
        /\ consuming'[t].at \in Holding => length[consuming'[t].queue] > 0
    BY <1>7, <2>1 DEF Empty, To, HubTypeOK, ConsumesItsOwn, Holding, Idle
  <2>4. \A u \in Thread \ {t} : consuming'[u] = consuming[u]
    BY <2>1 DEF To, HubTypeOK
  <2> QED
    BY <2>1, <2>2, <2>3, <2>4, ConsumerKeeps
<1>8. ASSUME NEW t \in Thread, Front(t) \/ Return(t)
      PROVE  HubInv'
  <2>1. /\ UNCHANGED <<length, producing>>
        /\ consuming[t].at \in {"FRONT", "CALLBACK"}
        /\ \E at \in {"CALLBACK", "POP"} : consuming' = To(consuming, t, at)
    BY <1>8 DEF Front, Return
  <2>2. HubTypeOK'
    BY <2>1 DEF To, HubTypeOK, Place
  <2>3. /\ consuming'[t].queue \in Consumes[t]
        /\ length[consuming'[t].queue] > 0
    BY <2>1 DEF To, HubTypeOK, ConsumesItsOwn, PopsFindAMessage
  <2>4. \A u \in Thread \ {t} : consuming'[u] = consuming[u]
    BY <2>1 DEF To, HubTypeOK
  <2> QED
    BY <2>1, <2>2, <2>3, <2>4, ConsumerKeeps
<1>9. ASSUME NEW t \in Thread, Pop(t)
      PROVE  HubInv'
  <2> DEFINE queue == consuming[t].queue
  <2>1. /\ queue \in Queue
        /\ queue \in Consumes[t]
        /\ length[queue] \in Nat \ {0}
    BY <1>9 DEF Pop, HubTypeOK, ConsumesItsOwn, PopsFindAMessage
  <2>2. HubTypeOK'
    <3>1. length' = [length EXCEPT ![queue] = length[queue] - 1]
      BY <1>9 DEF Pop
    <3>2. length[queue] - 1 \in Nat
      BY <2>1
    <3>3. length' \in [Queue -> Nat]
      BY <3>1, <3>2 DEF HubTypeOK
    <3> QED
      BY <1>9, <3>3 DEF Pop, To, HubTypeOK, Place
  <2>3. ConsumesItsOwn'
    BY <1>9 DEF Pop, To, HubTypeOK, ConsumesItsOwn
  <2>4. ASSUME NEW u \in Thread, consuming'[u].at \in Holding
        PROVE  length'[consuming'[u].queue] > 0
    <3>1. u # t
      BY <1>9, <2>4 DEF Pop, To, HubTypeOK, Holding
    <3>2. consuming'[u] = consuming[u]
      BY <1>9, <3>1 DEF Pop, To, HubTypeOK
    <3>3. consuming[u].queue \in Queue \ {queue}
      BY <2>1, <2>4, <3>1, <3>2, OneConsumer
         DEF HubTypeOK, ConsumesItsOwn, Holding
    <3>4. length'[consuming[u].queue] = length[consuming[u].queue]
      BY <1>9, <3>3 DEF Pop, HubTypeOK
    <3> QED
      BY <2>4, <3>2, <3>4 DEF PopsFindAMessage, Holding
  <2> QED
    BY <2>2, <2>3, <2>4 DEF PopsFindAMessage, Holding
<1> QED
  BY <1>1, <1>2, <1>3, <1>4, <1>5, <1>6, <1>7, <1>8, <1>9 DEF Next

(***************************************************************************)
(* Whatever the two threads do at the same time, front() and pop() find a  *)
(* message in the queue that empty() was asked about: the dispatchMessages *)
(* of both brokers are right about that, and need no lock for it.          *)
(***************************************************************************)
THEOREM PopsAreSafe == Spec => []PopsFindAMessage
<1>1. HubInv => PopsFindAMessage
  BY DEF HubInv
<1> QED
  BY HubInit, HubStep, <1>1, PTL DEF Spec
=============================================================================
