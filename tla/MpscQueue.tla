------------------------------ MODULE MpscQueue ------------------------------
(***************************************************************************)
(* MPSCQueue: many producers link nodes at the head, one consumer takes    *)
(* them from the tail.  A producer first makes its node the head and then  *)
(* links it, so the list may be broken in between.                         *)
(***************************************************************************)
EXTENDS Integers, Sequences

CONSTANTS
    Producers,
    MaxNodes,      \* a bound: nodes ever made; node 0 is the first dummy
    SizeValues     \* 2^64: the values of a size_t

ASSUME MpscAssumption == MaxNodes \in Nat /\ SizeValues \in Nat /\ SizeValues > MaxNodes

VARIABLES
    head,          \* head_
    tail,          \* tail_, the dummy before the first value
    next,          \* a node's next, or Nil
    freed,         \* nodes deleted
    producer,      \* a producer: its place, its node and the head it replaced
    count,         \* count_
    taken,         \* what the consumer has got, in order
    order          \* nodes in the order in which they became the head

mpscVars == <<head, tail, next, freed, producer, count, taken, order>>

Nodes == 0 .. MaxNodes
Nil == -1
IdleProducer == [pc |-> "idle", node |-> 0, prev |-> 0]

MpscTypeOK ==
    /\ head \in Nodes /\ tail \in Nodes /\ next \in [Nodes -> Nodes \cup {Nil}] /\ freed \subseteq Nodes
    /\ producer \in [Producers -> [pc: {"idle", "link", "count"}, node: Nodes, prev: Nodes]]
    /\ count \in 0 .. SizeValues - 1 /\ taken \in Seq(Nodes) /\ order \in Seq(Nodes)

MpscInit ==
    /\ head = 0 /\ tail = 0 /\ next = [n \in Nodes |-> Nil] /\ freed = {}
    /\ producer = [p \in Producers |-> IdleProducer]
    /\ count = 0 /\ taken = <<>> /\ order = <<>>

(* Push: a new node becomes the head, is linked, and is counted.             *)
Fresh == Len(order) + Len(taken) + 1

Exchanges(p) ==
    /\ producer[p].pc = "idle" /\ Fresh <= MaxNodes
    /\ producer' = [producer EXCEPT ![p] = [pc |-> "link", node |-> Fresh, prev |-> head]]
    /\ head' = Fresh /\ order' = Append(order, Fresh)
    /\ UNCHANGED <<tail, next, freed, count, taken>>

LinkedTo_Head(p) == head
LinkedTo(p) == producer[p].node

Links(p) ==
    /\ producer[p].pc = "link"
    /\ next' = [next EXCEPT ![producer[p].prev] = LinkedTo(p)]
    /\ producer' = [producer EXCEPT ![p].pc = "count"]
    /\ UNCHANGED <<head, tail, freed, count, taken, order>>

Counts(p) ==
    /\ producer[p].pc = "count"
    /\ count' = (count + 1) % SizeValues
    /\ producer' = [producer EXCEPT ![p] = IdleProducer]
    /\ UNCHANGED <<head, tail, next, freed, taken, order>>

(* Pop: the node after the dummy becomes the dummy.                          *)
Deleted_Next == next[tail]
Deleted == tail

Pop ==
    /\ next[tail] # Nil
    /\ taken' = Append(taken, next[tail]) /\ tail' = next[tail] /\ freed' = freed \cup {Deleted}
    /\ count' = (count - 1) % SizeValues
    /\ order' = IF order = <<>> THEN order ELSE Tail(order)
    /\ UNCHANGED <<head, next, producer>>

MpscNext == Pop \/ \E p \in Producers : Exchanges(p) \/ Links(p) \/ Counts(p)
MpscSpec == MpscInit /\ [][MpscNext]_mpscVars
MpscFairness == WF_mpscVars(Pop) /\ \A p \in Producers : WF_mpscVars(Links(p)) /\ WF_mpscVars(Counts(p))

(* The linked list with two steps to a push is a queue whose values enter    *)
(* when their node becomes the head.                                         *)
Fifo == INSTANCE MpscFifo WITH Values <- 1 .. MaxNodes, items <- order, out <- taken
MpscIsFifo == Fifo!FifoSpec

(* A producer never writes to a node that has been deleted.                  *)
NoWriteAfterFree == \A p \in Producers : producer[p].pc = "link" => producer[p].prev \notin freed /\ head \notin freed

(* A value whose push has begun is taken, however the producers are held up  *)
(* in between.                                                               *)
MpscDelivers == order # <<>> ~> order = <<>>

(* The queue is a FIFO, and no producer writes to a node that the consumer   *)
(* has deleted.                                                              *)
MpscCorrect == [](MpscTypeOK /\ NoWriteAfterFree) /\ MpscIsFifo
=============================================================================
