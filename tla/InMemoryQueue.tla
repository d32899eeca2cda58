--------------------------- MODULE InMemoryQueue ---------------------------
(***************************************************************************)
(* InMemoryQueueStorage (queue/in_memory.go): the storage as the code      *)
(* keeps it, a singly linked list with a first and a last pointer and a    *)
(* separate counter.  heap holds every inMemoryQueueItem ever allocated;   *)
(* the address of an item is its index and 0 is the nil pointer.           *)
(***************************************************************************)
EXTENDS Naturals, Sequences

CONSTANTS Requests, NoRequest, MaxSize,
          MaxAllocs   \* bound: how many items a behaviour may allocate

ASSUME QueueAssumption ==
  /\ NoRequest \notin Requests
  /\ MaxSize \in Nat
  /\ MaxAllocs \in Nat

VARIABLES heap, first, last, size, reply

vars == <<heap, first, last, size, reply>>

Nil == 0

Item == [request : Requests, next : Nat]

Answer(op, e, r, n) == [op |-> op, err |-> e, req |-> r, size |-> n]

Init ==
  /\ heap = <<>>
  /\ first = Nil
  /\ last = Nil
  /\ size = 0
  /\ reply = Answer("Init", "nil", NoRequest, 0)

FullTooLate == MaxSize > 0 /\ size > MaxSize   \* slip: > for >=
Full == MaxSize > 0 /\ size >= MaxSize

(* The list with the new item hung behind the current last one.            *)
LinkNever(item) == heap                        \* slip: Last.Next not set
LinkAfterLast(item) ==
  IF first = Nil THEN heap ELSE [heap EXCEPT ![last].next = item]

AddRequest(r) ==
  \/ /\ Full
     /\ reply' = Answer("AddRequest", "ErrQueueFull", NoRequest, 0)
     /\ UNCHANGED <<heap, first, last, size>>
  \/ /\ ~Full
     /\ Len(heap) < MaxAllocs
     /\ LET item == Len(heap) + 1
        IN  /\ heap' = Append(LinkAfterLast(item),
                              [request |-> r, next |-> Nil])
            /\ first' = IF first = Nil THEN item ELSE first
            /\ last' = item
     /\ size' = size + 1
     /\ reply' = Answer("AddRequest", "nil", NoRequest, 0)

GetRequest ==
  \/ /\ size = 0
     /\ reply' = Answer("GetRequest", "nil", NoRequest, 0)
     /\ UNCHANGED <<heap, first, last, size>>
  \/ /\ size # 0
     /\ reply' = Answer("GetRequest", "nil", heap[first].request, 0)
     /\ first' = heap[first].next
     /\ size' = size - 1
     /\ UNCHANGED <<heap, last>>

QueueSize ==
  /\ reply' = Answer("QueueSize", "nil", NoRequest, size)
  /\ UNCHANGED <<heap, first, last, size>>

Next ==
  \/ \E r \in Requests : AddRequest(r)
  \/ GetRequest
  \/ QueueSize

Spec == Init /\ [][Next]_vars

-----------------------------------------------------------------------------
(* The counter and the pointers stay in range.                             *)
TypeOK ==
  /\ heap \in Seq(Item)
  /\ first \in 0..Len(heap)
  /\ last \in 0..Len(heap)
  /\ size \in 0..Len(heap)
  /\ reply \in [op : {"Init", "AddRequest", "GetRequest", "QueueSize"},
                err : {"nil", "ErrQueueFull"}, req : Requests \cup {NoRequest},
                size : Nat]

(* The addresses met when following Next from first, as far as the counter *)
(* says there are items.                                                   *)
Walk[i \in 1..size] == IF i = 1 THEN first ELSE heap[Walk[i - 1]].next

(* AddRequest and GetRequest keep the counter and the list in step: the    *)
(* chain from first has exactly size items, ends at last and stops there,  *)
(* also after the list was emptied (when last is left dangling) and        *)
(* refilled.                                                               *)
ChainMatchesSize ==
  IF size = 0
  THEN first = Nil
  ELSE /\ \A i \in 1..size : Walk[i] # Nil
       /\ Walk[size] = last
       /\ heap[last].next = Nil

-----------------------------------------------------------------------------
(* Items are allocated in the order they are queued, so the queued ones    *)
(* are the last size of the heap.                                          *)
Contents == [i \in 1..size |-> heap[Len(heap) - size + i].request]

Fifo == INSTANCE BoundedFifo WITH items <- Contents

(* The linked list is a bounded first-in first-out queue: every call       *)
(* changes the contents, and answers its caller, as that queue does.  This *)
(* is not all that queue.Storage says (queue.go:22-24): its GetRequest     *)
(* "returns error if the queue is empty", here that answer is nil, nil.    *)
ImplementsFifo == Fifo!Spec

(* The inductive invariant: the queued items are the last size items of    *)
(* the heap, each linked to its successor.                                 *)
ListShape ==
  /\ size = 0 => first = Nil
  /\ size > 0 => first = Len(heap) - size + 1 /\ last = Len(heap)
  /\ \A i \in 1..Len(heap) :
        i > Len(heap) - size =>
           heap[i].next = IF i = Len(heap) THEN Nil ELSE i + 1

ListInv == TypeOK /\ ListShape /\ (MaxSize > 0 => size <= MaxSize)

=============================================================================
