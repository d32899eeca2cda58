---------------------------- MODULE BoundedFifo ----------------------------
(***************************************************************************)
(* A first-in first-out queue of serialized requests with an optional      *)
(* capacity: what the linked list of queue/in_memory.go amounts to         *)
(* (InMemoryQueue implements it) and the dispatcher is built on            *)
(* (RequestQueue).  It is not the interface queue.Storage, which wants an  *)
(* error from GetRequest when the queue is empty (queue.go:22-24): the     *)
(* code answers nil and no error, and so does Miss.  Every call holds the  *)
(* storage's lock from its first line to its last, so each is one step.    *)
(***************************************************************************)
EXTENDS Naturals, Sequences

CONSTANTS Requests,   \* the serialized requests
          NoRequest,  \* the nil a call without a request to hand out returns
          MaxSize     \* capacity, 0 for none

VARIABLES items,      \* the stored requests, oldest first
          reply       \* what the last call returned to its caller

fifoVars == <<items, reply>>

Answer(op, e, r, n) == [op |-> op, err |-> e, req |-> r, size |-> n]

Full == MaxSize > 0 /\ Len(items) >= MaxSize

(* The effects on the stored requests alone.                               *)
AcceptInFront(r) == ~Full /\ items' = <<r>> \o items    \* slip: wrong end
Accept(r) == ~Full /\ items' = Append(items, r)

Refuse == Full /\ UNCHANGED items

Take(r) == items # <<>> /\ r = Head(items) /\ items' = Tail(items)

Miss == items = <<>> /\ UNCHANGED items

(* The same effects with the answers the callers see.                      *)
AddRequest(r) ==
  \/ Accept(r) /\ reply' = Answer("AddRequest", "nil", NoRequest, 0)
  \/ Refuse /\ reply' = Answer("AddRequest", "ErrQueueFull", NoRequest, 0)

GetRequest ==
  \/ \E r \in Requests : Take(r) /\ reply' = Answer("GetRequest", "nil", r, 0)
  \/ Miss /\ reply' = Answer("GetRequest", "nil", NoRequest, 0)

QueueSize ==
  /\ UNCHANGED items
  /\ reply' = Answer("QueueSize", "nil", NoRequest, Len(items))

Init ==
  /\ items = <<>>
  /\ reply = Answer("Init", "nil", NoRequest, 0)

Next ==
  \/ \E r \in Requests : AddRequest(r)
  \/ GetRequest
  \/ QueueSize

Spec == Init /\ [][Next]_fifoVars

=============================================================================
