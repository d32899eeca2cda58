--------------------------- MODULE QueueContract ---------------------------
(***************************************************************************)
(* What a Run of the queue promises while no storage call fails: every     *)
(* request submitted is begun once, by one of Width threads, and Run       *)
(* returns when there is nothing pending and nobody at work, or at any     *)
(* time after a Halt.  How the threads find the requests and how the end   *)
(* is noticed is left open.                                                *)
(***************************************************************************)
EXTENDS Naturals, FiniteSets

CONSTANTS Requests, Width

VARIABLES status,    \* of Run: "idle", "running" or "returned"
          halted,    \* somebody has asked the Run to end
          pending, working, finished

contractVars == <<status, halted, pending, working, finished>>

Init ==
  /\ status = "idle" /\ ~halted
  /\ pending = {} /\ working = {} /\ finished = {}

Submit(r) ==
  /\ r \notin pending \cup working \cup finished
  /\ pending' = pending \cup {r}
  /\ UNCHANGED <<status, halted, working, finished>>

Open ==
  /\ status = "idle"
  /\ status' = "running" /\ ~halted'
  /\ UNCHANGED <<pending, working, finished>>

Begin(r) ==
  /\ status = "running"
  /\ r \in pending /\ Cardinality(working) < Width
  /\ pending' = pending \ {r}
  /\ working' = working \cup {r}
  /\ UNCHANGED <<status, halted, finished>>

End(r) ==
  /\ r \in working
  /\ working' = working \ {r}
  /\ finished' = finished \cup {r}
  /\ UNCHANGED <<status, halted, pending>>

Halt ==
  /\ halted' = TRUE
  /\ UNCHANGED <<status, pending, working, finished>>

Return ==
  /\ status = "running"
  /\ halted \/ (pending = {} /\ working = {})
  /\ status' = "returned"
  /\ UNCHANGED <<halted, pending, working, finished>>

Next ==
  \/ \E r \in Requests : Submit(r) \/ Begin(r) \/ End(r)
  \/ Open \/ Halt \/ Return

Safety == Init /\ [][Next]_contractVars

(* After a Halt nobody is obliged to end what was begun: in the code a     *)
(* callback may hang in its AddRequest then.                               *)
Spec ==
  /\ Safety
  /\ WF_contractVars(\E r \in Requests : Begin(r))
  /\ WF_contractVars(~halted /\ \E r \in Requests : End(r))
  /\ WF_contractVars(Return)

=============================================================================
