------------------------------ MODULE SqsQueue ------------------------------
(***************************************************************************)
(* One SQS queue with its redrive policy, as the workers use it through    *)
(* repoviva_common.messaging.                                              *)
(*                                                                         *)
(* A queue is a function from slots to messages.  A slot that holds no     *)
(* message is Free, so the number of slots bounds the messages that exist  *)
(* at once, never the number sent over time.  Delivery is unordered and at *)
(* least once: any visible message may be received next, and one that was  *)
(* received but not deleted is received again until the redrive policy     *)
(* moves it to the dead-letter queue.                                      *)
(*                                                                         *)
(* Every queue has one consumer that takes one message at a time           *)
(* (run_worker), so a message whose visibility lapses while it is being    *)
(* handled cannot be received again before its handler is done: a failed   *)
(* heartbeat changes nothing, and the wait for the visibility timeout is   *)
(* the choice of when a returned message is received next.                 *)
(***************************************************************************)
EXTENDS Naturals

CONSTANTS
  MaxReceiveCount,  \* receives before a message is dead-lettered
  NoBody            \* the body of a free slot

ASSUME MaxReceiveCountAssumption == MaxReceiveCount \in Nat \ {0}

Free == [st |-> "free", receives |-> 0, body |-> NoBody]

Message(bodies) ==
  [st       : {"free", "visible", "inflight", "dead"},
   receives : 0..MaxReceiveCount,
   body     : bodies \cup {NoBody}]

EmptyQueue(slots) == [m \in slots |-> Free]

FreeSlots(q) == {m \in DOMAIN q : q[m].st = "free"}

\* Messages that were sent and are neither deleted nor dead-lettered.
Live(q) == {m \in DOMAIN q : q[m].st \in {"visible", "inflight"}}

Dead(q) == {m \in DOMAIN q : q[m].st = "dead"}

\* The body b arrives in every slot of S: one copy per accepted send.
Put(q, S, b) ==
  [m \in DOMAIN q |->
     IF m \in S THEN [st |-> "visible", receives |-> 0, body |-> b] ELSE q[m]]

Receive(q, m) == [q EXCEPT ![m].st = "inflight", ![m].receives = @ + 1]

\* Mutant of Return: no redrive policy.
ReturnForever(q, m) == [q EXCEPT ![m].st = "visible"]

\* The handler did not return: visible again, or dead after the last receive.
Return(q, m) ==
  [q EXCEPT ![m].st = IF q[m].receives < MaxReceiveCount THEN "visible" ELSE "dead"]

Delete(q, m) == [q EXCEPT ![m] = Free]
=============================================================================
