--------------------------- MODULE SqsQueueProofs ---------------------------
(***************************************************************************)
(* What each queue operation does to a well-formed queue.  The proofs of   *)
(* the components cite these facts and never expand the operations.        *)
(***************************************************************************)
EXTENDS SqsQueue, TLAPS

\* Messages have bodies, and one that can still be received has receives left.
WellFormed(q, slots, bodies) ==
  /\ q \in [slots -> Message(bodies)]
  /\ \A m \in slots :
       /\ q[m].st # "free" => q[m].body \in bodies
       /\ q[m].st = "visible" => q[m].receives < MaxReceiveCount

\* An empty queue is well formed.
LEMMA EmptyQueueWellFormed ==
  ASSUME NEW slots, NEW bodies
  PROVE  WellFormed(EmptyQueue(slots), slots, bodies)
BY MaxReceiveCountAssumption DEF WellFormed, EmptyQueue, Free, Message

\* A send (send_job, publish_event) fills the slots of S and no other.
LEMMA PutFacts ==
  ASSUME NEW slots, NEW bodies, NEW q, WellFormed(q, slots, bodies),
         NEW S \in SUBSET slots, NEW b \in bodies
  PROVE  /\ WellFormed(Put(q, S, b), slots, bodies)
         /\ \A m \in S : Put(q, S, b)[m].st = "visible" /\ Put(q, S, b)[m].body = b
         /\ \A m \in slots \ S : Put(q, S, b)[m] = q[m]
<1>1. Put(q, S, b) \in [slots -> Message(bodies)]
  BY MaxReceiveCountAssumption DEF Put, WellFormed, Message
<1>2. \A m \in S : Put(q, S, b)[m] = [st |-> "visible", receives |-> 0, body |-> b]
  BY DEF Put, WellFormed
<1>3. \A m \in slots \ S : Put(q, S, b)[m] = q[m]
  BY DEF Put, WellFormed
<1> QED
  BY <1>1, <1>2, <1>3, MaxReceiveCountAssumption DEF WellFormed

\* The same for a single copy.
LEMMA PutOneFacts ==
  ASSUME NEW slots, NEW bodies, NEW q, WellFormed(q, slots, bodies),
         NEW m \in slots, NEW b \in bodies
  PROVE  /\ WellFormed(Put(q, {m}, b), slots, bodies)
         /\ Put(q, {m}, b)[m].st = "visible"
         /\ Put(q, {m}, b)[m].body = b
         /\ \A n \in slots \ {m} : Put(q, {m}, b)[n] = q[n]
<1>1. {m} \in SUBSET slots
  OBVIOUS
<1> QED
  BY <1>1, PutFacts

\* A receive (_poll) takes a visible message out of sight and counts.
LEMMA ReceiveFacts ==
  ASSUME NEW slots, NEW bodies, NEW q, WellFormed(q, slots, bodies),
         NEW m \in slots, q[m].st = "visible"
  PROVE  /\ WellFormed(Receive(q, m), slots, bodies)
         /\ Receive(q, m)[m].st = "inflight"
         /\ Receive(q, m)[m].body = q[m].body
         /\ \A n \in slots \ {m} : Receive(q, m)[n] = q[n]
<1>1. q[m].receives + 1 \in 0..MaxReceiveCount
  BY MaxReceiveCountAssumption DEF WellFormed, Message
<1>2. Receive(q, m) = [q EXCEPT ![m] = [q[m] EXCEPT !.st = "inflight", !.receives = @ + 1]]
  BY DEF Receive, WellFormed, Message
<1>3. Receive(q, m)[m] = [st |-> "inflight", receives |-> q[m].receives + 1, body |-> q[m].body]
  BY <1>2 DEF WellFormed, Message
<1>4. \A n \in slots \ {m} : Receive(q, m)[n] = q[n]
  BY <1>2 DEF WellFormed
<1>5. Receive(q, m) \in [slots -> Message(bodies)]
  BY <1>1, <1>2 DEF WellFormed, Message
<1> QED
  BY <1>3, <1>4, <1>5 DEF WellFormed

\* A handler that fails (handle_one) leaves its message visible or dead.
LEMMA ReturnFacts ==
  ASSUME NEW slots, NEW bodies, NEW q, WellFormed(q, slots, bodies),
         NEW m \in slots, q[m].st = "inflight"
  PROVE  /\ WellFormed(Return(q, m), slots, bodies)
         /\ Return(q, m)[m].st \in {"visible", "dead"}
         /\ Return(q, m)[m].body = q[m].body
         /\ \A n \in slots \ {m} : Return(q, m)[n] = q[n]
<1> DEFINE st == IF q[m].receives < MaxReceiveCount THEN "visible" ELSE "dead"
<1>1. Return(q, m) = [q EXCEPT ![m] = [q[m] EXCEPT !.st = st]]
  BY DEF Return, WellFormed, Message
<1>2. Return(q, m)[m] = [st |-> st, receives |-> q[m].receives, body |-> q[m].body]
  BY <1>1 DEF WellFormed, Message
<1>3. \A n \in slots \ {m} : Return(q, m)[n] = q[n]
  BY <1>1 DEF WellFormed
<1>4. Return(q, m) \in [slots -> Message(bodies)]
  BY <1>1 DEF WellFormed, Message
<1> QED
  BY <1>2, <1>3, <1>4 DEF WellFormed

\* A receive whose handler fails at once (handle_one).
LEMMA RedeliverFacts ==
  ASSUME NEW slots, NEW bodies, NEW q, WellFormed(q, slots, bodies),
         NEW m \in slots, q[m].st = "visible"
  PROVE  /\ WellFormed(Return(Receive(q, m), m), slots, bodies)
         /\ Return(Receive(q, m), m)[m].st \in {"visible", "dead"}
         /\ Return(Receive(q, m), m)[m].body = q[m].body
         /\ \A n \in slots \ {m} : Return(Receive(q, m), m)[n] = q[n]
<1>1. PICK p : p = Receive(q, m)
  OBVIOUS
<1>2. /\ WellFormed(p, slots, bodies)
      /\ p[m].st = "inflight"
      /\ p[m].body = q[m].body
      /\ \A n \in slots \ {m} : p[n] = q[n]
  BY <1>1, ReceiveFacts
<1>3. /\ WellFormed(Return(p, m), slots, bodies)
      /\ Return(p, m)[m].st \in {"visible", "dead"}
      /\ Return(p, m)[m].body = p[m].body
      /\ \A n \in slots \ {m} : Return(p, m)[n] = p[n]
  BY <1>2, ReturnFacts
<1> QED
  BY <1>1, <1>2, <1>3

\* Deleting a message (handle_one) frees its slot.
LEMMA DeleteFacts ==
  ASSUME NEW slots, NEW bodies, NEW q, WellFormed(q, slots, bodies), NEW m \in slots
  PROVE  /\ WellFormed(Delete(q, m), slots, bodies)
         /\ Delete(q, m)[m].st = "free"
         /\ \A n \in slots \ {m} : Delete(q, m)[n] = q[n]
<1>1. Delete(q, m) \in [slots -> Message(bodies)]
  BY MaxReceiveCountAssumption DEF Delete, Free, WellFormed, Message
<1>2. Delete(q, m)[m].st = "free" /\ \A n \in slots \ {m} : Delete(q, m)[n] = q[n]
  BY DEF Delete, Free, WellFormed
<1> QED
  BY <1>1, <1>2 DEF WellFormed
=============================================================================
