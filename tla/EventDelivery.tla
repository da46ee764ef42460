---------------------------- MODULE EventDelivery ----------------------------
(***************************************************************************)
(* What the collector promises of an event it accepted, whatever happens   *)
(* between the buffer, the consumers and the pipeline: it is owed to the   *)
(* memory until its content is there, until it was tried MaxTries times,   *)
(* or until it is dropped to make room, which is counted.                  *)
(*                                                                         *)
(* IngestQueue implements it.                                              *)
(***************************************************************************)
EXTENDS Naturals, FiniteSets, Functions

CONSTANTS
  Event,
  Content,      \* the content of each event
  Worthless,    \* events the memory does not want
  Known,        \* contents the memory has from the start
  MaxTries

VARIABLES
  owed,         \* the events owed, and how often each was tried
  memory,       \* contents in the memory
  dropped       \* events dropped since the process started

deliveryVars == <<owed, memory, dropped>>

Owing(E) == [e \in E |-> IF e \in DOMAIN owed THEN owed[e] ELSE 0]

(* Events are accepted, and others or even the same dropped for them.      *)
Accept(E, D) ==
  /\ D \subseteq DOMAIN owed \union E
  /\ owed' = Owing((DOMAIN owed \union E) \ D)
  /\ dropped' = dropped + Cardinality(D)
  /\ UNCHANGED memory

Deliver(e) ==
  /\ memory' = memory \union {Content[e]}
  /\ UNCHANGED <<owed, dropped>>

(* A consumer settles a batch: what is delivered or not wanted is owed no  *)
(* longer, and neither is what failed for the last time.                   *)
Settle(done, failed) ==
  /\ \A e \in done : Content[e] \in memory \/ e \in Worthless
  /\ LET tried == [e \in DOMAIN owed |-> IF e \in failed THEN owed[e] + 1 ELSE owed[e]]
     IN  owed' = Restrict(tried, {e \in DOMAIN owed \ done :
                                    e \in failed => tried[e] < MaxTries})
  /\ UNCHANGED <<memory, dropped>>

Restart == dropped' = 0 /\ UNCHANGED <<owed, memory>>

DeliveryInit == owed = <<>> /\ memory = Known /\ dropped = 0

DeliveryNext ==
  \/ \E E, D \in SUBSET Event : Accept(E, D)
  \/ \E e \in Event : Deliver(e)
  \/ \E done \in SUBSET DOMAIN owed : \E failed \in SUBSET (DOMAIN owed \ done) :
       Settle(done, failed)
  \/ Restart

DeliverySpec == DeliveryInit /\ [][DeliveryNext]_deliveryVars
=============================================================================
