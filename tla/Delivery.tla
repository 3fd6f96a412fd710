------------------------------ MODULE Delivery ------------------------------
(***************************************************************************)
(* What queue_client.py promises to those who enqueue jobs and to the      *)
(* handlers: delivery at least once, and a bounded number of attempts.     *)
(* There are no lists, no workers and no database here, only the messages  *)
(* that will still be delivered.  JobQueue implements this.                *)
(***************************************************************************)
EXTENDS Naturals

CONSTANTS Job, MaxAttempts

VARIABLES
  accepted,  \* the jobs whose producer was told that they are queued
  box,       \* the messages to be delivered: a job and its attempts so far
  settled,   \* the jobs that ran, were found needless or unknown, or were given up
  lost       \* the jobs of which a worker took a message with it

vars == <<accepted, box, settled, lost>>

Message == Job \X (0 .. MaxAttempts - 1)

Init == accepted = {} /\ box = {} /\ settled = {} /\ lost = {}

\* enqueue
Accept(j) ==
  /\ j \notin accepted
  /\ accepted' = accepted \cup {j}
  /\ box' = box \cup {<<j, 0>>}
  /\ UNCHANGED <<settled, lost>>

\* A delivery ends well, or for good; another message of the job may stay.
Settle(j) ==
  /\ j \in accepted
  /\ settled' = settled \cup {j}
  /\ UNCHANGED <<accepted, box, lost>>

\* retry_later: only a message that was delivered is followed by a later attempt.
Retry(j, n) ==
  /\ j \in accepted /\ n + 1 < MaxAttempts
  /\ box' = box \cup {<<j, n + 1>>}
  /\ UNCHANGED <<accepted, settled, lost>>

\* ack: a message goes when its job is done with, or has a later one.
Discard(j, n) ==
  /\ <<j, n>> \in box
  /\ j \in settled \cup lost \/ \E m \in n + 1 .. MaxAttempts - 1 : <<j, m>> \in box
  /\ box' = box \ {<<j, n>>}
  /\ UNCHANGED <<accepted, settled, lost>>

\* The worker dies in one of the two places where a message is in its hand alone.
Lose(j, n) ==
  /\ j \in accepted
  /\ lost' = lost \cup {j}
  /\ box' \in {box, box \ {<<j, n>>}}
  /\ UNCHANGED <<accepted, settled>>

Next ==
  \E j \in Job :
    \/ Accept(j) \/ Settle(j)
    \/ \E n \in 0 .. MaxAttempts - 1 : Retry(j, n) \/ Discard(j, n) \/ Lose(j, n)

Spec == Init /\ [][Next]_vars
=============================================================================
