--------------------------- MODULE EmailContract ---------------------------
(***************************************************************************)
(* What the email queue (src/lib/comms/email.ts) promises whoever queues a *)
(* mail: it stays queued until it is settled, it is settled as sent only   *)
(* if the provider has it, and it is never queued again.  It may be handed *)
(* over more than once, and of two drains at once the later word stands.   *)
(***************************************************************************)
CONSTANT Mails

VARIABLES
    status,     \* email_events.status, "none" before the row exists
    handed      \* the mails the provider has accepted, at least once

vars == <<status, handed>>

TypeOK ==
    /\ status \in [Mails -> {"none", "queued", "sent", "failed"}]
    /\ handed \subseteq Mails

Init ==
    /\ status = [m \in Mails |-> "none"]
    /\ handed = {}

Queue(m) ==
    /\ status[m] = "none"
    /\ status' = [status EXCEPT ![m] = "queued"]
    /\ UNCHANGED handed

HandOver(m) ==
    /\ status[m] # "none"
    /\ handed' = handed \union {m}
    /\ UNCHANGED status

\* A drain commits what became of a batch.
Settle(sent, failed) ==
    /\ sent \intersect failed = {}
    /\ \A m \in sent \union failed : status[m] # "none"
    /\ sent \subseteq handed
    /\ status' = [m \in Mails |-> IF m \in sent THEN "sent"
                                  ELSE IF m \in failed THEN "failed" ELSE status[m]]
    /\ UNCHANGED handed

Next ==
    \/ \E m \in Mails : Queue(m) \/ HandOver(m)
    \/ \E sent, failed \in SUBSET Mails : Settle(sent, failed)

Spec == Init /\ [][Next]_vars
=============================================================================
