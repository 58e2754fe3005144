------------------------- MODULE EmailOutboxProofs -------------------------
(***************************************************************************)
(* What EmailOutbox guarantees for any number of mails, schools and        *)
(* drains, and that it implements EmailContract.                           *)
(***************************************************************************)
EXTENDS EmailOutbox, FiniteSetTheorems, TLAPS

\* A drainer has a mail on its list or in its hands.
Carries(d, m) == m \in txn[d].todo \/ m = txn[d].now

Carriers(m) == {d \in Drainers : Carries(d, m)}

\* A drain handles each mail once, only mails that exist, and marks as sent only what the
\* provider has.
TxnOK(d) ==
    /\ Idle(d) => txn[d] = NoTxn
    /\ txn[d].now \notin txn[d].todo
    /\ \A m \in Marked(d) : ~Carries(d, m)
    /\ txn[d].sent \intersect txn[d].failed = {}
    /\ \A m \in Mails : Carries(d, m) \/ m \in Marked(d) => status[m] # "none"
    /\ \A m \in txn[d].sent : handed[m] > 0

Inv == TypeOK /\ \A d \in Drainers : TxnOK(d)

-----------------------------------------------------------------------------
(***************************************************************************)
(* Types.                                                                  *)
(***************************************************************************)
LEMMA NoTxnTyped == NoTxn \in Txn
BY DEF NoTxn, Txn

LEMMA OpenedTyped ==
  ASSUME TypeOK, NEW d \in Drainers, NEW s \in Schools, OpenTxn(d, s)
  PROVE  txn' \in [Drainers -> Txn]
<1>1. Oldest(QueuedFor(s)) \in SUBSET Mails
  BY DEF Oldest, QueuedFor
<1>2. [NoTxn EXCEPT !.school = s, !.todo = Oldest(QueuedFor(s)), !.read = attempts] \in Txn
  BY <1>1 DEF NoTxn, Txn, TypeOK
<1> QED
  BY <1>2 DEF OpenTxn, TypeOK

LEMMA AnsweredTyped ==
  ASSUME NEW t \in Txn, t.now \in Mails
  PROVE  /\ [t EXCEPT !.sent = @ \union {t.now}, !.now = None] \in Txn
         /\ [t EXCEPT !.failed = @ \union {t.now}, !.now = None] \in Txn
<1>1. t.sent \union {t.now} \in SUBSET Mails /\ t.failed \union {t.now} \in SUBSET Mails
  BY DEF Txn
<1> QED
  BY <1>1 DEF Txn

\* A drain has its mail in its hands until the provider has answered.
LEMMA ContinueTyped ==
  ASSUME TypeOK, NEW d \in Drainers, Continue(d)
  PROVE  TypeOK'
<1> USE DEF TypeOK
<1>0. txn[d] \in Txn
  OBVIOUS
<1>1. CASE Claim(d)
  <2>1. PICK m \in txn[d].todo : txn' = [txn EXCEPT ![d].now = m, ![d].todo = @ \ {m}]
    BY <1>1 DEF Claim
  <2>2. txn'[d] = [txn[d] EXCEPT !.now = m, !.todo = @ \ {m}]
    BY <2>1
  <2>3. txn'[d] \in Txn
    BY <2>2, <1>0 DEF Txn
  <2>4. txn' \in [Drainers -> Txn]
    BY <2>1, <2>3
  <2> QED
    BY <1>1, <2>4 DEF Claim
<1>2. CASE Deliver(d)
  <2>1. txn[d].now \in Mails
    BY <1>2, <1>0 DEF Deliver, Txn
  <2>2. txn'[d] = [txn[d] EXCEPT !.sent = @ \union {txn[d].now}, !.now = None]
    BY <1>2 DEF Deliver
  <2>3. txn'[d] \in Txn
    BY <2>1, <2>2, <1>0, AnsweredTyped
  <2>4. txn' \in [Drainers -> Txn]
    BY <1>2, <2>3 DEF Deliver
  <2>5. handed' \in [Mails -> Nat]
    BY <1>2, <2>1 DEF Deliver
  <2> QED
    BY <1>2, <2>4, <2>5 DEF Deliver
<1>3. ASSUME NEW accepted \in BOOLEAN, Refuse(d, accepted) PROVE TypeOK'
  <2>1. txn[d].now \in Mails
    BY <1>3, <1>0 DEF Refuse, Txn
  <2>2. txn'[d] = [txn[d] EXCEPT !.failed = @ \union {txn[d].now}, !.now = None]
    BY <1>3 DEF Refuse
  <2>3. txn'[d] \in Txn
    BY <2>1, <2>2, <1>0, AnsweredTyped
  <2>4. txn' \in [Drainers -> Txn]
    BY <1>3, <2>3 DEF Refuse
  <2>5. handed' \in [Mails -> Nat]
    BY <1>3, <2>1 DEF Refuse
  <2> QED
    BY <1>3, <2>4, <2>5 DEF Refuse
<1>4. CASE Commit(d)
  <2>1. txn' \in [Drainers -> Txn]
    BY <1>4, NoTxnTyped DEF Commit
  <2>2. status' \in [Mails -> Statuses]
    BY <1>4 DEF Commit, Statuses
  <2>3. attempts' \in [Mails -> Nat]
    <3>1. \A m \in Mails : txn[d].read[m] + 1 \in Nat
      BY <1>0 DEF Txn
    <3> QED
      BY <1>4, <3>1 DEF Commit
  <2> QED
    BY <1>4, <2>1, <2>2, <2>3 DEF Commit
<1> QED
  BY <1>1, <1>2, <1>3, <1>4 DEF Continue

LEMMA TypeStep == TypeOK /\ [Next]_vars => TypeOK'
<1> SUFFICES ASSUME TypeOK, [Next]_vars PROVE TypeOK'
  OBVIOUS
<1>1. CASE \E m \in Mails : QueueEmail(m)
  BY <1>1 DEF QueueEmail, TypeOK, Statuses
<1>2. CASE \E s \in Schools : Suspend(s) \/ Reactivate(s)
  BY <1>2, BoundAssumption DEF Suspend, Reactivate, TypeOK
<1>3. CASE \E d \in Drainers : Continue(d)
  BY <1>3, ContinueTyped
<1>4. CASE \E d \in Drainers : RollBack(d)
  BY <1>4, NoTxnTyped, BoundAssumption DEF RollBack, TypeOK
<1>5. CASE JobStarts
  BY <1>5 DEF JobStarts, TypeOK
<1>6. CASE \E s \in Schools : JobTakes(s)
  <2>1. PICK s \in Schools : JobTakes(s)
    BY <1>6
  <2>2. txn' \in [Drainers -> Txn]
    BY <2>1, OpenedTyped, OutboxAssumption DEF JobTakes
  <2> QED
    BY <2>1, <2>2 DEF JobTakes, TypeOK
<1>7. CASE \E d \in Drainers, s \in Schools : PortalDrains(d, s)
  <2>1. PICK d \in Drainers, s \in Schools : PortalDrains(d, s)
    BY <1>7
  <2>2. txn' \in [Drainers -> Txn]
    BY <2>1, OpenedTyped DEF PortalDrains
  <2> QED
    BY <2>1, <2>2, BoundAssumption DEF PortalDrains, TypeOK
<1>8. CASE JobDies
  <2>1. txn' \in [Drainers -> Txn]
    BY <1>8, NoTxnTyped DEF JobDies, TypeOK
  <2>2. faults' \in 0..MaxFaults
    BY <1>8, BoundAssumption DEF JobDies, TypeOK
  <2> QED
    BY <1>8, <2>1, <2>2 DEF JobDies, TypeOK
<1>9. CASE UNCHANGED vars
  BY <1>9 DEF vars, TypeOK
<1> QED
  BY <1>1, <1>2, <1>3, <1>4, <1>5, <1>6, <1>7, <1>8, <1>9 DEF Next

LEMMA InitTyped == Init => TypeOK
BY NoTxnTyped, BoundAssumption DEF Init, TypeOK, Statuses

\* Type correctness, however many drains run at once.
THEOREM TypeCorrect == Spec => []TypeOK
BY InitTyped, TypeStep, PTL DEF Spec

-----------------------------------------------------------------------------
(***************************************************************************)
(* What each drain has read and marked.                                    *)
(***************************************************************************)
\* What others do takes nothing from a drain: rows stay, and what the provider has it keeps.
LEMMA TxnKept ==
  ASSUME TypeOK, NEW e \in Drainers, TxnOK(e), txn'[e] = txn[e],
         \A m \in Mails : status[m] # "none" => status'[m] # "none",
         \A m \in Mails : handed[m] > 0 => handed'[m] > 0
  PROVE  TxnOK(e)'
<1>1. txn[e].sent \subseteq Mails
  BY DEF TypeOK, Txn
<1> QED
  BY <1>1 DEF TxnOK, Idle, Marked, Carries

LEMMA NoTxnOK ==
  ASSUME NEW e \in Drainers, txn'[e] = NoTxn
  PROVE  TxnOK(e)'
BY OutboxAssumption DEF TxnOK, Idle, Marked, Carries, NoTxn

LEMMA OpenedOK ==
  ASSUME TypeOK, NEW d \in Drainers, NEW s \in Schools, OpenTxn(d, s),
         UNCHANGED <<status, handed>>
  PROVE  TxnOK(d)'
<1>1. txn'[d] = [NoTxn EXCEPT !.school = s, !.todo = Oldest(QueuedFor(s)), !.read = attempts]
  BY DEF OpenTxn, TypeOK
<1>2. /\ txn'[d].school = s /\ txn'[d].now = None /\ txn'[d].sent = {} /\ txn'[d].failed = {}
      /\ txn'[d].todo \subseteq QueuedFor(s)
  BY <1>1 DEF NoTxn, Oldest
<1>3. s # None
  BY OutboxAssumption
<1> QED
  BY <1>2, <1>3, OutboxAssumption DEF TxnOK, Idle, Marked, Carries, QueuedFor

\* The answer of the provider moves a mail from the drain's hands to what it has marked.
LEMMA ContinueOK ==
  ASSUME Inv, NEW d \in Drainers, Continue(d)
  PROVE  TxnOK(d)'
<1>0. /\ txn \in [Drainers -> Txn] /\ txn[d] \in Txn /\ TxnOK(d)
      /\ handed \in [Mails -> Nat] /\ None \notin Mails
  BY OutboxAssumption DEF Inv, TypeOK
<1>1. CASE Claim(d)
  <2>1. PICK m \in txn[d].todo : txn' = [txn EXCEPT ![d].now = m, ![d].todo = @ \ {m}]
    BY <1>1 DEF Claim
  <2>2. txn'[d] = [txn[d] EXCEPT !.now = m, !.todo = @ \ {m}]
    BY <2>1, <1>0
  <2>3. /\ txn'[d].school = txn[d].school /\ txn'[d].now = m
        /\ txn'[d].todo = txn[d].todo \ {m}
        /\ txn'[d].sent = txn[d].sent /\ txn'[d].failed = txn[d].failed
    BY <2>2, <1>0 DEF Txn
  <2>4. txn[d] # NoTxn /\ UNCHANGED <<status, handed>>
    BY <1>1, <2>1 DEF NoTxn, Claim
  <2> QED
    BY <2>3, <2>4, <1>0 DEF TxnOK, Idle, Marked, Carries
<1>2. CASE Deliver(d)
  <2>1. txn[d].now \in Mails
    BY <1>2, <1>0 DEF Deliver, Txn
  <2>2. txn'[d] = [txn[d] EXCEPT !.sent = @ \union {txn[d].now}, !.now = None]
    BY <1>2, <1>0 DEF Deliver
  <2>3. /\ txn'[d].school = txn[d].school /\ txn'[d].now = None
        /\ txn'[d].todo = txn[d].todo
        /\ txn'[d].sent = txn[d].sent \union {txn[d].now}
        /\ txn'[d].failed = txn[d].failed
    BY <2>2, <1>0 DEF Txn
  <2>4. txn[d] # NoTxn /\ UNCHANGED status
    BY <1>2 DEF NoTxn, Deliver
  <2>5. \A m \in txn'[d].sent : handed'[m] > 0
    BY <1>2, <2>1, <2>3, <1>0 DEF Deliver, TxnOK, Txn
  <2>6. txn[d].todo \subseteq Mails
    BY <1>0 DEF Txn
  <2> QED
    <3>1. Idle(d)' => txn'[d] = NoTxn
      BY <2>3, <2>4, <1>0 DEF TxnOK, Idle
    <3>2. \A m \in Marked(d)' : ~Carries(d, m)'
      BY <2>1, <2>3, <1>0 DEF TxnOK, Marked, Carries, Txn
    <3>3. txn'[d].sent \intersect txn'[d].failed = {}
      BY <2>1, <2>3, <1>0 DEF TxnOK, Marked, Carries
    <3>4. \A m \in Mails : Carries(d, m)' \/ m \in Marked(d)' => status'[m] # "none"
      BY <2>3, <2>4, <1>0 DEF TxnOK, Marked, Carries
    <3>5. txn'[d].now \notin txn'[d].todo
      BY <2>3, <2>6, <1>0
    <3> QED
      BY <2>5, <3>1, <3>2, <3>3, <3>4, <3>5 DEF TxnOK
<1>3. ASSUME NEW accepted \in BOOLEAN, Refuse(d, accepted) PROVE TxnOK(d)'
  <2>1. txn[d].now \in Mails
    BY <1>3, <1>0 DEF Refuse, Txn
  <2>2. txn'[d] = [txn[d] EXCEPT !.failed = @ \union {txn[d].now}, !.now = None]
    BY <1>3, <1>0 DEF Refuse
  <2>3. /\ txn'[d].school = txn[d].school /\ txn'[d].now = None
        /\ txn'[d].todo = txn[d].todo /\ txn'[d].sent = txn[d].sent
        /\ txn'[d].failed = txn[d].failed \union {txn[d].now}
    BY <2>2, <1>0 DEF Txn
  <2>4. txn[d] # NoTxn /\ UNCHANGED status
    BY <1>3 DEF NoTxn, Refuse
  <2>5. \A m \in txn'[d].sent : handed'[m] > 0
    BY <1>3, <2>1, <2>3, <1>0 DEF Refuse, TxnOK, Txn
  <2>6. txn[d].todo \subseteq Mails
    BY <1>0 DEF Txn
  <2> QED
    <3>1. Idle(d)' => txn'[d] = NoTxn
      BY <2>3, <2>4, <1>0 DEF TxnOK, Idle
    <3>2. \A m \in Marked(d)' : ~Carries(d, m)'
      BY <2>1, <2>3, <1>0 DEF TxnOK, Marked, Carries, Txn
    <3>3. txn'[d].sent \intersect txn'[d].failed = {}
      BY <2>1, <2>3, <1>0 DEF TxnOK, Marked, Carries
    <3>4. \A m \in Mails : Carries(d, m)' \/ m \in Marked(d)' => status'[m] # "none"
      BY <2>3, <2>4, <1>0 DEF TxnOK, Marked, Carries
    <3>5. txn'[d].now \notin txn'[d].todo
      BY <2>3, <2>6, <1>0
    <3> QED
      BY <2>5, <3>1, <3>2, <3>3, <3>4, <3>5 DEF TxnOK
<1>4. CASE Commit(d)
  BY <1>4, <1>0, NoTxnOK DEF Commit
<1> QED
  BY <1>1, <1>2, <1>3, <1>4 DEF Continue

\* A step of a drain leaves the others alone, takes no row back and nothing from the provider.
LEMMA ContinueKeeps ==
  ASSUME Inv, NEW d \in Drainers, Continue(d)
  PROVE  /\ \A e \in Drainers \ {d} : txn'[e] = txn[e]
         /\ \A m \in Mails : status[m] # "none" => status'[m] # "none"
         /\ \A m \in Mails : handed[m] > 0 => handed'[m] > 0
<1>0. txn \in [Drainers -> Txn] /\ handed \in [Mails -> Nat] /\ txn[d] \in Txn
  BY DEF Inv, TypeOK
<1>1. CASE Claim(d)
  BY <1>0, <1>1 DEF Claim
<1>2. CASE Deliver(d)
  BY <1>0, <1>2 DEF Deliver
<1>3. ASSUME NEW accepted \in BOOLEAN, Refuse(d, accepted)
      PROVE  /\ \A e \in Drainers \ {d} : txn'[e] = txn[e]
             /\ \A m \in Mails : status[m] # "none" => status'[m] # "none"
             /\ \A m \in Mails : handed[m] > 0 => handed'[m] > 0
  BY <1>0, <1>3 DEF Refuse
<1>4. CASE Commit(d)
  BY <1>0, <1>4 DEF Commit
<1> QED
  BY <1>1, <1>2, <1>3, <1>4 DEF Continue

LEMMA InvStep == Inv /\ [Next]_vars => Inv'
<1> SUFFICES ASSUME Inv, [Next]_vars, NEW e \in Drainers PROVE TxnOK(e)'
  BY TypeStep DEF Inv
<1>0. TypeOK /\ txn \in [Drainers -> Txn] /\ TxnOK(e) /\ Job \in Drainers
  BY OutboxAssumption DEF Inv, TypeOK
<1>1. CASE \E m \in Mails : QueueEmail(m)
  BY <1>0, <1>1, TxnKept DEF QueueEmail, TypeOK
<1>2. CASE \E s \in Schools : Suspend(s) \/ Reactivate(s)
  BY <1>0, <1>2, TxnKept DEF Suspend, Reactivate
<1>3. CASE \E d \in Drainers : Continue(d)
  <2>1. PICK d \in Drainers : Continue(d)
    BY <1>3
  <2>2. CASE e = d
    BY <2>1, <2>2, ContinueOK
  <2>3. CASE e # d
    BY <2>1, <2>3, <1>0, ContinueKeeps, TxnKept
  <2> QED
    BY <2>2, <2>3
<1>4. CASE \E d \in Drainers : RollBack(d)
  <2>1. PICK d \in Drainers : RollBack(d)
    BY <1>4
  <2>2. CASE e = d
    BY <2>1, <2>2, <1>0, NoTxnOK DEF RollBack
  <2>3. CASE e # d
    BY <2>1, <2>3, <1>0, TxnKept DEF RollBack
  <2> QED
    BY <2>2, <2>3
<1>5. CASE JobStarts
  BY <1>0, <1>5, TxnKept DEF JobStarts
<1>6. CASE \E s \in Schools : JobTakes(s)
  <2>1. PICK s \in Schools : JobTakes(s)
    BY <1>6
  <2>2. CASE e = Job
    BY <2>1, <2>2, <1>0, OpenedOK DEF JobTakes
  <2>3. CASE e # Job
    BY <2>1, <2>3, <1>0, TxnKept DEF JobTakes, OpenTxn
  <2> QED
    BY <2>2, <2>3
<1>7. CASE \E d \in Drainers, s \in Schools : PortalDrains(d, s)
  <2>1. PICK d \in Drainers, s \in Schools : PortalDrains(d, s)
    BY <1>7
  <2>2. CASE e = d
    BY <2>1, <2>2, <1>0, OpenedOK DEF PortalDrains
  <2>3. CASE e # d
    BY <2>1, <2>3, <1>0, TxnKept DEF PortalDrains, OpenTxn
  <2> QED
    BY <2>2, <2>3
<1>8. CASE JobDies
  <2>1. CASE e = Job
    BY <1>8, <2>1, <1>0, NoTxnOK DEF JobDies
  <2>2. CASE e # Job
    BY <1>8, <2>2, <1>0, TxnKept DEF JobDies
  <2> QED
    BY <2>1, <2>2
<1>9. CASE UNCHANGED vars
  BY <1>9, <1>0, TxnKept DEF vars
<1> QED
  BY <1>1, <1>2, <1>3, <1>4, <1>5, <1>6, <1>7, <1>8, <1>9 DEF Next

LEMMA InvInit == Init => Inv
<1> SUFFICES ASSUME Init PROVE Inv
  OBVIOUS
<1>1. \A d \in Drainers : txn[d] = NoTxn
  BY DEF Init
<1>2. ASSUME NEW d \in Drainers PROVE TxnOK(d)
  <2>1. /\ txn[d].todo = {} /\ txn[d].now = None
        /\ txn[d].sent = {} /\ txn[d].failed = {}
    BY <1>1 DEF NoTxn
  <2> QED
    BY <1>1, <2>1, OutboxAssumption DEF TxnOK, Marked, Carries
<1> QED
  BY <1>2, InitTyped DEF Inv

-----------------------------------------------------------------------------
(***************************************************************************)
(* The contract.                                                           *)
(***************************************************************************)
\* Only three kinds of step write what the contract speaks of.
LEMMA StepsOfTheContract ==
  Inv /\ [Next]_vars => [Contract!Next]_(Contract!vars)
<1> SUFFICES ASSUME Inv, [Next]_vars PROVE [Contract!Next]_(Contract!vars)
  OBVIOUS
<1> USE DEF Contract!vars
<1>0. /\ txn \in [Drainers -> Txn] /\ handed \in [Mails -> Nat]
      /\ \A d \in Drainers : txn[d] \in Txn /\ TxnOK(d)
  BY DEF Inv, TypeOK
<1>1. CASE \E m \in Mails : QueueEmail(m)
  BY <1>1 DEF QueueEmail, Contract!Next, Contract!Queue
<1>2. CASE \E d \in Drainers : Continue(d)
  <2> PICK d \in Drainers : Continue(d)
    BY <1>2
  <2>1. CASE Claim(d)
    BY <2>1 DEF Claim
  <2>2. CASE Deliver(d)
    <3>1. txn[d].now \in Mails /\ status[txn[d].now] # "none"
      BY <1>0, <2>2 DEF Deliver, Txn, TxnOK, Carries
    <3>2. {m \in Mails : handed'[m] > 0} = {m \in Mails : handed[m] > 0} \union {txn[d].now}
      BY <1>0, <2>2, <3>1 DEF Deliver
    <3>3. Contract!HandOver(txn[d].now)
      BY <2>2, <3>1, <3>2 DEF Deliver, Contract!HandOver
    <3>4. \E m \in Mails : Contract!HandOver(m)
      BY <3>1, <3>3 DEF Contract!HandOver
    <3>5. Contract!Next
      BY <3>4 DEF Contract!Next
    <3> QED
      BY <3>5
  <2>3. ASSUME NEW accepted \in BOOLEAN, Refuse(d, accepted)
        PROVE  [Contract!Next]_(Contract!vars)
    <3>1. txn[d].now \in Mails /\ status[txn[d].now] # "none" /\ status' = status
      BY <1>0, <2>3 DEF Refuse, Txn, TxnOK, Carries
    <3>2. CASE accepted
      <4>1. {m \in Mails : handed'[m] > 0} = {m \in Mails : handed[m] > 0} \union {txn[d].now}
        BY <1>0, <2>3, <3>1, <3>2 DEF Refuse
      <4>2. Contract!HandOver(txn[d].now)
        BY <3>1, <4>1 DEF Contract!HandOver
      <4>3. \E m \in Mails : Contract!HandOver(m)
        BY <3>1, <4>2 DEF Contract!HandOver
      <4>4. Contract!Next
        BY <4>3 DEF Contract!Next
      <4> QED
        BY <4>4
    <3>3. CASE ~accepted
      <4>1. {m \in Mails : handed'[m] > 0} = {m \in Mails : handed[m] > 0}
        BY <1>0, <2>3, <3>1, <3>3 DEF Refuse
      <4> QED
        BY <3>1, <4>1
    <3> QED
      BY <3>2, <3>3
  <2>4. CASE Commit(d)
    <3>1. txn[d].sent \in SUBSET Mails /\ txn[d].failed \in SUBSET Mails
      BY <1>0 DEF Txn
    <3>2. /\ txn[d].sent \intersect txn[d].failed = {}
          /\ \A m \in txn[d].sent \union txn[d].failed : status[m] # "none"
          /\ txn[d].sent \subseteq {m \in Mails : handed[m] > 0}
      BY <1>0, <3>1 DEF TxnOK, Marked
    <3>3. Contract!Settle(txn[d].sent, txn[d].failed)
      BY <2>4, <3>2 DEF Commit, Contract!Settle
    <3> QED
      BY <3>1, <3>3 DEF Contract!Next
  <2> QED
    BY <2>1, <2>2, <2>3, <2>4 DEF Continue
<1>3. CASE UNCHANGED <<status, handed>>
  BY <1>3
<1>4. ASSUME [Next]_vars, ~(\E m \in Mails : QueueEmail(m)), ~(\E d \in Drainers : Continue(d))
      PROVE  UNCHANGED <<status, handed>>
  BY <1>4 DEF Next, vars, Suspend, Reactivate, RollBack, JobStarts, JobTakes, PortalDrains, JobDies
<1> QED
  BY <1>1, <1>2, <1>3, <1>4

\* The drain keeps what the queue promises, for any number of drains at once: a mail is never
\* taken back, and is marked as sent only when the provider has it (drainQueuedEmails).
THEOREM OutboxImplementsContract == Spec => ImplementsContract
<1>1. Init => Contract!Init
  BY DEF Init, Contract!Init
<1> QED
  BY <1>1, InvInit, InvStep, StepsOfTheContract, PTL DEF Spec, ImplementsContract, Contract!Spec

-----------------------------------------------------------------------------
(***************************************************************************)
(* How often a mail is handed over.                                        *)
(***************************************************************************)
\* The job has read the mail in the transaction it has open.
JobHas(m) == Carries(Job, m) \/ m \in Marked(Job)

\* Every hand-over that there has been or may still be is the first of a mail, or there was
\* a fault or a drain from the portal for it; before a mail is settled even the first is
\* the job's present one.
CountInv ==
    \A m \in Mails :
        /\ handed[m] + Cardinality(Carriers(m)) <= 1 + faults + clicks
        /\ status[m] \in {"none", "queued"} /\ ~JobHas(m) =>
            handed[m] + Cardinality(Carriers(m)) <= faults + clicks

LEMMA Counts ==
  ASSUME NEW S \in SUBSET Drainers, NEW T \in SUBSET Drainers
  PROVE  /\ Cardinality(S) \in Nat /\ Cardinality(T) \in Nat
         /\ T \subseteq S => Cardinality(T) <= Cardinality(S)
         /\ \A d \in Drainers : T \subseteq S \union {d} => Cardinality(T) <= Cardinality(S) + 1
         /\ \A d \in S : T = S \ {d} => Cardinality(T) = Cardinality(S) - 1
<1>1. IsFiniteSet(S) /\ IsFiniteSet(T)
  BY FS_Subset, OutboxAssumption
<1>2. Cardinality(S) \in Nat /\ Cardinality(T) \in Nat
  BY <1>1, FS_CardinalityType
<1>3. T \subseteq S => Cardinality(T) <= Cardinality(S)
  BY <1>1, FS_Subset
<1>4. ASSUME NEW d \in Drainers, T \subseteq S \union {d}
      PROVE  Cardinality(T) <= Cardinality(S) + 1
  <2>1. /\ IsFiniteSet(S \union {d})
        /\ Cardinality(S \union {d}) = Cardinality(S) \/ Cardinality(S \union {d}) = Cardinality(S) + 1
    BY <1>1, FS_AddElement
  <2>2. Cardinality(T) <= Cardinality(S \union {d}) /\ Cardinality(S \union {d}) \in Nat
    BY <2>1, <1>4, FS_Subset, FS_CardinalityType
  <2> QED
    BY <2>1, <2>2, <1>2
<1>5. ASSUME NEW d \in S, T = S \ {d}
      PROVE  Cardinality(T) = Cardinality(S) - 1
  BY <1>1, <1>5, FS_RemoveElement
<1> QED
  BY <1>2, <1>3, <1>4, <1>5

\* A step that neither begins a drain nor ends one keeps the balance of a mail if it keeps who
\* carries it and how often it was handed over.
LEMMA Balanced ==
  ASSUME Inv, CountInv, NEW m \in Mails,
         Carriers(m)' = Carriers(m), handed'[m] = handed[m],
         UNCHANGED <<faults, clicks>>,
         status'[m] \in {"none", "queued"} =>
            status[m] \in {"none", "queued"} /\ (JobHas(m) => JobHas(m)')
  PROVE  /\ handed'[m] + Cardinality(Carriers(m)') <= 1 + faults' + clicks'
         /\ status'[m] \in {"none", "queued"} /\ ~JobHas(m)' =>
             handed'[m] + Cardinality(Carriers(m)') <= faults' + clicks'
BY DEF CountInv

LEMMA CountContinue ==
  ASSUME Inv, CountInv, NEW d \in Drainers, Continue(d), NEW m \in Mails
  PROVE  /\ handed'[m] + Cardinality(Carriers(m)') <= 1 + faults' + clicks'
         /\ status'[m] \in {"none", "queued"} /\ ~JobHas(m)' =>
             handed'[m] + Cardinality(Carriers(m)') <= faults' + clicks'
<1>0. /\ txn \in [Drainers -> Txn] /\ txn[d] \in Txn /\ TxnOK(d) /\ Job \in Drainers
      /\ handed \in [Mails -> Nat] /\ m # None
      /\ faults \in Nat /\ clicks \in Nat
  BY OutboxAssumption, BoundAssumption DEF Inv, TypeOK
<1>1. CASE Claim(d)
  <2>1. PICK n \in txn[d].todo : txn' = [txn EXCEPT ![d].now = n, ![d].todo = @ \ {n}]
    BY <1>1 DEF Claim
  <2>2. txn'[d] = [txn[d] EXCEPT !.now = n, !.todo = @ \ {n}]
    BY <2>1, <1>0
  <2>3. /\ txn'[d].now = n /\ txn'[d].todo = txn[d].todo \ {n} /\ txn[d].now = None
        /\ txn'[d].sent = txn[d].sent /\ txn'[d].failed = txn[d].failed
    BY <2>2, <1>0, <1>1 DEF Txn, Claim
  <2>4. \A e \in Drainers : Carries(e, m)' = Carries(e, m) /\ Marked(e)' = Marked(e)
    BY <2>1, <2>3, <1>0 DEF Carries, Marked
  <2>5. Carriers(m)' = Carriers(m) /\ JobHas(m)' = JobHas(m)
    BY <2>4, <1>0 DEF Carriers, JobHas
  <2>6. UNCHANGED <<status, handed, faults, clicks>>
    BY <1>1 DEF Claim
  <2> QED
    BY <2>5, <2>6, Balanced
<1>2. ASSUME Deliver(d) \/ \E accepted \in BOOLEAN : Refuse(d, accepted)
      PROVE  /\ handed'[m] + Cardinality(Carriers(m)') <= 1 + faults' + clicks'
             /\ status'[m] \in {"none", "queued"} /\ ~JobHas(m)' =>
                 handed'[m] + Cardinality(Carriers(m)') <= faults' + clicks'
  <2> DEFINE n == txn[d].now
  <2>1. n \in Mails /\ UNCHANGED <<status, faults, clicks>>
    BY <1>2, <1>0 DEF Deliver, Refuse, Txn
  <2>2. \/ txn' = [txn EXCEPT ![d].sent = @ \union {n}, ![d].now = None]
        \/ txn' = [txn EXCEPT ![d].failed = @ \union {n}, ![d].now = None]
    BY <1>2 DEF Deliver, Refuse
  <2>3. \/ txn'[d] = [txn[d] EXCEPT !.sent = @ \union {n}, !.now = None]
        \/ txn'[d] = [txn[d] EXCEPT !.failed = @ \union {n}, !.now = None]
    BY <2>2, <1>0
  <2>4. /\ txn'[d].now = None /\ txn'[d].todo = txn[d].todo
        /\ Marked(d)' = Marked(d) \union {n}
        /\ \A e \in Drainers \ {d} : txn'[e] = txn[e]
    BY <2>2, <2>3, <1>0 DEF Txn, Marked
  <2>5. \A k \in Mails : handed'[k] \in Nat /\ handed'[k] <= handed[k] + 1
                         /\ (k # n => handed'[k] = handed[k])
    BY <1>2, <1>0 DEF Deliver, Refuse
  <2>6. JobHas(m) => JobHas(m)'
    BY <2>4, <1>0 DEF JobHas, Carries, Marked
  <2> HIDE DEF n
  <2>7. CASE m = n
    <3>1. d \in Carriers(m) /\ n \notin txn[d].todo
      BY <2>7, <1>0 DEF n, Carriers, Carries, TxnOK
    <3>2. Carriers(m)' = Carriers(m) \ {d}
      BY <2>1, <2>4, <2>7, <3>1, <1>0 DEF Carriers, Carries
    <3>3. Carriers(m) \in SUBSET Drainers /\ Carriers(m)' \in SUBSET Drainers
      BY <3>2 DEF Carriers
    <3>4. /\ Cardinality(Carriers(m)') = Cardinality(Carriers(m)) - 1
          /\ Cardinality(Carriers(m)) \in Nat
      BY <3>1, <3>2, <3>3, Counts
    <3>5. handed'[m] + Cardinality(Carriers(m)') <= handed[m] + Cardinality(Carriers(m))
      BY <3>4, <2>5, <1>0
    <3>6. handed'[m] \in Nat /\ Cardinality(Carriers(m)') \in Nat /\ handed[m] \in Nat
      BY <2>5, <3>3, <1>0, Counts
    <3> QED
      BY <2>1, <2>6, <3>4, <3>5, <3>6, <1>0 DEF CountInv
  <2>8. CASE m # n
    <3>1. \A e \in Drainers : Carries(e, m)' = Carries(e, m)
      BY <2>4, <2>8, <1>0 DEF n, Carries
    <3>2. Carriers(m)' = Carriers(m)
      BY <3>1 DEF Carriers
    <3> QED
      BY <3>2, <2>1, <2>5, <2>6, <2>8, Balanced
  <2> QED
    BY <2>7, <2>8
<1>3. CASE Commit(d)
  <2>1. /\ txn[d].todo = {} /\ txn[d].now = None /\ txn'[d] = NoTxn
        /\ \A e \in Drainers \ {d} : txn'[e] = txn[e]
        /\ UNCHANGED <<handed, faults, clicks>>
    BY <1>3, <1>0 DEF Commit
  <2>2. txn'[d].todo = {} /\ txn'[d].now = None
    BY <2>1 DEF NoTxn
  <2>3. \A e \in Drainers : Carries(e, m)' = Carries(e, m)
    BY <2>1, <2>2, <1>0 DEF Carries
  <2>4. Carriers(m)' = Carriers(m)
    BY <2>3 DEF Carriers
  <2>5. status'[m] \in {"none", "queued"} => status[m] = status'[m] /\ m \notin Marked(d)
    BY <1>3 DEF Commit, Marked
  <2>6. m \notin Marked(d) /\ JobHas(m) => JobHas(m)'
    BY <2>1, <2>3, <1>0 DEF JobHas, Marked
  <2> QED
    BY <2>1, <2>4, <2>5, <2>6, Balanced
<1> QED
  BY <1>1, <1>2, <1>3 DEF Continue

\* A drain that ends without having committed carries nothing any more, and is a fault.
LEMMA CountFault ==
  ASSUME Inv, CountInv, NEW d \in Drainers, txn' = [txn EXCEPT ![d] = NoTxn],
         faults' = faults + 1, UNCHANGED <<handed, clicks>>, NEW m \in Mails
  PROVE  handed'[m] + Cardinality(Carriers(m)') <= faults' + clicks'
<1>0. txn \in [Drainers -> Txn] /\ handed[m] \in Nat /\ m # None /\ faults \in Nat /\ clicks \in Nat
  BY OutboxAssumption, BoundAssumption DEF Inv, TypeOK
<1>1. ~Carries(d, m)' /\ \A e \in Drainers \ {d} : txn'[e] = txn[e]
  BY <1>0 DEF Carries, NoTxn
<1>2. Carriers(m)' \subseteq Carriers(m)
  BY <1>1 DEF Carriers, Carries
<1>3. Carriers(m) \in SUBSET Drainers /\ Carriers(m)' \in SUBSET Drainers
  BY <1>2 DEF Carriers
<1>4. /\ Cardinality(Carriers(m)') <= Cardinality(Carriers(m))
      /\ Cardinality(Carriers(m)') \in Nat /\ Cardinality(Carriers(m)) \in Nat
  BY <1>2, <1>3, Counts
<1> QED
  BY <1>4, <1>0 DEF CountInv

\* A drain that begins reads mails that are queued; only the job's is not counted as a click.
LEMMA CountOpen ==
  ASSUME Inv, CountInv, NEW d \in Drainers, NEW s \in Schools, OpenTxn(d, s),
         UNCHANGED <<status, handed, faults>>, clicks' = IF d = Job THEN clicks ELSE clicks + 1,
         NEW m \in Mails
  PROVE  /\ handed'[m] + Cardinality(Carriers(m)') <= 1 + faults' + clicks'
         /\ status'[m] \in {"none", "queued"} /\ ~JobHas(m)' =>
             handed'[m] + Cardinality(Carriers(m)') <= faults' + clicks'
<1>0. /\ txn \in [Drainers -> Txn] /\ txn[d] \in Txn /\ TxnOK(d) /\ Job \in Drainers
      /\ handed \in [Mails -> Nat] /\ handed[m] \in Nat /\ m # None
      /\ faults \in Nat /\ clicks \in Nat
  BY OutboxAssumption, BoundAssumption DEF Inv, TypeOK
<1>1. /\ txn[d] = NoTxn
      /\ txn'[d] = [NoTxn EXCEPT !.school = s, !.todo = Oldest(QueuedFor(s)), !.read = attempts]
      /\ \A e \in Drainers \ {d} : txn'[e] = txn[e]
  BY <1>0 DEF OpenTxn, TxnOK
<1>2. /\ txn'[d].now = None /\ txn'[d].sent = {} /\ txn'[d].failed = {}
      /\ txn'[d].todo \subseteq QueuedFor(s)
      /\ txn[d].now = None /\ txn[d].todo = {} /\ txn[d].sent = {} /\ txn[d].failed = {}
  BY <1>1 DEF NoTxn, Oldest
<1>3. ~Carries(d, m) /\ (Carries(d, m)' => status[m] = "queued")
  BY <1>0, <1>2 DEF Carries, QueuedFor
<1>4. /\ Carriers(m)' \subseteq Carriers(m) \union {d}
      /\ ~Carries(d, m)' => Carriers(m)' \subseteq Carriers(m)
  BY <1>1, <1>3 DEF Carriers, Carries
<1>5. Carriers(m) \in SUBSET Drainers /\ Carriers(m)' \in SUBSET Drainers
  BY <1>4 DEF Carriers
<1>6. /\ Cardinality(Carriers(m)') <= Cardinality(Carriers(m)) + 1
      /\ ~Carries(d, m)' => Cardinality(Carriers(m)') <= Cardinality(Carriers(m))
      /\ Cardinality(Carriers(m)') \in Nat /\ Cardinality(Carriers(m)) \in Nat
  BY <1>4, <1>5, Counts
<1>7. CASE d = Job
  <2>1. ~JobHas(m) /\ (JobHas(m)' <=> Carries(d, m)')
    BY <1>2, <1>3, <1>7 DEF JobHas, Marked
  <2>2. CASE Carries(d, m)'
    BY <2>1, <2>2, <1>0, <1>3, <1>6, <1>7 DEF CountInv
  <2>3. CASE ~Carries(d, m)'
    BY <2>1, <2>3, <1>0, <1>6, <1>7 DEF CountInv
  <2> QED
    BY <2>2, <2>3
<1>8. CASE d # Job
  <2>1. JobHas(m)' <=> JobHas(m)
    BY <1>0, <1>1, <1>8 DEF JobHas, Carries, Marked
  <2> QED
    BY <2>1, <1>0, <1>6, <1>8 DEF CountInv
<1> QED
  BY <1>7, <1>8

LEMMA CountStep == Inv /\ CountInv /\ [Next]_vars => CountInv'
<1> SUFFICES ASSUME Inv, CountInv, [Next]_vars, NEW m \in Mails
             PROVE  /\ handed'[m] + Cardinality(Carriers(m)') <= 1 + faults' + clicks'
                    /\ status'[m] \in {"none", "queued"} /\ ~JobHas(m)' =>
                        handed'[m] + Cardinality(Carriers(m)') <= faults' + clicks'
  BY DEF CountInv
<1>0. Job \in Drainers
  BY OutboxAssumption
<1>1. ASSUME UNCHANGED <<handed, txn, faults, clicks>>,
             status'[m] \in {"none", "queued"} => status[m] \in {"none", "queued"}
      PROVE  /\ handed'[m] + Cardinality(Carriers(m)') <= 1 + faults' + clicks'
             /\ status'[m] \in {"none", "queued"} /\ ~JobHas(m)' =>
                 handed'[m] + Cardinality(Carriers(m)') <= faults' + clicks'
  <2>1. Carriers(m)' = Carriers(m) /\ JobHas(m)' = JobHas(m)
    BY <1>1 DEF Carriers, Carries, JobHas, Marked
  <2> QED
    BY <1>1, <2>1, Balanced
<1>2. CASE \E n \in Mails : QueueEmail(n)
  BY <1>1, <1>2 DEF QueueEmail, Inv, TypeOK
<1>3. CASE \E s \in Schools : Suspend(s) \/ Reactivate(s)
  BY <1>1, <1>3 DEF Suspend, Reactivate
<1>4. CASE \E d \in Drainers : Continue(d)
  BY <1>4, CountContinue
<1>5. CASE \E d \in Drainers : RollBack(d)
  <2>1. PICK d \in Drainers : RollBack(d)
    BY <1>5
  <2>2. handed'[m] + Cardinality(Carriers(m)') <= faults' + clicks'
    BY <2>1, CountFault DEF RollBack
  <2>3. /\ handed'[m] + Cardinality(Carriers(m)') \in Int
        /\ faults' + clicks' \in Int
    <3>1. Carriers(m)' \in SUBSET Drainers
      BY DEF Carriers
    <3>2. Cardinality(Carriers(m)') \in Nat
      BY <3>1, Counts
    <3> QED
      BY <3>2, TypeStep, BoundAssumption DEF Inv, TypeOK
  <2> QED
    BY <2>2, <2>3, TypeStep, BoundAssumption DEF Inv, TypeOK
<1>6. CASE JobDies
  <2>2. handed'[m] + Cardinality(Carriers(m)') <= faults' + clicks'
    BY <1>0, <1>6, CountFault DEF JobDies
  <2>3. /\ handed'[m] + Cardinality(Carriers(m)') \in Int
        /\ faults' + clicks' \in Int
    <3>1. Carriers(m)' \in SUBSET Drainers
      BY DEF Carriers
    <3>2. Cardinality(Carriers(m)') \in Nat
      BY <3>1, Counts
    <3> QED
      BY <3>2, TypeStep, BoundAssumption DEF Inv, TypeOK
  <2> QED
    BY <2>2, <2>3, TypeStep, BoundAssumption DEF Inv, TypeOK
<1>7. CASE JobStarts
  BY <1>1, <1>7 DEF JobStarts
<1>8. CASE \E s \in Schools : JobTakes(s)
  BY <1>0, <1>8, CountOpen DEF JobTakes
<1>9. CASE \E d \in Drainers, s \in Schools : PortalDrains(d, s)
  BY <1>9, CountOpen DEF PortalDrains
<1>10. CASE UNCHANGED vars
  BY <1>1, <1>10 DEF vars
<1> QED
  BY <1>2, <1>3, <1>4, <1>5, <1>6, <1>7, <1>8, <1>9, <1>10 DEF Next

LEMMA CountInit == Init => CountInv
<1> SUFFICES ASSUME Init, NEW m \in Mails
             PROVE  handed[m] = 0 /\ Cardinality(Carriers(m)) = 0 /\ faults = 0 /\ clicks = 0
  BY DEF CountInv
<1>1. m # None
  BY OutboxAssumption
<1>2. Carriers(m) = {}
  BY <1>1 DEF Init, Carriers, Carries, NoTxn
<1> QED
  BY <1>2, FS_EmptySet DEF Init

\* However many drains run at once, a mail is handed over once, and once more only for a
\* transaction that ended before it committed or a drain from the portal (drainQueuedEmails).
THEOREM RepeatsAreCaused == Spec => []RepeatsHaveACause
<1>1. Inv /\ CountInv => RepeatsHaveACause
  <2> SUFFICES ASSUME Inv, CountInv, NEW m \in Mails PROVE handed[m] <= 1 + faults + clicks
    BY DEF RepeatsHaveACause
  <2>1. Carriers(m) \in SUBSET Drainers
    BY DEF Carriers
  <2>2. Cardinality(Carriers(m)) \in Nat
    BY <2>1, Counts
  <2>3. handed[m] \in Nat /\ faults \in Nat /\ clicks \in Nat
    BY BoundAssumption DEF Inv, TypeOK
  <2> QED
    BY <2>2, <2>3 DEF CountInv
<1> QED
  BY <1>1, InvInit, InvStep, CountInit, CountStep, PTL DEF Spec
=============================================================================
