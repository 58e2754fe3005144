---------------------------- MODULE ExamRoomProofs ----------------------------
(***************************************************************************)
(* What ExamRoom guarantees for any number of questions, changes, failures *)
(* and reloads; and, at the end, what Timetable guarantees of the times of *)
(* the papers sat there.                                                   *)
(***************************************************************************)
EXTENDS ExamRoom, Timetable, FiniteSetTheorems, TLAPS

\* Of two answers queued, one is before the other.
Total ==
    \A a, b \in Queued : a # b => <<a, b>> \in before \/ <<b, a>> \in before

(***************************************************************************)
(* The queue after each operation on it.                                   *)
(***************************************************************************)
LEMMA PutKeeps ==
  ASSUME TypeOK, Total, NEW S \in SUBSET Questions, NEW text,
         \A q \in S : text[q] \in Nat, Put(S, text)
  PROVE  /\ queue' \in [Questions -> Nat \union {NotQueued}]
         /\ Queued' = Queued \union S
         /\ before' \subseteq Queued' \X Queued'
         /\ Total'
         /\ \A q \in Questions : queue'[q] = IF q \in S THEN text[q] ELSE queue[q]
         /\ \A q \in Questions \ S : IsHead(q) => IsHead(q)'
<1>1. queue' = [q \in Questions |-> IF q \in S THEN text[q] ELSE queue[q]]
  BY DEF Put
<1>2. PICK order \in Orders(S) :
         before' = Among(Queued \ S) \union ((Queued \ S) \X S) \union order
  BY DEF Put
<1>3. /\ order \subseteq S \X S
      /\ \A a, b \in S : a # b => <<a, b>> \in order \/ <<b, a>> \in order
  BY <1>2 DEF Orders
<1>4. queue' \in [Questions -> Nat \union {NotQueued}] /\ Queued' = Queued \union S
  BY <1>1 DEF TypeOK, Queued, NotQueued
<1>5. before' \subseteq Queued' \X Queued'
  BY <1>2, <1>3, <1>4 DEF Among
<1>6. \A a, b : <<a, b>> \in before' <=>
         \/ <<a, b>> \in before /\ a \in Queued \ S /\ b \in Queued \ S
         \/ a \in Queued \ S /\ b \in S
         \/ <<a, b>> \in order
  BY <1>2 DEF Among
<1>7. Total'
  BY <1>3, <1>4, <1>6 DEF Total
<1>8. \A q \in Questions \ S : IsHead(q) => IsHead(q)'
  BY <1>3, <1>4, <1>6 DEF IsHead
<1> QED
  BY <1>1, <1>4, <1>5, <1>7, <1>8

LEMMA OneHead ==
  ASSUME Total, before \subseteq Queued \X Queued, NEW a \in Questions, NEW b \in Questions,
         IsHead(a), IsHead(b)
  PROVE  a = b
BY DEF Total, IsHead, Queued

LEMMA ShiftKeeps ==
  ASSUME TypeOK, Total, Shift
  PROVE  \E h \in Questions :
            /\ IsHead(h)
            /\ queue' = [queue EXCEPT ![h] = NotQueued]
            /\ queue' \in [Questions -> Nat \union {NotQueued}]
            /\ Queued' = Queued \ {h}
            /\ before' \subseteq Queued' \X Queued'
            /\ Total'
<1>1. PICK h \in Questions :
         /\ IsHead(h)
         /\ queue' = [queue EXCEPT ![h] = NotQueued]
         /\ before' = Among(Questions \ {h})
  BY DEF Shift
<1>2. /\ queue' \in [Questions -> Nat \union {NotQueued}]
      /\ Queued' = Queued \ {h}
  BY <1>1 DEF TypeOK, Queued, NotQueued
<1>3. \A a, b : <<a, b>> \in before' <=>
         <<a, b>> \in before /\ a \in Questions \ {h} /\ b \in Questions \ {h}
  BY <1>1 DEF Among
<1>4. before' \subseteq Queued' \X Queued'
  BY <1>1, <1>2 DEF Among, TypeOK
<1>5. Total'
  BY <1>2, <1>3 DEF Total, Queued
<1> QED
  BY <1>1, <1>2, <1>4, <1>5

LEMMA ClearKeeps ==
  ASSUME Clear
  PROVE  /\ queue' \in [Questions -> Nat \union {NotQueued}]
         /\ Queued' = {}
         /\ before' \subseteq Queued' \X Queued'
         /\ Total'
BY DEF Clear, Queued, Total

\* The answer posted is the first of the queue as it is then.
Posting == loop' # Idle /\ IsHead(loop.q)' /\ loop'.v = queue'[loop'.q] /\ loop'.reply = "none"

LEMMA PostNextPosts ==
  ASSUME queue' \in [Questions -> Nat \union {NotQueued}], PostNext
  PROVE  /\ loop' \in Posted \union {Idle}
         /\ Queued' = {} => loop' = Idle
         /\ Queued' # {} => loop'.q \in Questions /\ Posting
<1>1. CASE Queued' = {}
  BY <1>1 DEF PostNext
<1>2. CASE Queued' # {}
  <2>1. PICK h \in Questions :
           IsHead(h)' /\ loop' = [q |-> h, v |-> queue'[h], reply |-> "none"]
    BY <1>2 DEF PostNext
  <2>2. queue'[h] \in Nat
    BY <2>1 DEF IsHead, Queued
  <2>3. loop' # Idle /\ loop' \in Posted
    BY <2>1, <2>2 DEF Idle, Posted
  <2> QED
    BY <1>2, <2>1, <2>3 DEF Posting
<1> QED
  BY <1>1, <1>2

LEMMA FlushPosts ==
  ASSUME loop \in Posted \union {Idle},
         queue' \in [Questions -> Nat \union {NotQueued}], Flush
  PROVE  /\ loop' \in Posted \union {Idle}
         /\ loop # Idle => loop' = loop
         /\ loop = Idle /\ Queued' = {} => loop' = Idle
         /\ loop = Idle /\ Queued' # {} => loop'.q \in Questions /\ Posting
BY PostNextPosts DEF Flush

-----------------------------------------------------------------------------
(***************************************************************************)
(* Types, and the order of the queue.                                      *)
(***************************************************************************)
QueueOK ==
    /\ queue \in [Questions -> Nat \union {NotQueued}]
    /\ before \subseteq Queued \X Queued
    /\ loop \in Posted \union {Idle}
    /\ Total

\* What the type invariant says of the rest.
RestOK ==
    /\ server \in {"open", "late", "closed"}
    /\ stored \in [Questions -> Nat]
    /\ shown \in [Questions -> Nat]
    /\ typing \subseteq Theory
    /\ late \subseteq Answer
    /\ retry \in BOOLEAN
    /\ draining \in BOOLEAN
    /\ posts \in Nat
    /\ page \in {"open", "submitting", "left"}
    /\ mishaps \subseteq {"lost", "undone"}
    /\ failures \in Nat
    /\ reloads \in Nat

LEMMA TypeMeans ==
  /\ TypeOK /\ Total <=> QueueOK /\ RestOK
  /\ TypeOK' /\ Total' <=> QueueOK' /\ RestOK'
BY DEF TypeOK, QueueOK, RestOK

LEMMA ChangeShows ==
  ASSUME RestOK, NEW q \in Questions, Change(q)
  PROVE  /\ shown' \in [Questions -> Nat]
         /\ shown'[q] = shown[q] + 1
         /\ \A r \in Questions \ {q} : shown'[r] = shown[r]
BY DEF RestOK, Change

LEMMA QueueStep ==
  ASSUME TypeOK, Total, [Next]_vars
  PROVE  QueueOK'
<1>0. QueueOK /\ RestOK
  BY TypeMeans
<1>1. ASSUME UNCHANGED <<queue, before>>, loop' \in Posted \union {Idle} PROVE QueueOK'
  BY <1>0, <1>1 DEF QueueOK, Queued, Total
<1>2. ASSUME UNCHANGED <<queue, before, loop>> PROVE QueueOK'
  BY <1>0, <1>1, <1>2 DEF QueueOK
<1>3. ASSUME NEW S \in SUBSET Questions, NEW text, \A q \in S : text[q] \in Nat,
             Put(S, text), Flush
      PROVE  QueueOK'
  <2>1. /\ queue' \in [Questions -> Nat \union {NotQueued}]
        /\ before' \subseteq Queued' \X Queued'
        /\ Total'
    BY <1>3, PutKeeps
  <2> QED
    BY <1>0, <1>3, <2>1, FlushPosts DEF QueueOK
<1>4. ASSUME NEW q \in Questions, Choose(q) PROVE QueueOK'
  <2>1. \A r \in {q} : shown'[r] \in Nat
    BY <1>0, <1>4, ChangeShows DEF Choose
  <2> QED
    BY <1>3, <1>4, <2>1 DEF Choose
<1>5. ASSUME NEW q \in Questions, Pause(q) PROVE QueueOK'
  <2>1. \A r \in {q} : shown[r] \in Nat
    BY <1>0 DEF RestOK
  <2> QED
    BY <1>3, <1>5, <2>1 DEF Pause
<1>6. ASSUME NEW q \in Questions, WriteTheory(q) PROVE QueueOK'
  BY <1>2, <1>6 DEF WriteTheory
<1>7. CASE Arrive
  BY <1>0, <1>1, <1>7 DEF Arrive, QueueOK, Posted, Idle
<1>8. CASE Saved
  <2>1. /\ queue' \in [Questions -> Nat \union {NotQueued}]
        /\ before' \subseteq Queued' \X Queued'
        /\ Total'
    BY <1>8, ShiftKeeps DEF Saved
  <2> QED
    BY <1>8, <2>1, PostNextPosts DEF Saved, QueueOK
<1>9. ASSUME Clear, loop' = Idle PROVE QueueOK'
  BY <1>9, ClearKeeps DEF QueueOK
<1>10. CASE Refused \/ Reload
  BY <1>9, <1>10 DEF Refused, Reload
<1>11. CASE ArriveLate \/ Submitted \/ SubmitRejected \/ SubmitFails \/ ServerMoves
            \/ UNCHANGED vars
  BY <1>2, <1>11 DEF ArriveLate, Submitted, SubmitRejected, SubmitFails, ServerMoves, room,
                     vars
<1>12. CASE Fail
  BY <1>1, <1>12 DEF Fail
<1>13. CASE Retry \/ Online
  <2>1. queue' \in [Questions -> Nat \union {NotQueued}] /\ Flush
        /\ UNCHANGED <<queue, before>>
    BY <1>0, <1>13 DEF Retry, Online, QueueOK
  <2> QED
    BY <1>0, <1>1, <2>1, FlushPosts DEF QueueOK
<1>14. ASSUME NEW text, \A q \in typing : text[q] \in Nat, DoSubmit(text) PROVE QueueOK'
  <2>1. typing \in SUBSET Questions
    BY <1>0, TheoryAssumption DEF RestOK
  <2> QED
    BY <1>3, <1>14, <2>1 DEF DoSubmit
<1>15. CASE SubmitPaper
  <2>1. \A q \in typing : shown[q] \in Nat
    BY <1>0, TheoryAssumption DEF RestOK
  <2> QED
    BY <1>14, <1>15, <2>1 DEF SubmitPaper
<1>16. CASE CountdownSubmit
  <2> DEFINE none == [q \in Questions |-> 0]
  <2>1. \A q \in typing : none[q] \in Nat
    BY <1>0, TheoryAssumption DEF RestOK
  <2> HIDE DEF none
  <2>2. DoSubmit(none)
    BY <1>16 DEF CountdownSubmit, none
  <2> QED
    BY <1>14, <2>1, <2>2
<1> QED
  BY <1>4, <1>5, <1>6, <1>7, <1>8, <1>10, <1>11, <1>12, <1>13, <1>15, <1>16 DEF Next, Reply

LEMMA GiveUpTyped ==
  ASSUME TypeOK, NEW mishap \in SUBSET {"lost", "undone"}, GiveUp(mishap)
  PROVE  late' \subseteq Answer /\ mishaps' \subseteq {"lost", "undone"}
<1>1. CASE late' = late /\ mishaps' = mishaps \union mishap
  BY <1>1 DEF TypeOK
<1>2. CASE /\ loop # Idle
           /\ late' = late \union {[q |-> loop.q, v |-> loop.v]}
           /\ mishaps' = mishaps \union mishap \union {"undone"}
  <2>1. [q |-> loop.q, v |-> loop.v] \in Answer
    BY <1>2 DEF TypeOK, Answer, Posted
  <2> QED
    BY <1>2, <2>1 DEF TypeOK
<1> QED
  BY <1>1, <1>2 DEF GiveUp

LEMMA RestStep ==
  ASSUME TypeOK, Total, [Next]_vars
  PROVE  RestOK'
<1>0. QueueOK /\ RestOK
  BY TypeMeans
<1>1. ASSUME NEW S PROVE Hasty(S) \subseteq {"lost", "undone"}
  BY DEF Hasty
<1>2. /\ Belated \subseteq {"lost", "undone"}
      /\ Overtaken \subseteq {"lost", "undone"}
      /\ Drained => draining' \in BOOLEAN /\ posts' \in Nat
  <2>1. Belated \subseteq {"lost", "undone"} /\ Overtaken \subseteq {"lost", "undone"}
    BY DEF Belated, Overtaken
  <2>2. ASSUME Drained PROVE draining' \in BOOLEAN /\ posts' \in Nat
    <3>1. draining' \in BOOLEAN
      BY <2>2, Zenon DEF Drained
    <3>2. posts' \in Nat
      BY <1>0, <2>2 DEF Drained, RestOK
    <3> QED
      BY <3>1, <3>2
  <2> QED
    BY <2>1, <2>2
<1>3. ASSUME NEW q \in Questions, Choose(q) PROVE RestOK'
  BY <1>0, <1>1, <1>2, <1>3, ChangeShows DEF Choose, RestOK
<1>4. ASSUME NEW q \in Questions, WriteTheory(q) PROVE RestOK'
  BY <1>0, <1>1, <1>2, <1>4, ChangeShows DEF WriteTheory, RestOK
<1>5. ASSUME NEW q \in Questions, Pause(q) PROVE RestOK'
  BY <1>0, <1>1, <1>5 DEF Pause, RestOK
<1>6. ASSUME NEW answer \in Answer, Save(answer) PROVE stored' \in [Questions -> Nat]
  BY <1>0, <1>6 DEF Save, RestOK, Answer
<1>7. CASE Arrive
  <2>1. stored' \in [Questions -> Nat]
    BY <1>0, <1>7 DEF Arrive, Save, QueueOK, RestOK, Posted, Idle
  <2> QED
    BY <1>0, <1>7, <2>1 DEF Arrive, RestOK
<1>8. CASE ArriveLate
  <2>1. stored' \in [Questions -> Nat]
    BY <1>0, <1>6, <1>8 DEF ArriveLate, RestOK
  <2> QED
    BY <1>0, <1>8, <2>1 DEF ArriveLate, RestOK, room
<1>9. CASE Saved
  BY <1>0, <1>2, <1>9 DEF Saved, RestOK
<1>10. CASE Refused
  BY <1>0, <1>2, <1>10 DEF Refused, RestOK
<1>11. CASE Fail
  <2>1. late' \subseteq Answer /\ mishaps' \subseteq {"lost", "undone"}
    BY <1>11, GiveUpTyped DEF Fail
  <2> QED
    BY <1>0, <1>2, <1>11, <2>1 DEF Fail, Fault, RestOK
<1>12. CASE Retry \/ Online
  BY <1>0, <1>12 DEF Retry, Online, RestOK
<1>13. ASSUME NEW text, DoSubmit(text), mishaps' \subseteq {"lost", "undone"} PROVE RestOK'
  <2>1. draining' \in BOOLEAN /\ posts' \in Nat
    <3>1. draining' \in BOOLEAN
      BY <1>0, <1>13, Zenon DEF DoSubmit, RestOK
    <3>2. posts' \in Nat
      BY <1>0, <1>13 DEF DoSubmit, RestOK
    <3> QED
      BY <3>1, <3>2
  <2>2. typing' = {} /\ page' = "submitting"
        /\ UNCHANGED <<server, stored, shown, late, retry, failures, reloads>>
    BY <1>13 DEF DoSubmit
  <2> QED
    BY <1>0, <1>13, <2>1, <2>2 DEF RestOK
<1>14. CASE SubmitPaper
  BY <1>0, <1>1, <1>2, <1>13, <1>14 DEF SubmitPaper, RestOK
<1>15. CASE CountdownSubmit
  BY <1>0, <1>1, <1>2, <1>13, <1>15 DEF CountdownSubmit, RestOK
<1>16. CASE Submitted \/ SubmitRejected \/ SubmitFails
  <2>1. /\ server' \in {server, "closed"}
        /\ page' \in {"open", "left"}
        /\ draining' = draining /\ posts' \in Nat
        /\ mishaps' \subseteq mishaps \union {"lost"}
        /\ failures' \in {failures, failures + 1}
        /\ UNCHANGED <<stored, shown, typing, late, retry, reloads>>
    BY <1>0, <1>16 DEF Submitted, SubmitRejected, SubmitFails, Fault, RestOK
  <2> QED
    BY <1>0, <2>1 DEF RestOK
<1>17. CASE ServerMoves \/ UNCHANGED vars
  BY <1>0, <1>17 DEF ServerMoves, RestOK, room, vars
<1>18. CASE Reload
  <2>1. late' \subseteq Answer /\ mishaps' \subseteq {"lost", "undone"}
    BY <1>18, GiveUpTyped DEF Reload
  <2>2. /\ typing' = {} /\ draining' = FALSE /\ posts' = 0 /\ retry' = FALSE /\ page' = "open"
        /\ reloads' = reloads + 1
        /\ UNCHANGED <<server, stored, shown, failures>>
    BY <1>18 DEF Reload
  <2>3. retry' \in BOOLEAN /\ draining' \in BOOLEAN /\ posts' \in Nat
    BY <2>2
  <2>4. reloads' \in Nat
    BY <1>0, <2>2 DEF RestOK
  <2> QED
    BY <1>0, <2>1, <2>2, <2>3, <2>4 DEF RestOK
<1> QED
  BY <1>3, <1>4, <1>5, <1>7, <1>8, <1>9, <1>10, <1>11, <1>12, <1>14, <1>15, <1>16, <1>17, <1>18
  DEF Next, Reply

Typed == TypeOK /\ Total

LEMMA TypedHolds == Spec => []Typed
<1>1. Init => Typed
  <2> SUFFICES ASSUME Init PROVE Typed
    OBVIOUS
  <2>1. RestOK
    <3>1. retry \in BOOLEAN /\ draining \in BOOLEAN
      BY DEF Init
    <3> QED
      BY <3>1 DEF Init, RestOK
  <2>2. QueueOK
    BY DEF Init, QueueOK, Total, Queued, NotQueued
  <2> QED
    BY <2>1, <2>2, TypeMeans DEF Typed
<1>2. Typed /\ [Next]_vars => Typed'
  BY QueueStep, RestStep, TypeMeans DEF Typed
<1> QED
  BY <1>1, <1>2, PTL DEF Spec

\* The variables stay in their types.
THEOREM TypeCorrect == Spec => []TypeOK
<1>1. Typed => TypeOK
  BY DEF Typed
<1> QED
  BY <1>1, TypedHolds, PTL

-----------------------------------------------------------------------------
(***************************************************************************)
(* The queue is never stranded.                                            *)
(***************************************************************************)
LEMMA NeverStrandedStep ==
  ASSUME Typed, NeverStranded, [Next]_vars
  PROVE  NeverStranded'
<1>0. QueueOK /\ RestOK
  BY TypeMeans DEF Typed
<1>1. QueueOK'
  BY QueueStep DEF Typed
<1>2. ASSUME Flush PROVE NeverStranded'
  BY <1>0, <1>1, <1>2, FlushPosts DEF NeverStranded, QueueOK, Posting
<1>3. ASSUME UNCHANGED <<queue, retry>>, loop' # Idle <=> loop # Idle, page' = "left" \/ page # "left"
      PROVE  NeverStranded'
  BY <1>3 DEF NeverStranded, Queued
<1>4. ASSUME Clear PROVE NeverStranded'
  BY <1>4, ClearKeeps DEF NeverStranded
<1>5. ASSUME NEW q \in Questions, Choose(q) \/ Pause(q) PROVE NeverStranded'
  BY <1>2, <1>5 DEF Choose, Pause
<1>6. ASSUME NEW q \in Questions, WriteTheory(q) PROVE NeverStranded'
  BY <1>3, <1>6 DEF WriteTheory
<1>7. CASE Arrive
  BY <1>0, <1>3, <1>7 DEF Arrive, QueueOK, Posted, Idle
<1>8. CASE Saved
  <2>1. PostNext
    BY <1>8 DEF Saved
  <2> QED
    BY <1>1, <2>1, PostNextPosts DEF NeverStranded, QueueOK, Posting
<1>9. CASE Refused \/ Reload
  BY <1>4, <1>9 DEF Refused, Reload
<1>10. CASE Fail
  BY <1>10 DEF Fail, NeverStranded
<1>11. CASE Retry \/ Online
  BY <1>2, <1>11 DEF Retry, Online
<1>12. CASE SubmitPaper \/ CountdownSubmit
  BY <1>2, <1>12 DEF SubmitPaper, CountdownSubmit, DoSubmit
<1>13. CASE ArriveLate \/ Submitted \/ SubmitRejected \/ SubmitFails \/ ServerMoves
            \/ UNCHANGED vars
  BY <1>3, <1>13 DEF ArriveLate, Submitted, SubmitRejected, SubmitFails, ServerMoves, room,
                     vars
<1> QED
  BY <1>5, <1>6, <1>7, <1>8, <1>9, <1>10, <1>11, <1>12, <1>13 DEF Next, Reply

\* A queue always has a loop that sends it, or a timer that will start one.
THEOREM NotStranded == Spec => []NeverStranded
<1>1. Init => NeverStranded
  BY DEF Init, NeverStranded, Queued
<1> QED
  BY <1>1, NeverStrandedStep, TypedHolds, PTL DEF Spec

-----------------------------------------------------------------------------
(***************************************************************************)
(* Answers only move forward: unless something was undone, what is stored  *)
(* is no later than what is under way, that no later than what is queued,  *)
(* and that no later than what is shown.                                   *)
(***************************************************************************)
InOrder ==
    /\ late = {}
    /\ \A q \in Questions : stored[q] <= shown[q]
    /\ \A q \in Queued : stored[q] <= queue[q] /\ queue[q] <= shown[q]
    /\ loop # Idle =>
          /\ loop.v <= shown[loop.q]
          /\ loop.q \in Queued => loop.v <= queue[loop.q]
          /\ loop.reply = "none" => stored[loop.q] <= loop.v

Forward == "undone" \notin mishaps => InOrder

LEMMA MishapsStay == ASSUME [Next]_vars PROVE mishaps \subseteq mishaps'
<1>1. ASSUME NEW q \in Questions, Choose(q) \/ WriteTheory(q) \/ Pause(q)
      PROVE  mishaps \subseteq mishaps'
  BY <1>1 DEF Choose, WriteTheory, Pause
<1>2. CASE Reply \/ ArriveLate \/ Retry \/ Online
  BY <1>2 DEF Reply, Arrive, Saved, Refused, ArriveLate, Retry, Online
<1>3. CASE Fail \/ Reload
  BY <1>3 DEF Fail, Reload, GiveUp
<1>4. CASE SubmitPaper \/ CountdownSubmit
  BY <1>4 DEF SubmitPaper, CountdownSubmit
<1>5. CASE Submitted \/ SubmitRejected \/ SubmitFails \/ ServerMoves \/ UNCHANGED vars
  BY <1>5 DEF Submitted, SubmitRejected, SubmitFails, ServerMoves, vars
<1> QED
  BY <1>1, <1>2, <1>3, <1>4, <1>5 DEF Next

\* What is shown is queued, and posted if nothing else is.
LEMMA PutInOrder ==
  ASSUME Typed, InOrder, shown' \in [Questions -> Nat],
         \A q \in Questions : shown[q] <= shown'[q],
         NEW S \in SUBSET Questions, NEW text, \A q \in S : text[q] = shown'[q],
         Put(S, text), Flush, UNCHANGED <<stored, late>>
  PROVE  InOrder'
<1>0. QueueOK /\ RestOK
  BY TypeMeans DEF Typed
<1>1. \A q \in S : text[q] \in Nat
  OBVIOUS
<1>2. /\ queue' \in [Questions -> Nat \union {NotQueued}]
      /\ Queued' = Queued \union S
      /\ \A q \in Questions : queue'[q] = IF q \in S THEN text[q] ELSE queue[q]
  BY <1>1, PutKeeps DEF Typed
<1>3. \A q \in Questions : stored'[q] <= shown'[q]
  BY <1>0 DEF InOrder, RestOK
<1>4. \A q \in Queued' : stored'[q] <= queue'[q] /\ queue'[q] <= shown'[q]
  <2> SUFFICES ASSUME NEW q \in Queued' PROVE stored'[q] <= queue'[q] /\ queue'[q] <= shown'[q]
    OBVIOUS
  <2>1. CASE q \in S
    BY <1>0, <1>2, <1>3, <2>1 DEF RestOK
  <2>2. CASE q \notin S
    <3>1. q \in Queued /\ q \in Questions /\ queue'[q] = queue[q] /\ queue[q] \in Nat
      BY <1>0, <1>2, <2>2 DEF Queued, QueueOK
    <3> QED
      BY <1>0, <3>1 DEF InOrder, RestOK
  <2> QED
    BY <2>1, <2>2
<1>5. CASE loop # Idle
  <2>1. loop' = loop /\ loop.q \in Questions /\ loop.v \in Nat
    BY <1>0, <1>5 DEF Flush, QueueOK, Posted
  <2>2. loop.v <= shown'[loop.q]
    BY <1>0, <1>5, <2>1 DEF InOrder, RestOK
  <2>3. loop.q \in Queued' => loop.v <= queue'[loop.q]
    BY <1>2, <1>5, <2>1, <2>2 DEF InOrder
  <2> QED
    BY <1>3, <1>4, <1>5, <2>1, <2>2, <2>3 DEF InOrder
<1>6. CASE loop = Idle
  <2>1. loop' # Idle => loop'.q \in Questions /\ Posting
    BY <1>0, <1>2, <1>6, FlushPosts DEF QueueOK
  <2>2. loop' # Idle =>
          loop'.q \in Queued' /\ loop'.v = queue'[loop'.q] /\ loop'.v \in Nat
    BY <1>2, <2>1 DEF Posting, IsHead, Queued
  <2> QED
    BY <1>3, <1>4, <2>2 DEF InOrder
<1> QED
  BY <1>5, <1>6

LEMMA ForwardStep ==
  ASSUME Typed, Forward, [Next]_vars
  PROVE  Forward' /\ ("undone" \notin mishaps => \A q \in Questions : stored[q] <= stored'[q])
<1> SUFFICES ASSUME "undone" \notin mishaps
             PROVE  /\ "undone" \notin mishaps' => InOrder'
                    /\ \A q \in Questions : stored[q] <= stored'[q]
  BY MishapsStay DEF Forward
<1>0. QueueOK /\ RestOK /\ InOrder
  BY TypeMeans DEF Typed, Forward
<1>1. UNCHANGED stored => \A q \in Questions : stored[q] <= stored'[q]
  BY <1>0 DEF RestOK
<1>2. ASSUME UNCHANGED <<stored, shown, queue, late>>, loop' \in {loop, Idle} PROVE InOrder'
  BY <1>2, <1>0 DEF InOrder, Queued
<1>3. \A q \in Questions : shown[q] <= shown[q]
  BY <1>0 DEF RestOK
<1>4. ASSUME NEW q \in Questions, Choose(q)
      PROVE  InOrder' /\ UNCHANGED stored
  <2>1. shown' \in [Questions -> Nat] /\ \A r \in Questions : shown[r] <= shown'[r]
    BY <1>0, <1>4, ChangeShows DEF Choose, RestOK
  <2> QED
    BY <1>0, <1>4, <2>1, PutInOrder DEF Choose
<1>5. ASSUME NEW q \in Questions, Pause(q) PROVE InOrder' /\ UNCHANGED stored
  <2>1. shown' = shown
    BY <1>5 DEF Pause
  <2> QED
    BY <1>0, <1>3, <1>5, <2>1, PutInOrder DEF Pause, RestOK
<1>6. ASSUME NEW q \in Questions, WriteTheory(q) PROVE InOrder' /\ UNCHANGED stored
  <2>1. /\ shown' \in [Questions -> Nat]
        /\ \A r \in Questions : shown[r] <= shown'[r]
    BY <1>0, <1>6, ChangeShows DEF WriteTheory, RestOK
  <2>2. UNCHANGED <<stored, queue, loop, late>>
    BY <1>6 DEF WriteTheory
  <2>3. Queued' = Queued /\ Queued \subseteq Questions /\ \A r \in Queued : queue[r] \in Nat
    BY <1>0, <2>2 DEF Queued, QueueOK
  <2>4. loop # Idle => loop.q \in Questions /\ loop.v \in Nat
    BY <1>0 DEF QueueOK, Posted
  <2>5. loop # Idle => loop.v <= shown'[loop.q]
    BY <1>0, <2>1, <2>4 DEF InOrder, RestOK
  <2> QED
    BY <1>0, <2>1, <2>2, <2>3, <2>5 DEF InOrder, RestOK
<1>7. CASE Arrive
  <2>1. /\ loop # Idle /\ loop.reply = "none" /\ loop.q \in Questions /\ loop.v \in Nat
        /\ UNCHANGED <<shown, queue, late>>
        /\ loop' # Idle /\ loop'.q = loop.q /\ loop'.v = loop.v /\ loop'.reply # "none"
    BY <1>0, <1>7 DEF Arrive, QueueOK, Posted, Idle
  <2>2. stored' = stored \/ stored' = [stored EXCEPT ![loop.q] = loop.v]
    BY <1>7 DEF Arrive, Save
  <2>3. Queued' = Queued /\ Queued \subseteq Questions
    BY <2>1 DEF Queued
  <2>4. \A q \in Questions : stored'[q] = stored[q] \/ (q = loop.q /\ stored'[q] = loop.v)
    BY <1>0, <2>2 DEF RestOK
  <2> QED
    BY <1>0, <2>1, <2>3, <2>4 DEF InOrder, RestOK
<1>8. CASE ArriveLate
  BY <1>0, <1>8 DEF ArriveLate, InOrder
<1>9. CASE Saved
  <2>1. PICK h \in Questions :
           /\ queue' = [queue EXCEPT ![h] = NotQueued]
           /\ queue' \in [Questions -> Nat \union {NotQueued}]
           /\ Queued' = Queued \ {h}
    BY <1>9, ShiftKeeps DEF Saved, Typed
  <2>2. UNCHANGED <<stored, shown, late>> /\ PostNext
    BY <1>9 DEF Saved
  <2>3. \A q \in Queued' : q \in Queued /\ queue'[q] = queue[q]
    BY <1>0, <2>1 DEF QueueOK, Queued
  <2>4. loop' # Idle =>
          loop'.q \in Queued' /\ loop'.v = queue'[loop'.q] /\ loop'.v \in Nat
    BY <2>1, <2>2, PostNextPosts DEF Posting, IsHead, Queued
  <2>5. Queued' \subseteq Questions
    BY DEF Queued
  <2> QED
    BY <1>0, <1>1, <2>2, <2>3, <2>4, <2>5 DEF InOrder
<1>10. ASSUME Clear, loop' = Idle, UNCHANGED <<stored, shown, late>> PROVE InOrder'
  BY <1>0, <1>10, ClearKeeps DEF InOrder
<1>11. CASE Refused
  BY <1>1, <1>10, <1>11 DEF Refused
<1>12. ASSUME Fail \/ Reload, "undone" \notin mishaps' PROVE late' = late
  BY <1>12 DEF Fail, Reload, GiveUp
<1>13. CASE Reload
  BY <1>1, <1>10, <1>12, <1>13 DEF Reload
<1>14. CASE Fail
  BY <1>1, <1>2, <1>12, <1>14 DEF Fail
<1>15. CASE Retry \/ Online
  <2>1. UNCHANGED <<stored, shown, queue, late>> /\ Flush
    BY <1>15 DEF Retry, Online
  <2>2. CASE loop # Idle
    BY <1>1, <1>2, <2>1, <2>2 DEF Flush
  <2>3. CASE loop = Idle
    <3>1. loop' # Idle => loop'.q \in Questions /\ Posting
      BY <1>0, <2>1, <2>3, FlushPosts DEF QueueOK
    <3>2. loop' # Idle =>
            loop'.q \in Queued' /\ loop'.v = queue'[loop'.q] /\ loop'.v \in Nat
      BY <1>0, <2>1, <3>1 DEF Posting, IsHead, Queued, QueueOK
    <3>3. Queued' = Queued /\ Queued \subseteq Questions
      BY <2>1 DEF Queued
    <3> QED
      BY <1>0, <1>1, <2>1, <3>2, <3>3 DEF InOrder
  <2> QED
    BY <2>1, <2>2, <2>3
<1>16. CASE SubmitPaper
  <2>1. Put(typing, shown) /\ Flush /\ UNCHANGED <<stored, shown, late>>
    BY <1>16 DEF SubmitPaper, DoSubmit
  <2>2. typing \in SUBSET Questions
    BY <1>0, TheoryAssumption DEF RestOK
  <2> QED
    BY <1>0, <1>1, <1>3, <2>1, <2>2, PutInOrder DEF RestOK
<1>17. ASSUME CountdownSubmit, "undone" \notin mishaps' PROVE InOrder'
  <2>1. typing = {}
    BY <1>17 DEF CountdownSubmit
  <2>2. PICK none : Put({}, none) /\ Flush /\ UNCHANGED <<stored, shown, late>>
    BY <1>17, <2>1 DEF CountdownSubmit, DoSubmit
  <2> QED
    BY <1>0, <1>3, <2>2, PutInOrder DEF RestOK
<1>18. CASE Submitted \/ SubmitRejected \/ SubmitFails \/ ServerMoves \/ UNCHANGED vars
  BY <1>1, <1>2, <1>18 DEF Submitted, SubmitRejected, SubmitFails, ServerMoves, room, vars
<1>19. CountdownSubmit => UNCHANGED stored
  BY DEF CountdownSubmit, DoSubmit
<1> QED
  BY <1>1, <1>4, <1>5, <1>6, <1>7, <1>8, <1>9, <1>11, <1>13, <1>14, <1>15, <1>16, <1>17, <1>18,
     <1>19
  DEF Next, Reply

LEMMA ForwardHolds == Spec => []Forward
<1>1. Init => Forward
  BY DEF Init, Forward, InOrder, Queued
<1> QED
  BY <1>1, ForwardStep, TypedHolds, PTL DEF Spec

\* What is stored goes back only after something was undone.
THEOREM StoredForward == Spec => StoredMovesForward
<1>1. Typed /\ Forward /\ [Next]_vars =>
        [\A q \in Questions : stored'[q] < stored[q] => "undone" \in mishaps]_vars
  <2> SUFFICES ASSUME Typed, Forward, [Next]_vars, "undone" \notin mishaps
               PROVE  \A q \in Questions : ~(stored'[q] < stored[q])
    OBVIOUS
  <2>1. \A q \in Questions : stored[q] <= stored'[q] /\ stored[q] \in Nat /\ stored'[q] \in Nat
    BY ForwardStep, RestStep, TypeMeans DEF Typed, RestOK
  <2> QED
    BY <2>1
<1> QED
  BY <1>1, TypedHolds, ForwardHolds, PTL DEF Spec, StoredMovesForward

-----------------------------------------------------------------------------
(***************************************************************************)
(* While none of the mishaps happens: the answer posted is the first of    *)
(* the queue, and what is queued is what is shown or about to be replaced  *)
(* by it.                                                                  *)
(***************************************************************************)
InHand ==
    /\ \A q \in Questions : Kept(q)
    /\ \A q \in Queued : queue[q] = shown[q] \/ q \in typing
    /\ loop # Idle =>
          /\ IsHead(loop.q)
          /\ queue[loop.q] = loop.v
          /\ loop.reply = "saved" => stored[loop.q] = loop.v

\* A submission waits for the queue, and closes the paper on an empty one.
AtEnd ==
    /\ draining \/ posts > 0 => typing = {}
    /\ draining => loop # Idle /\ posts = 0
    /\ posts > 0 => Queued = {}
    /\ page = "left" => server = "closed" /\ posts > 0

Undisturbed == mishaps = {} => InHand /\ AtEnd

\* Text is handed to the queue, and posted if nothing else is.
LEMMA PutInHand ==
  ASSUME Typed, InHand, shown' \in [Questions -> Nat],
         NEW S \in SUBSET Questions, NEW text, \A q \in S : text[q] = shown'[q],
         Put(S, text), Flush, UNCHANGED stored,
         \A q \in Questions \ S : shown'[q] = shown[q],
         typing \ S \subseteq typing',
         loop # Idle => loop.q \notin S
  PROVE  InHand'
<1>0. QueueOK /\ RestOK
  BY TypeMeans DEF Typed
<1>1. \A q \in S : text[q] \in Nat
  OBVIOUS
<1>2. /\ queue' \in [Questions -> Nat \union {NotQueued}]
      /\ Queued' = Queued \union S
      /\ \A q \in Questions : queue'[q] = IF q \in S THEN text[q] ELSE queue[q]
      /\ \A q \in Questions \ S : IsHead(q) => IsHead(q)'
  BY <1>1, PutKeeps DEF Typed
<1>3. ASSUME NEW q \in Questions PROVE Kept(q)'
  BY <1>2 DEF InHand, Kept
<1>4. ASSUME NEW q \in Queued' PROVE queue'[q] = shown'[q] \/ q \in typing'
  <2>1. q \in Questions
    BY DEF Queued
  <2> QED
    BY <1>2, <2>1 DEF InHand
<1>5. CASE loop # Idle
  <2>1. loop' = loop /\ loop.q \in Questions \ S
    BY <1>0, <1>5 DEF Flush, QueueOK, Posted
  <2> QED
    BY <1>2, <1>3, <1>4, <1>5, <2>1 DEF InHand, IsHead, Queued
<1>6. CASE loop = Idle
  <2>1. loop' # Idle => Posting
    BY <1>0, <1>2, <1>6, FlushPosts DEF QueueOK
  <2> QED
    BY <1>3, <1>4, <2>1 DEF InHand, Posting, IsHead
<1> QED
  BY <1>5, <1>6

LEMMA InHandStep ==
  ASSUME Typed, Forward, [Next]_vars, mishaps = {}, mishaps' = {}, InHand
  PROVE  InHand'
<1>0. QueueOK /\ RestOK /\ late = {}
  BY TypeMeans DEF Typed, Forward, InOrder
<1>1. ASSUME UNCHANGED <<stored, shown, typing, queue, before>>, loop' \in {loop, Idle}
      PROVE  InHand'
  BY <1>0, <1>1 DEF InHand, Kept, IsHead, Queued
<1>2. ASSUME NEW q \in Questions, Choose(q) PROVE InHand'
  <2>1. loop # Idle => loop.q \notin {q}
    BY <1>2 DEF Choose, Hasty
  <2>2. shown' \in [Questions -> Nat] /\ \A r \in Questions \ {q} : shown'[r] = shown[r]
    BY <1>0, <1>2, ChangeShows DEF Choose
  <2> QED
    BY <1>2, <2>1, <2>2, PutInHand DEF Choose
<1>3. ASSUME NEW q \in Questions, Pause(q) PROVE InHand'
  <2>1. loop # Idle => loop.q \notin {q}
    BY <1>3 DEF Pause, Hasty
  <2>2. shown' \in [Questions -> Nat] /\ shown' = shown
    BY <1>0, <1>3 DEF Pause, RestOK
  <2> QED
    BY <1>3, <2>1, <2>2, PutInHand DEF Pause
<1>4. ASSUME NEW q \in Questions, WriteTheory(q) PROVE InHand'
  <2>1. \A r \in Questions \ {q} : shown'[r] = shown[r]
    BY <1>0, <1>4, ChangeShows DEF WriteTheory
  <2>2. UNCHANGED <<stored, queue, before, loop>> /\ typing' = typing \union {q}
    BY <1>4 DEF WriteTheory
  <2>3. Queued' = Queued /\ Queued \subseteq Questions
    BY <2>2 DEF Queued
  <2>4. \A r \in Questions : IsHead(r)' <=> IsHead(r)
    BY <2>2, <2>3 DEF IsHead
  <2>5. loop # Idle => loop.q \in Questions
    BY <1>0 DEF QueueOK, Posted
  <2> QED
    BY <2>1, <2>2, <2>3, <2>4, <2>5 DEF InHand, Kept, IsHead
<1>5. CASE Arrive
  <2>1. /\ loop # Idle /\ loop.reply = "none" /\ loop.q \in Questions /\ loop.v \in Nat
        /\ UNCHANGED <<shown, typing, queue, before>>
        /\ loop' # Idle /\ loop'.q = loop.q /\ loop'.v = loop.v
        /\ loop'.reply = IF server = "open" THEN "saved" ELSE "closed"
    BY <1>0, <1>5 DEF Arrive, QueueOK, Posted, Idle
  <2>2. stored' = IF server = "open" THEN [stored EXCEPT ![loop.q] = loop.v] ELSE stored
    BY <1>5 DEF Arrive, Save
  <2>3. IsHead(loop.q) /\ queue[loop.q] = loop.v
    BY <2>1 DEF InHand
  <2>4. IsHead(loop.q)'
    BY <2>1, <2>3 DEF IsHead, Queued
  <2>5. loop.v = shown[loop.q] \/ loop.q \in typing
    BY <2>3 DEF InHand, IsHead
  <2>6. \A q \in Questions : stored'[q] = stored[q] \/ (q = loop.q /\ stored'[q] = loop.v)
    BY <1>0, <2>2 DEF RestOK
  <2>7. loop'.reply = "saved" => stored'[loop'.q] = loop'.v
    BY <1>0, <2>1, <2>2 DEF RestOK
  <2>8. \A q \in Questions : Kept(q)'
    BY <2>1, <2>5, <2>6 DEF InHand, Kept
  <2> QED
    BY <2>1, <2>3, <2>4, <2>7, <2>8 DEF InHand, Queued
<1>6. CASE ArriveLate
  BY <1>0, <1>6 DEF ArriveLate
<1>7. CASE Saved
  <2>1. PICK h \in Questions :
           /\ IsHead(h)
           /\ queue' = [queue EXCEPT ![h] = NotQueued]
           /\ queue' \in [Questions -> Nat \union {NotQueued}]
           /\ Queued' = Queued \ {h}
    BY <1>7, ShiftKeeps DEF Saved, Typed
  <2>2. UNCHANGED <<stored, shown, typing>> /\ PostNext
    BY <1>7 DEF Saved
  <2>3. /\ loop # Idle /\ loop.q \in Questions /\ IsHead(loop.q)
        /\ queue[loop.q] = loop.v /\ stored[loop.q] = loop.v
    BY <1>0, <1>7 DEF Saved, InHand, QueueOK, Posted
  <2>4. h = loop.q
    BY <1>0, <2>1, <2>3, OneHead DEF QueueOK
  <2>5. stored[h] = shown[h] \/ h \in typing
    BY <2>3, <2>4 DEF InHand, IsHead
  <2>6. \A q \in Questions : q # h => queue'[q] = queue[q]
    BY <1>0, <2>1 DEF QueueOK
  <2>7. \A q \in Questions : Kept(q)'
    BY <2>2, <2>5, <2>6 DEF InHand, Kept
  <2>8. \A q \in Queued' : queue'[q] = shown'[q] \/ q \in typing'
    BY <2>1, <2>2, <2>6 DEF InHand, Queued
  <2>9. loop' # Idle => Posting
    BY <2>1, <2>2, PostNextPosts
  <2> QED
    BY <2>7, <2>8, <2>9 DEF InHand, Posting, IsHead
<1>8. CASE Refused \/ Reload \/ SubmitRejected
  BY <1>8 DEF Refused, Reload, GiveUp, SubmitRejected
<1>9. CASE Fail
  BY <1>1, <1>9 DEF Fail
<1>10. CASE Retry \/ Online
  <2>1. UNCHANGED <<stored, shown, typing, queue, before>> /\ Flush
    BY <1>10 DEF Retry, Online
  <2>2. CASE loop # Idle
    BY <1>1, <2>1, <2>2 DEF Flush
  <2>3. CASE loop = Idle
    <3>1. loop' # Idle => Posting
      BY <1>0, <2>1, <2>3, FlushPosts DEF QueueOK
    <3> QED
      BY <2>1, <3>1 DEF InHand, Kept, Posting, IsHead, Queued
  <2> QED
    BY <2>2, <2>3
<1>11. CASE SubmitPaper
  <2>1. /\ Put(typing, shown) /\ Flush /\ UNCHANGED <<stored, shown>> /\ typing' = {}
        /\ loop # Idle => loop.q \notin typing
    BY <1>11 DEF SubmitPaper, DoSubmit, Hasty
  <2>2. typing \in SUBSET Questions
    BY <1>0, TheoryAssumption DEF RestOK
  <2> QED
    BY <1>0, <2>1, <2>2, PutInHand DEF RestOK
<1>12. CASE CountdownSubmit
  <2>1. typing = {}
    BY <1>12 DEF CountdownSubmit
  <2>2. PICK none : /\ Put({}, none) /\ Flush /\ UNCHANGED <<stored, shown>>
    BY <1>12, <2>1 DEF CountdownSubmit, DoSubmit
  <2> QED
    BY <1>0, <2>1, <2>2, PutInHand DEF RestOK
<1>13. CASE Submitted \/ SubmitFails \/ ServerMoves \/ UNCHANGED vars
  BY <1>1, <1>13 DEF Submitted, SubmitFails, ServerMoves, room, vars
<1> QED
  BY <1>2, <1>3, <1>4, <1>5, <1>6, <1>7, <1>8, <1>9, <1>10, <1>11, <1>12, <1>13
  DEF Next, Reply

LEMMA AtEndStep ==
  ASSUME Typed, Forward, [Next]_vars, mishaps = {}, mishaps' = {}, InHand, AtEnd
  PROVE  AtEnd'
<1>0. /\ QueueOK /\ RestOK
      /\ loop # Idle => Queued # {}
      /\ draining \in BOOLEAN /\ posts \in Nat
      /\ page \in {"open", "submitting", "left"}
  BY TypeMeans DEF Typed, InHand, IsHead, RestOK
<1>1. ASSUME UNCHANGED <<server, typing, queue, draining, posts, page>>, loop # Idle => loop' # Idle
      PROVE  AtEnd'
  BY <1>1 DEF AtEnd, Queued
<1>2. ASSUME draining' = FALSE, posts' = 0, page' # "left" PROVE AtEnd'
  BY <1>2 DEF AtEnd
<1>3. ASSUME NEW q \in Questions, Choose(q) \/ WriteTheory(q) PROVE AtEnd'
  <2>1. page # "left" /\ draining = FALSE /\ posts = 0
    BY <1>0, <1>3 DEF Choose, WriteTheory, Change, Belated
  <2> QED
    BY <1>2, <1>3, <2>1 DEF Choose, WriteTheory
<1>4. ASSUME NEW q \in Questions, Pause(q) PROVE AtEnd'
  BY <1>0, <1>2, <1>4 DEF Pause, AtEnd
<1>5. CASE Arrive
  BY <1>0, <1>1, <1>5 DEF Arrive, QueueOK, Posted, Idle
<1>6. CASE ArriveLate \/ UNCHANGED vars
  BY <1>1, <1>6 DEF ArriveLate, room, vars
<1>7. CASE Saved
  <2>1. /\ queue' \in [Questions -> Nat \union {NotQueued}]
        /\ PostNext /\ page # "left" /\ page' = page /\ typing' = typing
        /\ IF Queued' = {} THEN Drained ELSE UNCHANGED <<draining, posts>>
    BY <1>7, ShiftKeeps DEF Saved, Typed
  <2>2. posts = 0
    BY <1>0, <1>7 DEF Saved, AtEnd
  <2>3. CASE Queued' = {}
    BY <2>1, <2>2, <2>3 DEF AtEnd, Drained
  <2>4. CASE Queued' # {}
    <3>1. loop' # Idle
      BY <2>1, <2>4, PostNextPosts DEF Posting
    <3> QED
      BY <2>1, <2>2, <2>4, <3>1 DEF AtEnd
  <2> QED
    BY <2>3, <2>4
<1>8. CASE Refused \/ Reload \/ SubmitRejected
  BY <1>8 DEF Refused, Reload, GiveUp, SubmitRejected
<1>9. CASE Fail
  <2>1. ~draining
    BY <1>9 DEF Fail, GiveUp
  <2>2. UNCHANGED <<server, typing, queue, draining, posts, page>>
    BY <1>0, <1>9, <2>1 DEF Fail, Drained
  <2> QED
    BY <2>1, <2>2 DEF AtEnd, Queued
<1>10. CASE Retry \/ Online
  <2>1. UNCHANGED <<server, typing, queue, draining, posts, page>> /\ Flush
    BY <1>10 DEF Retry, Online
  <2> QED
    BY <1>1, <2>1 DEF Flush
<1>11. ASSUME NEW text, DoSubmit(text), \A q \in typing : text[q] \in Nat, loop = Idle,
              posts > 0 => typing = {}
       PROVE  AtEnd'
  <2>1. /\ Put(typing, text) /\ Flush
        /\ typing' = {} /\ page' = "submitting"
        /\ IF Queued' # {} THEN draining' = TRUE /\ posts' = posts
           ELSE draining' = draining /\ posts' = posts + 1
    BY <1>11 DEF DoSubmit
  <2>2. typing \in SUBSET Questions
    BY <1>0, TheoryAssumption DEF RestOK
  <2>3. queue' \in [Questions -> Nat \union {NotQueued}] /\ Queued' = Queued \union typing
    BY <1>11, <2>1, <2>2, PutKeeps DEF Typed
  <2>4. Queued' # {} => loop' # Idle
    BY <1>0, <1>11, <2>1, <2>3, FlushPosts DEF QueueOK, Posting
  <2>5. draining = FALSE
    BY <1>0, <1>11 DEF AtEnd
  <2>6. CASE Queued' # {}
    <3>1. posts = 0
      BY <1>0, <1>11, <2>3, <2>6 DEF AtEnd
    <3> QED
      BY <2>1, <2>4, <2>6, <3>1 DEF AtEnd
  <2>7. CASE Queued' = {}
    BY <2>1, <2>5, <2>7 DEF AtEnd
  <2> QED
    BY <2>6, <2>7
<1>12. CASE SubmitPaper
  <2>1. \A q \in typing : shown[q] \in Nat
    BY <1>0, TheoryAssumption DEF RestOK
  <2>2. DoSubmit(shown) /\ loop = Idle /\ (posts > 0 => typing = {})
    BY <1>12 DEF SubmitPaper, Overtaken, AtEnd
  <2> QED
    BY <1>11, <2>1, <2>2
<1>13. CASE CountdownSubmit
  <2>1. typing = {} /\ loop = Idle
    BY <1>13 DEF CountdownSubmit, Overtaken
  <2>2. PICK none : DoSubmit(none)
    BY <1>13 DEF CountdownSubmit
  <2> QED
    BY <1>11, <2>1, <2>2
<1>14. CASE Submitted
  BY <1>14 DEF Submitted, AtEnd, Queued
<1>15. CASE SubmitFails
  BY <1>0, <1>15 DEF SubmitFails, AtEnd, Queued
<1>16. CASE ServerMoves
  BY <1>16 DEF ServerMoves, room, AtEnd, Queued
<1> QED
  BY <1>3, <1>4, <1>5, <1>6, <1>7, <1>8, <1>9, <1>10, <1>12, <1>13, <1>14, <1>15, <1>16
  DEF Next, Reply

LEMMA UndisturbedHolds == Spec => []Undisturbed
<1>1. Init => Undisturbed
  BY DEF Init, Undisturbed, InHand, AtEnd, Kept, Queued
<1>2. Typed /\ Forward /\ Undisturbed /\ [Next]_vars => Undisturbed'
  BY MishapsStay, InHandStep, AtEndStep DEF Undisturbed
<1> QED
  BY <1>1, <1>2, TypedHolds, ForwardHolds, PTL DEF Spec

\* Without a mishap, what is shown is stored or still on its way.
THEOREM ShownKept == Spec => []UndisturbedIsKept
<1>1. Undisturbed => UndisturbedIsKept
  BY DEF Undisturbed, InHand, UndisturbedIsKept
<1> QED
  BY <1>1, UndisturbedHolds, PTL

\* Without a mishap, the paper is closed on what is shown.
THEOREM ShownSubmitted == Spec => []UndisturbedIsSubmitted
<1>1. Typed /\ Undisturbed => UndisturbedIsSubmitted
  <2> SUFFICES ASSUME Typed, Undisturbed, page = "left", mishaps = {}
               PROVE  server = "closed" /\ stored = shown
    BY DEF UndisturbedIsSubmitted
  <2>1. RestOK
    BY TypeMeans DEF Typed
  <2>2. server = "closed" /\ Queued = {} /\ typing = {}
    BY DEF Undisturbed, AtEnd
  <2>3. \A q \in Questions : stored[q] = shown[q]
    <3> TAKE q \in Questions
    <3>1. Kept(q)
      BY DEF Undisturbed, InHand
    <3>2. queue[q] = NotQueued /\ shown[q] \in Nat
      BY <2>1, <2>2 DEF Queued, RestOK
    <3> QED
      BY <2>2, <3>1, <3>2 DEF Kept, NotQueued
  <2> QED
    BY <2>1, <2>2, <2>3 DEF RestOK
<1> QED
  BY <1>1, TypedHolds, UndisturbedHolds, PTL

-----------------------------------------------------------------------------
(***************************************************************************)
(* The timetable, for any number of officers, papers, staff and days.      *)
(* What an officer's transaction has read holds when it writes, unless     *)
(* another has written behind it.                                          *)
(***************************************************************************)
\* What a proposal promises when it is written: nobody gets a paper of his own, nor two of
\* the roster at once.
PlanKeepsRules(s, plan) ==
    /\ plan \in [Gaps(s) -> Staff \union {Nobody}]
    /\ \A p \in Gaps(s) : plan[p] # Nobody =>
        /\ <<plan[p], p>> \notin teaches
        /\ \A q \in Booked(s, plan, p, plan[p]) : ~Overlap(p, q)

\* What a transaction has read, as long as nobody has written behind it.
TimetableReadHolds(d) ==
    /\ d.what = "move" => d.forced \/ ~Clashes(d.paper, d.at, d.length)
    /\ d.what = "assign" => /\ <<d.to, d.paper>> \notin teaches
                            /\ d.forced \/ ~Watches(d.to, d.paper)
    /\ d.what = "propose" => \E s \in Series : PlanKeepsRules(s, d.plan)

WholeSeriesPublished ==
    \A p \in published, q \in Papers : SeriesOf[q] = SeriesOf[p] => q \in published

\* Papers that one layout placed are where it placed them.
LaidOut ==
    /\ \A p \in Papers : layout[p] <= layouts
    /\ \A p, q \in Papers : layout[p] = layout[q] /\ layout[p] # 0 =>
        /\ SeriesOf[p] = SeriesOf[q]
        /\ \E first \in Nat, slots \in 1..2 :
            at[p] = SlotOf(p, first, slots) /\ at[q] = SlotOf(q, first, slots)

TimetableInv ==
    /\ TimetableTypeOK
    /\ \A o \in Officers \ stale : TimetableReadHolds(doing[o])
    /\ WholeSeriesPublished
    /\ LaidOut
    /\ DriftHasACause
    /\ ClassesSitOnePaper

-----------------------------------------------------------------------------
(***************************************************************************)
(* The slots of a layout.                                                  *)
(***************************************************************************)
LEMMA BeforeIsFinite ==
  ASSUME NEW p \in Papers
  PROVE  IsFiniteSet(Before(p)) /\ Cardinality(Before(p)) \in Nat
<1>1. p \in Nat /\ Before(p) \subseteq 0..p
  <2>1. p \in Nat /\ Papers \subseteq Nat
    BY TimetableAssumption
  <2>2. ASSUME NEW x \in Before(p) PROVE x \in 0..p
    <3>1. x \in Papers /\ x < p
      BY DEF Before
    <3> QED
      BY <2>1, <3>1
  <2> QED
    BY <2>1, <2>2
<1>2. IsFiniteSet(0..p)
  BY <1>1, FS_Interval
<1> QED
  BY <1>1, <1>2, FS_Subset, FS_CardinalityType

\* Of two papers of a level the second has the higher place.
LEMMA LaterPlace ==
  ASSUME NEW p \in Papers, NEW q \in Papers,
         SeriesOf[p] = SeriesOf[q], LevelOf[p] = LevelOf[q], p < q
  PROVE  Cardinality(Before(p)) < Cardinality(Before(q))
<1>1. Before(p) \subseteq Before(q) /\ p \in Before(q) /\ p \notin Before(p)
  <2>1. p \in Nat /\ q \in Nat /\ Papers \subseteq Nat
    BY TimetableAssumption
  <2>2. ASSUME NEW x \in Before(p) PROVE x \in Before(q)
    <3>1. x \in Papers /\ SeriesOf[x] = SeriesOf[p] /\ LevelOf[x] = LevelOf[p] /\ x < p
      BY DEF Before
    <3>2. x < q
      BY <2>1, <3>1
    <3> QED
      BY <3>1, <3>2 DEF Before
  <2>3. p \in Before(q)
    BY DEF Before
  <2>4. p \notin Before(p)
    BY <2>1 DEF Before
  <2> QED
    BY <2>2, <2>3, <2>4
<1>2. IsFiniteSet(Before(p)) /\ IsFiniteSet(Before(q))
        /\ Cardinality(Before(p)) \in Nat /\ Cardinality(Before(q)) \in Nat
  BY BeforeIsFinite
<1>3. Cardinality(Before(p)) <= Cardinality(Before(q))
  BY <1>1, <1>2, FS_Subset
<1>4. Cardinality(Before(p)) # Cardinality(Before(q))
  <2>1. Before(p) # Before(q)
    BY <1>1
  <2> QED
    BY <1>1, <1>2, <2>1, FS_Subset
<1> QED
  BY <1>2, <1>3, <1>4

LEMMA DaysApart ==
  ASSUME NEW a \in Nat, NEW b \in Nat, a < b, NEW n \in Nat
  PROVE  a * n \in Nat /\ b * n \in Nat /\ a * n + n <= b * n
<1> DEFINE k == b - a - 1
<1>1. k \in Nat /\ b = a + 1 + k
  OBVIOUS
<1>2. k * n \in Nat /\ a * n \in Nat /\ b * n \in Nat
  BY <1>1
<1>3. b * n = a * n + n + k * n
  BY <1>1
<1> HIDE DEF k
<1> QED
  BY <1>2, <1>3

\* With one or two slots a day, the paper with the higher place comes at least as much later
\* as the afternoon is after the morning.
LEMMA SlotsApart ==
  ASSUME NEW p \in Papers, NEW q \in Papers, NEW first \in Nat, NEW slots \in 1..2,
         Cardinality(Before(p)) < Cardinality(Before(q))
  PROVE  /\ SlotOf(p, first, slots) \in Nat /\ SlotOf(q, first, slots) \in Nat
         /\ SlotOf(p, first, slots) + (Afternoon - Morning) <= SlotOf(q, first, slots)
<1> DEFINE i == Cardinality(Before(p))
           j == Cardinality(Before(q))
           pDay == first + i \div slots
           qDay == first + j \div slots
           pTime == IF i % slots = 0 THEN Morning ELSE Afternoon
           qTime == IF j % slots = 0 THEN Morning ELSE Afternoon
<1>1. i \in Nat /\ j \in Nat /\ i < j
  BY BeforeIsFinite
<1>2. SlotOf(p, first, slots) = pDay * Day + pTime /\ SlotOf(q, first, slots) = qDay * Day + qTime
  BY DEF SlotOf
<1>3. Day \in Nat /\ Morning \in Nat /\ Afternoon \in Nat /\ Morning < Afternoon /\ Afternoon < Day
        /\ 2 * Afternoon <= Day + 2 * Morning
  BY TimetableAssumption
<1>4. pTime \in {Morning, Afternoon} /\ qTime \in {Morning, Afternoon}
  OBVIOUS
<1>5. /\ pDay \in Nat /\ qDay \in Nat
      /\ pDay < qDay \/ (pDay = qDay /\ pTime = Morning /\ qTime = Afternoon)
  <2> HIDE DEF i, j
  <2>1. CASE slots = 1
    BY <2>1, <1>1
  <2>2. CASE slots = 2
    BY <2>2, <1>1
  <2> QED
    BY <2>1, <2>2
<1> HIDE DEF i, j, pDay, qDay, pTime, qTime
<1>6. pDay * Day \in Nat /\ qDay * Day \in Nat
  BY <1>3, <1>5
<1>7. CASE pDay < qDay
  <2>1. pDay * Day + Day <= qDay * Day
    BY <1>3, <1>5, <1>7, DaysApart
  <2> QED
    BY <1>2, <1>3, <1>4, <1>6, <2>1
<1>8. CASE pDay = qDay /\ pTime = Morning /\ qTime = Afternoon
  BY <1>2, <1>3, <1>6, <1>8
<1> QED
  BY <1>5, <1>7, <1>8

LEMMA SlotIsNatural ==
  ASSUME NEW p \in Papers, NEW first \in Nat, NEW slots \in Nat \ {0}
  PROVE  SlotOf(p, first, slots) \in Nat
<1> DEFINE i == Cardinality(Before(p))
           day == first + i \div slots
<1>1. i \in Nat
  BY BeforeIsFinite
<1> HIDE DEF i
<1>2. day \in Nat
  BY <1>1
<1>3. Day \in Nat /\ Morning \in Nat /\ Afternoon \in Nat
  BY TimetableAssumption
<1> HIDE DEF day
<1>4. day * Day \in Nat
  BY <1>2, <1>3
<1>5. SlotOf(p, first, slots) = day * Day + (IF i % slots = 0 THEN Morning ELSE Afternoon)
  BY DEF SlotOf, i, day
<1> QED
  BY <1>3, <1>4, <1>5

\* So papers that are no longer than that are not sat at once.
LayoutsApart ==
    \A p, q \in Papers :
        p # q /\ LevelOf[p] = LevelOf[q] /\ layout[p] = layout[q] /\ layout[p] # 0
            /\ {length[p], length[q]} \subseteq 1 .. Afternoon - Morning =>
        ~SatAtOnce(p, q)

LEMMA LaidOutApart == TimetableTypeOK /\ LaidOut => LayoutsApart
<1> SUFFICES ASSUME TimetableTypeOK, LaidOut PROVE LayoutsApart
  OBVIOUS
<1>1. ASSUME NEW p \in Papers, NEW q \in Papers, p < q, LevelOf[p] = LevelOf[q],
             layout[p] = layout[q], layout[p] # 0, length[p] \in 1 .. Afternoon - Morning
      PROVE  at[p] + length[p] <= at[q]
  <2>1. SeriesOf[p] = SeriesOf[q]
    BY <1>1 DEF LaidOut
  <2>2. PICK first \in Nat, slots \in 1..2 :
            at[p] = SlotOf(p, first, slots) /\ at[q] = SlotOf(q, first, slots)
    BY <1>1 DEF LaidOut
  <2>3. at[p] + (Afternoon - Morning) <= at[q]
    BY <1>1, <2>1, <2>2, LaterPlace, SlotsApart
  <2> QED
    BY <1>1, <2>3, TimetableAssumption DEF TimetableTypeOK
<1> SUFFICES ASSUME NEW p \in Papers, NEW q \in Papers, p # q, LevelOf[p] = LevelOf[q],
                    layout[p] = layout[q], layout[p] # 0,
                    {length[p], length[q]} \subseteq 1 .. Afternoon - Morning
             PROVE  ~SatAtOnce(p, q)
  BY DEF LayoutsApart
<1>2. at[p] \in Nat /\ at[q] \in Nat /\ length[p] \in Nat /\ length[q] \in Nat
  BY DEF TimetableTypeOK
<1>3. p < q \/ q < p
  BY TimetableAssumption
<1>4. at[p] + length[p] <= at[q] \/ at[q] + length[q] <= at[p]
  BY <1>1, <1>3
<1> QED
  BY <1>2, <1>4 DEF SatAtOnce

-----------------------------------------------------------------------------
(***************************************************************************)
(* What an officer's transaction has read.                                 *)
(***************************************************************************)
LEMMA TimetableTxnTypes ==
  ASSUME TimetableTypeOK, NEW o \in Officers
  PROVE  /\ doing[o].what = "move" => doing[o] \in Moves
         /\ doing[o].what = "assign" => doing[o] \in Assigns
         /\ doing[o].what = "propose" => doing[o] \in Proposes
BY DEF TimetableTypeOK, NothingRead, Moves, Assigns, Proposes

LEMMA NothingReadHolds == TimetableReadHolds(NothingRead)
BY DEF TimetableReadHolds, NothingRead

\* A reading stays true while nothing it was taken from changes.
LEMMA SameReads ==
  ASSUME UNCHANGED <<at, ends, watch, published, teaches>>, NEW o \in Officers,
         TimetableReadHolds(doing'[o])
  PROVE  TimetableReadHolds(doing[o])'
<1> DEFINE d == doing'[o]
<1>1. d.what = "move" => d.forced \/ ~Clashes(doing[o].paper, doing[o].at, doing[o].length)'
  BY DEF TimetableReadHolds, Clashes, Windowed
<1>2. d.what = "assign" => /\ <<d.to, d.paper>> \notin teaches'
                           /\ d.forced \/ ~Watches(doing[o].to, doing[o].paper)'
  BY DEF TimetableReadHolds, Watches, Overlap, Windowed
<1>3. ASSUME NEW s \in Series, PlanKeepsRules(s, d.plan) PROVE PlanKeepsRules(s, doing[o].plan)'
  <2>1. Gaps(s)' = Gaps(s) /\ Rostered(s)' = Rostered(s)
    BY DEF Gaps, Rostered, Windowed
  <2> QED
    BY <1>3, <2>1 DEF PlanKeepsRules, Booked, Earlier, Overlap, Windowed
<1> QED
  BY <1>1, <1>2, <1>3 DEF TimetableReadHolds

\* Nothing is written when a transaction begins.
LEMMA BeginKeepsTimetable ==
  ASSUME TimetableInv, NEW o \in Officers, NEW d \in Moves \union Assigns \union Proposes,
         Begin(o, d), TimetableReadHolds(d),
         UNCHANGED <<at, ends, length, watch, published, sitting, teaches, active, layouts,
                     timetableHistory>>
  PROVE  TimetableInv'
<1>1. UNCHANGED <<timed, layout, duty, learned, stale>>
  BY DEF timetableHistory
<1>2. TimetableTypeOK'
  BY <1>1, BoundAssumption DEF Begin, TimetableInv, TimetableTypeOK
<1>3. \A u \in Officers : doing'[u] = doing[u] \/ doing'[u] = d
  BY DEF Begin, TimetableInv, TimetableTypeOK
<1>4. ASSUME NEW u \in Officers \ stale' PROVE TimetableReadHolds(doing[u])'
  <2>1. TimetableReadHolds(doing'[u])
    BY <1>1, <1>3 DEF TimetableInv
  <2> QED
    BY <2>1, <1>1, SameReads
<1>5. WholeSeriesPublished' /\ LaidOut'
  BY <1>1 DEF TimetableInv, WholeSeriesPublished, LaidOut, SlotOf, Before
<1>6. DriftHasACause' /\ ClassesSitOnePaper'
  BY <1>1 DEF TimetableInv, DriftHasACause, ClassesSitOnePaper, Overlap, Windowed, SatAtOnce
<1> QED
  BY <1>2, <1>4, <1>5, <1>6 DEF TimetableInv

\* After a write nobody's reads are to be trusted: whoever has read is stale.
LEMMA WritesOvertake ==
  ASSUME TimetableTypeOK, NEW O, Writes(O),
         \A u \in Officers : doing'[u] = IF u \in O THEN NothingRead ELSE doing[u]
  PROVE  /\ stale' \subseteq Officers
         /\ \A u \in Officers \ stale' : TimetableReadHolds(doing[u])'
<1>1. ASSUME NEW u \in Officers \ stale' PROVE doing'[u] = NothingRead
  BY DEF Writes, Pending
<1>2. ASSUME NEW u \in Officers \ stale' PROVE TimetableReadHolds(doing[u])'
  BY <1>1 DEF TimetableReadHolds, NothingRead
<1> QED
  BY <1>2 DEF Writes

LEMMA MoveReadKeepsTimetable ==
  ASSUME TimetableInv, NEW o \in Officers, NEW p \in Papers, NEW force \in BOOLEAN,
         NEW t \in Times \union ({at[p]} \ {0}), NEW n \in Lengths, MoveRead(o, p, t, n, force)
  PROVE  TimetableInv'
<1> DEFINE met == Clashes(p, t, n)
           d == [what |-> "move", paper |-> p, at |-> t, length |-> n, forced |-> met]
<1>1. met \in BOOLEAN
  BY DEF Clashes
<1>2. d \in Moves
  <2>1. t \in Nat /\ n \in Nat
    BY TimetableAssumption DEF TimetableInv, TimetableTypeOK
  <2> HIDE DEF met
  <2> QED
    BY <1>1, <2>1 DEF Moves
<1>3. TimetableReadHolds(d)
  BY DEF TimetableReadHolds
<1> QED
  BY <1>2, <1>3, BeginKeepsTimetable DEF MoveRead

LEMMA AssignReadKeepsTimetable ==
  ASSUME TimetableInv, NEW o \in Officers, NEW p \in Papers, NEW force \in BOOLEAN,
         NEW to \in Staff, AssignRead(o, p, to, force)
  PROVE  TimetableInv'
<1> DEFINE met == Watches(to, p)
           d == [what |-> "assign", paper |-> p, to |-> to, forced |-> met]
<1>1. met \in BOOLEAN
  BY DEF Watches
<1>2. d \in Assigns
  <2> HIDE DEF met
  <2> QED
    BY <1>1 DEF Assigns
<1>3. TimetableReadHolds(d)
  BY DEF TimetableReadHolds, AssignRead
<1> QED
  BY <1>2, <1>3, BeginKeepsTimetable DEF AssignRead

\* A greedy plan gives nobody a paper of his own or two at once.
LEMMA ProposeReadKeepsTimetable ==
  ASSUME TimetableInv, NEW o \in Officers, NEW s \in Series, ProposeRead(o, s)
  PROVE  TimetableInv'
<1>1. PICK plan \in [Gaps(s) -> Teachers \union {Nobody}] :
        IsPlan(s, plan) /\ Begin(o, [what |-> "propose", plan |-> plan])
  BY DEF ProposeRead
<1> DEFINE d == [what |-> "propose", plan |-> plan]
<1>2. Gaps(s) \subseteq Papers
  BY DEF Gaps, Rostered, TimetableInv, TimetableTypeOK
<1>3. plan \in [Gaps(s) -> Staff \union {Nobody}]
  BY <1>1, TimetableAssumption
<1>4. d \in Proposes
  BY <1>2, <1>3 DEF Proposes
<1>5. PlanKeepsRules(s, plan)
  BY <1>1, <1>3 DEF PlanKeepsRules, IsPlan, Free
<1>6. TimetableReadHolds(d)
  BY <1>5 DEF TimetableReadHolds
<1> QED
  BY <1>1, <1>4, <1>6, BeginKeepsTimetable DEF ProposeRead

-----------------------------------------------------------------------------
(***************************************************************************)
(* Times: a move, and a layout.                                            *)
(***************************************************************************)
\* Nobody's duty changes with the times but that of whoever watches a paper that moves.
LEMMA MoveWriteKeepsTimetable ==
  ASSUME TimetableInv, NEW o \in Officers, MoveWrite(o)
  PROVE  TimetableInv'
<1>1. TimetableTypeOK
  BY DEF TimetableInv
<1>2. PICK d \in Moves : doing[o] = d
  BY <1>1, TimetableTxnTypes DEF MoveWrite
<1> DEFINE p == d.paper
<1>0. /\ d.what = "move" /\ doing' = [doing EXCEPT ![o] = NothingRead]
      /\ at' = [at EXCEPT ![p] = d.at] /\ ends' = [ends EXCEPT ![p] = d.at + d.length]
      /\ length' = [length EXCEPT ![p] = d.length] /\ timed' = [timed EXCEPT ![p] = Checked(o)]
      /\ layout' = [layout EXCEPT ![p] = 0] /\ duty' = [duty EXCEPT ![p] = Retimed(p)]
      /\ Writes({o})
      /\ UNCHANGED <<watch, published, sitting, teaches, active, started, layouts, learned>>
  BY <1>2 DEF MoveWrite
<1>3. p \in Papers /\ d.at \in Nat /\ d.length \in Nat /\ d.forced \in BOOLEAN
  BY <1>2 DEF Moves
<1>4. stale' \subseteq Officers /\ \A u \in Officers \ stale' : TimetableReadHolds(doing[u])'
  BY <1>0, <1>1, WritesOvertake DEF TimetableTypeOK
<1>5. Checked(o) \in {"forced", "raced", "checked"}
  BY DEF Checked
<1>6. Retimed(p) \in {"moved", duty[p]}
  BY DEF Retimed
<1> HIDE DEF p
<1>7. TimetableTypeOK'
  <2>1. doing' \in [Officers -> {NothingRead} \union Moves \union Assigns \union Proposes]
    BY <1>0, <1>1 DEF TimetableTypeOK
  <2>2. at' \in [Papers -> Nat] /\ ends' \in [Papers -> Nat] /\ length' \in [Papers -> Nat]
    BY <1>0, <1>1, <1>3 DEF TimetableTypeOK
  <2>3. /\ timed' \in [Papers -> {"never", "checked", "raced", "forced", "laid"}]
        /\ layout' \in [Papers -> 0..MaxLayouts]
        /\ duty' \in [Papers -> {"none", "checked", "raced", "forced", "proposed", "moved"}]
    BY <1>0, <1>1, <1>3, <1>5, <1>6, BoundAssumption DEF TimetableTypeOK
  <2> QED
    BY <2>1, <2>2, <2>3, <1>0, <1>1, <1>4 DEF TimetableTypeOK
<1>8. WholeSeriesPublished'
  BY <1>0 DEF TimetableInv, WholeSeriesPublished
<1>9. /\ at'[p] = d.at /\ ends'[p] = d.at + d.length /\ timed'[p] = Checked(o)
      /\ layout'[p] = 0 /\ duty'[p] = Retimed(p)
      /\ \A q \in Papers \ {p} :
            /\ at'[q] = at[q] /\ ends'[q] = ends[q] /\ length'[q] = length[q]
            /\ timed'[q] = timed[q] /\ layout'[q] = layout[q] /\ duty'[q] = duty[q]
  BY <1>0, <1>1, <1>3 DEF TimetableTypeOK
<1>10. LaidOut'
  <2>1. \A q \in Papers : layout'[q] <= layouts'
    BY <1>0, <1>1, <1>9 DEF TimetableInv, LaidOut, TimetableTypeOK
  <2>2. ASSUME NEW q \in Papers, NEW r \in Papers, layout'[q] = layout'[r], layout'[q] # 0
        PROVE  /\ q # p /\ r # p /\ SeriesOf[q] = SeriesOf[r]
               /\ \E first \in Nat, slots \in 1..2 :
                    at'[q] = SlotOf(q, first, slots) /\ at'[r] = SlotOf(r, first, slots)
    <3>1. q # p /\ r # p
      BY <2>2, <1>9
    <3> QED
      BY <3>1, <2>2, <1>9 DEF TimetableInv, LaidOut
  <2> QED
    BY <2>1, <2>2 DEF LaidOut, SlotOf, Before
<1>11. DriftHasACause'
  <2>1. ASSUME NEW q \in Papers, NEW r \in Papers, q # r, watch'[q] = watch'[r],
               watch'[q] # Nobody, Overlap(q, r)'
        PROVE  \/ {duty'[q], duty'[r]} \cap {"forced", "moved", "raced"} # {}
               \/ "proposed" \in {duty'[q], duty'[r]} /\ SeriesOf[q] # SeriesOf[r]
    <3>1. CASE p \in {q, r}
      <4>1. duty'[p] = "moved"
        BY <3>1, <2>1, <1>0, <1>9 DEF Retimed
      <4> QED
        BY <3>1, <4>1
    <3>2. CASE p \notin {q, r}
      BY <3>2, <2>1, <1>0, <1>9 DEF TimetableInv, DriftHasACause, Overlap, Windowed
    <3> QED
      BY <3>1, <3>2
  <2>2. \A q \in Papers : <<watch'[q], q>> \in teaches' => q \in learned'
    BY <1>0 DEF TimetableInv, DriftHasACause
  <2> QED
    BY <2>1, <2>2 DEF DriftHasACause
<1>12. ClassesSitOnePaper'
  <2>1. \A q, r \in Papers :
            q # r /\ LevelOf[q] = LevelOf[r] /\ layout'[q] = layout'[r] /\ layout'[q] # 0
                /\ {length'[q], length'[r]} \subseteq 1 .. Afternoon - Morning =>
            ~SatAtOnce(q, r)'
    BY <1>9 DEF TimetableInv, ClassesSitOnePaper, SatAtOnce
  <2>2. ASSUME NEW q \in Papers \ {p}, LevelOf[q] = LevelOf[p],
               Overlap(p, q)' \/ Overlap(q, p)'
        PROVE  timed'[p] \in {"forced", "raced"}
    <3>1. CASE o \in stale \/ d.forced
      BY <3>1, <1>2, <1>9 DEF Checked
    <3>2. CASE o \notin stale /\ ~d.forced
      <4>1. ~Clashes(p, d.at, d.length)
        BY <3>2, <1>0, <1>2 DEF TimetableInv, TimetableReadHolds, p
      <4>2. ~(Windowed(q) /\ at[q] < d.at + d.length /\ ends[q] > d.at)
        BY <2>2, <4>1 DEF Clashes
      <4>3. at[q] \in Nat /\ ends[q] \in Nat
        BY <1>1 DEF TimetableTypeOK
      <4>4. at'[p] < ends'[q] /\ at'[q] < ends'[p] /\ at'[q] # 0 /\ ends'[q] # 0
        BY <2>2 DEF Overlap, Windowed
      <4> QED
        BY <4>2, <4>3, <4>4, <1>3, <1>9 DEF Windowed
    <3> QED
      BY <3>1, <3>2
  <2>3. ASSUME NEW q \in Papers, NEW r \in Papers, q # r, LevelOf[q] = LevelOf[r],
               Overlap(q, r)'
        PROVE  {timed'[q], timed'[r]} \cap {"forced", "raced", "laid"} # {}
    <3>1. CASE q = p \/ r = p
      BY <3>1, <2>2, <2>3
    <3>2. CASE q # p /\ r # p
      BY <3>2, <2>3, <1>9 DEF TimetableInv, ClassesSitOnePaper, Overlap, Windowed
    <3> QED
      BY <3>1, <3>2
  <2> QED
    BY <2>1, <2>3 DEF ClassesSitOnePaper
<1> QED
  BY <1>4, <1>7, <1>8, <1>10, <1>11, <1>12 DEF TimetableInv

\* A layout writes over what the transactions of others have read, and says so on every row.
LEMMA ScheduleKeepsTimetable ==
  ASSUME TimetableInv, NEW s \in Series, NEW first \in FirstDays, NEW days \in 1..MaxDays,
         NEW slots \in 1..4, ScheduleSeries(s, first, days, slots)
  PROVE  TimetableInv'
<1> DEFINE P == Placed(s, days, slots)
<1>0. /\ layouts < MaxLayouts /\ layouts' = layouts + 1
      /\ at' = [p \in Papers |-> IF p \in P THEN SlotOf(p, first, slots) ELSE at[p]]
      /\ sitting' = sitting \union {s}
      /\ timed' = [p \in Papers |-> IF p \in P THEN "laid" ELSE timed[p]]
      /\ layout' = [p \in Papers |-> IF p \in P THEN (IF slots <= 2 THEN layouts' ELSE 0)
                                                ELSE layout[p]]
      /\ duty' = [p \in Papers |-> IF p \in P THEN Retimed(p) ELSE duty[p]]
      /\ Writes({})
      /\ UNCHANGED <<ends, length, watch, published, teaches, active, doing, started, learned>>
  BY DEF ScheduleSeries
<1>1. TimetableTypeOK
  BY DEF TimetableInv
<1>2. P \subseteq Papers /\ \A p \in P : SeriesOf[p] = s
  BY DEF Placed
<1>3. stale' \subseteq Officers /\ \A u \in Officers \ stale' : TimetableReadHolds(doing[u])'
  BY <1>0, <1>1, WritesOvertake
<1>4. first \in Nat
  BY TimetableAssumption
<1> HIDE DEF P
<1>5. \A p \in Papers :
        IF p \in P
        THEN /\ at'[p] = SlotOf(p, first, slots) /\ timed'[p] = "laid" /\ duty'[p] = Retimed(p)
             /\ layout'[p] = IF slots <= 2 THEN layouts + 1 ELSE 0
        ELSE at'[p] = at[p] /\ timed'[p] = timed[p] /\ duty'[p] = duty[p] /\ layout'[p] = layout[p]
  BY <1>0
<1>6. TimetableTypeOK'
  <2>1. layouts \in Nat /\ layouts' \in 0..MaxLayouts
    BY <1>0, <1>1, BoundAssumption DEF TimetableTypeOK
  <2>2. layout' \in [Papers -> 0..MaxLayouts]
    BY <2>1, <1>0, <1>1, BoundAssumption DEF TimetableTypeOK
  <2>3. ASSUME NEW p \in Papers PROVE SlotOf(p, first, slots) \in Nat
    BY <1>4, SlotIsNatural
  <2>4. at' \in [Papers -> Nat]
    BY <2>3, <1>0, <1>1 DEF TimetableTypeOK
  <2>5. /\ timed' \in [Papers -> {"never", "checked", "raced", "forced", "laid"}]
        /\ duty' \in [Papers -> {"none", "checked", "raced", "forced", "proposed", "moved"}]
    BY <1>0, <1>1 DEF TimetableTypeOK, Retimed
  <2> QED
    BY <2>1, <2>2, <2>4, <2>5, <1>0, <1>1, <1>3 DEF TimetableTypeOK
<1>7. WholeSeriesPublished'
  BY <1>0 DEF TimetableInv, WholeSeriesPublished
<1>8. LaidOut'
  <2>0. layouts \in Nat /\ layout \in [Papers -> 0..MaxLayouts]
          /\ \A p \in Papers : layout[p] \in Nat /\ layout[p] <= layouts
    BY <1>1, BoundAssumption DEF TimetableInv, LaidOut, TimetableTypeOK
  <2>1. \A p \in Papers : layout'[p] <= layouts'
    BY <2>0, <1>0, <1>5
  <2>2. ASSUME NEW p \in Papers, NEW q \in Papers, layout'[p] = layout'[q], layout'[p] # 0
        PROVE  /\ SeriesOf[p] = SeriesOf[q]
               /\ \E f \in Nat, n \in 1..2 : at'[p] = SlotOf(p, f, n) /\ at'[q] = SlotOf(q, f, n)
    <3>1. CASE p \in P /\ q \in P
      <4>1. slots \in 1..2
        BY <3>1, <2>2, <1>5
      <4> QED
        BY <3>1, <4>1, <1>2, <1>4, <1>5
    <3>2. CASE p \notin P /\ q \notin P
      BY <3>2, <2>2, <1>5 DEF TimetableInv, LaidOut
    <3>3. (p \in P) <=> (q \in P)
      BY <2>0, <2>2, <1>5
    <3> QED
      BY <3>1, <3>2, <3>3
  <2> QED
    BY <2>1, <2>2 DEF LaidOut, SlotOf, Before
<1>9. DriftHasACause'
  <2>1. ASSUME NEW p \in Papers, NEW q \in Papers, p # q, watch'[p] = watch'[q],
               watch'[p] # Nobody, Overlap(p, q)'
        PROVE  \/ {duty'[p], duty'[q]} \cap {"forced", "moved", "raced"} # {}
               \/ "proposed" \in {duty'[p], duty'[q]} /\ SeriesOf[p] # SeriesOf[q]
    <3>1. CASE p \in P \/ q \in P
      <4>1. duty'[p] = "moved" \/ duty'[q] = "moved"
        BY <3>1, <2>1, <1>0, <1>5 DEF Retimed
      <4> QED
        BY <4>1
    <3>2. CASE p \notin P /\ q \notin P
      BY <3>2, <2>1, <1>0, <1>5 DEF TimetableInv, DriftHasACause, Overlap, Windowed
    <3> QED
      BY <3>1, <3>2
  <2>2. \A p \in Papers : <<watch'[p], p>> \in teaches' => p \in learned'
    BY <1>0 DEF TimetableInv, DriftHasACause
  <2> QED
    BY <2>1, <2>2 DEF DriftHasACause
<1>10. ClassesSitOnePaper'
  <2>1. ASSUME NEW p \in Papers, NEW q \in Papers, p # q, LevelOf[p] = LevelOf[q], Overlap(p, q)'
        PROVE  {timed'[p], timed'[q]} \cap {"forced", "raced", "laid"} # {}
    <3>1. CASE p \in P \/ q \in P
      BY <3>1, <1>5
    <3>2. CASE p \notin P /\ q \notin P
      BY <3>2, <2>1, <1>0, <1>5 DEF TimetableInv, ClassesSitOnePaper, Overlap, Windowed
    <3> QED
      BY <3>1, <3>2
  <2>2. LayoutsApart'
    BY <1>6, <1>8, LaidOutApart, PTL
  <2> QED
    BY <2>1, <2>2 DEF ClassesSitOnePaper, LayoutsApart
<1> QED
  BY <1>3, <1>6, <1>7, <1>8, <1>9, <1>10 DEF TimetableInv

-----------------------------------------------------------------------------
(***************************************************************************)
(* Who watches.                                                            *)
(***************************************************************************)
\* Whatever changes who watches or who teaches: times stay, and so does what is about them.
LEMMA TimesUntouched ==
  ASSUME TimetableInv,
         UNCHANGED <<at, ends, length, published, layouts, timed, layout>>
  PROVE  WholeSeriesPublished' /\ LaidOut' /\ ClassesSitOnePaper'
<1>1. WholeSeriesPublished' /\ LaidOut'
  BY DEF TimetableInv, WholeSeriesPublished, LaidOut, SlotOf, Before
<1>2. ClassesSitOnePaper'
  BY DEF TimetableInv, ClassesSitOnePaper, Overlap, Windowed, SatAtOnce
<1> QED
  BY <1>1, <1>2

LEMMA OverlapEitherWay ==
  ASSUME TimetableTypeOK, NEW p \in Papers, NEW q \in Papers
  PROVE  Overlap(p, q) <=> Overlap(q, p)
BY DEF Overlap

LEMMA AssignWriteKeepsTimetable ==
  ASSUME TimetableInv, NEW o \in Officers, AssignWrite(o)
  PROVE  TimetableInv'
<1>1. TimetableTypeOK
  BY DEF TimetableInv
<1>2. PICK d \in Assigns : doing[o] = d
  BY <1>1, TimetableTxnTypes DEF AssignWrite
<1> DEFINE p == d.paper
<1>0. /\ d.what = "assign" /\ doing' = [doing EXCEPT ![o] = NothingRead]
      /\ watch' = [watch EXCEPT ![p] = d.to] /\ duty' = [duty EXCEPT ![p] = Checked(o)]
      /\ learned' = IF o \in stale THEN learned \union {p} ELSE learned \ {p}
      /\ Writes({o})
      /\ UNCHANGED <<at, ends, length, published, sitting, teaches, active, started, layouts,
                     timed, layout>>
  BY <1>2 DEF AssignWrite
<1>3. p \in Papers /\ d.to \in Staff /\ d.forced \in BOOLEAN
  BY <1>2 DEF Assigns
<1>4. stale' \subseteq Officers /\ \A u \in Officers \ stale' : TimetableReadHolds(doing[u])'
  BY <1>0, <1>1, WritesOvertake DEF TimetableTypeOK
<1>5. Checked(o) \in {"forced", "raced", "checked"}
  BY DEF Checked
<1>6. o \notin stale => <<d.to, p>> \notin teaches /\ (d.forced \/ ~Watches(d.to, p))
  BY <1>0, <1>2 DEF TimetableInv, TimetableReadHolds
<1> HIDE DEF p
<1>7. TimetableTypeOK'
  <2>1. doing' \in [Officers -> {NothingRead} \union Moves \union Assigns \union Proposes]
    BY <1>0, <1>1 DEF TimetableTypeOK
  <2>2. /\ watch' \in [Papers -> Staff \union {Nobody}] /\ learned' \subseteq Papers
        /\ duty' \in [Papers -> {"none", "checked", "raced", "forced", "proposed", "moved"}]
    BY <1>0, <1>1, <1>3, <1>5 DEF TimetableTypeOK
  <2> QED
    BY <2>1, <2>2, <1>0, <1>1, <1>4 DEF TimetableTypeOK
<1>8. WholeSeriesPublished' /\ LaidOut' /\ ClassesSitOnePaper'
  BY <1>0, TimesUntouched
<1>9. watch'[p] = d.to /\ duty'[p] = Checked(o)
        /\ \A q \in Papers \ {p} : watch'[q] = watch[q] /\ duty'[q] = duty[q]
  BY <1>0, <1>1, <1>3 DEF TimetableTypeOK
<1>10. \A q, r \in Papers : Overlap(q, r)' <=> Overlap(q, r)
  BY <1>0 DEF Overlap, Windowed
<1>11. ASSUME NEW q \in Papers \ {p}, watch[q] = d.to, Overlap(p, q)
       PROVE  duty'[p] \in {"forced", "raced"}
  <2>1. CASE o \in stale \/ d.forced
    BY <2>1, <1>2, <1>9 DEF Checked
  <2>2. CASE o \notin stale /\ ~d.forced
    BY <2>2, <1>6, <1>11 DEF Watches
  <2> QED
    BY <2>1, <2>2
<1>12. DriftHasACause'
  <2>1. ASSUME NEW q \in Papers, NEW r \in Papers, q # r, watch'[q] = watch'[r],
               watch'[q] # Nobody, Overlap(q, r)'
        PROVE  \/ {duty'[q], duty'[r]} \cap {"forced", "moved", "raced"} # {}
               \/ "proposed" \in {duty'[q], duty'[r]} /\ SeriesOf[q] # SeriesOf[r]
    <3>0. Overlap(q, r) /\ Overlap(r, q)
      BY <2>1, <1>1, <1>10, OverlapEitherWay
    <3>1. CASE q = p
      BY <3>0, <3>1, <2>1, <1>9, <1>11
    <3>2. CASE r = p
      BY <3>0, <3>2, <2>1, <1>9, <1>11
    <3>3. CASE q # p /\ r # p
      BY <3>0, <3>3, <2>1, <1>9 DEF TimetableInv, DriftHasACause
    <3> QED
      BY <3>1, <3>2, <3>3
  <2>2. ASSUME NEW q \in Papers, <<watch'[q], q>> \in teaches' PROVE q \in learned'
    <3>1. CASE q = p
      BY <3>1, <2>2, <1>0, <1>6, <1>9
    <3>2. CASE q # p
      BY <3>2, <2>2, <1>0, <1>9 DEF TimetableInv, DriftHasACause
    <3> QED
      BY <3>1, <3>2
  <2> QED
    BY <2>1, <2>2 DEF DriftHasACause
<1> QED
  BY <1>4, <1>7, <1>8, <1>12 DEF TimetableInv

\* A plan that nobody has overtaken gives no paper of the roster to somebody who watches another
\* at the same time; of other examinations it knows nothing.
LEMMA PlanIsFree ==
  ASSUME TimetableInv, NEW s \in Series, NEW plan, PlanKeepsRules(s, plan),
         NEW p \in Gaps(s), plan[p] # Nobody, NEW q \in Papers, q # p, SeriesOf[q] = s,
         watch[q] = plan[p] \/ (q \in Gaps(s) /\ plan[q] = plan[p])
  PROVE  ~Overlap(p, q)
<1> SUFFICES ASSUME Overlap(p, q) PROVE FALSE
  OBVIOUS
<1>1. p \in published /\ p \in Papers /\ SeriesOf[p] = s /\ watch[p] = Nobody
  BY DEF Gaps, Rostered, TimetableInv, TimetableTypeOK
<1>2. Overlap(q, p) /\ Windowed(q)
  BY <1>1, OverlapEitherWay DEF TimetableInv, Overlap
<1>3. q \in Rostered(s)
  BY <1>1, <1>2 DEF TimetableInv, WholeSeriesPublished, Rostered
<1>4. ASSUME NEW r \in Gaps(s), plan[r] # Nobody, NEW x \in Booked(s, plan, r, plan[r])
      PROVE  ~Overlap(r, x)
  BY <1>4 DEF PlanKeepsRules
<1>5. CASE watch[q] = plan[p]
  BY <1>3, <1>4, <1>5 DEF Booked
<1>6. CASE q \in Gaps(s) /\ plan[q] = plan[p]
  <2>1. Earlier(p, q) \/ Earlier(q, p)
    <3>1. at[p] \in Nat /\ at[q] \in Nat
      BY <1>1 DEF TimetableInv, TimetableTypeOK
    <3>2. p \in Nat /\ q \in Nat
      BY <1>1, TimetableAssumption
    <3> QED
      BY <3>1, <3>2 DEF Earlier
  <2>2. CASE Earlier(p, q)
    <3>1. q \in Booked(s, plan, p, plan[p])
      BY <2>2, <1>3, <1>6 DEF Booked
    <3> QED
      BY <3>1, <1>4
  <2>3. CASE Earlier(q, p)
    <3>1. p \in Booked(s, plan, q, plan[q])
      BY <2>3, <1>6 DEF Booked, Gaps
    <3> QED
      BY <3>1, <1>2, <1>4, <1>6
  <2> QED
    BY <2>1, <2>2, <2>3
<1> QED
  BY <1>5, <1>6

LEMMA ProposeWriteKeepsTimetable ==
  ASSUME TimetableInv, NEW o \in Officers, ProposeWrite(o)
  PROVE  TimetableInv'
<1>1. TimetableTypeOK
  BY DEF TimetableInv
<1>2. PICK d \in Proposes : doing[o] = d
  BY <1>1, TimetableTxnTypes DEF ProposeWrite
<1> DEFINE plan == d.plan
           P == {p \in DOMAIN plan : plan[p] # Nobody}
<1>0. /\ d.what = "propose" /\ doing' = [doing EXCEPT ![o] = NothingRead]
      /\ watch' = [p \in Papers |-> IF p \in P THEN plan[p] ELSE watch[p]]
      /\ duty' = [p \in Papers |->
                    IF p \in P THEN (IF o \in stale THEN "raced" ELSE "proposed") ELSE duty[p]]
      /\ learned' = IF o \in stale THEN learned \union P ELSE learned \ P
      /\ Writes({o})
      /\ UNCHANGED <<at, ends, length, published, sitting, teaches, active, started, layouts,
                     timed, layout>>
  BY <1>2 DEF ProposeWrite
<1>3. P \subseteq Papers /\ \A p \in P : plan[p] \in Staff
  <2>1. PICK S \in SUBSET Papers : plan \in [S -> Staff \union {Nobody}]
    BY <1>2 DEF Proposes
  <2> QED
    BY <2>1
<1>4. stale' \subseteq Officers /\ \A u \in Officers \ stale' : TimetableReadHolds(doing[u])'
  BY <1>0, <1>1, WritesOvertake DEF TimetableTypeOK
<1>5. ASSUME o \notin stale PROVE \E s \in Series : PlanKeepsRules(s, plan)
  BY <1>0, <1>2, <1>5 DEF TimetableInv, TimetableReadHolds
<1>6. ASSUME NEW s \in Series, PlanKeepsRules(s, plan)
      PROVE  P \subseteq Gaps(s) /\ \A p \in P : plan[p] # Nobody /\ SeriesOf[p] = s
  BY <1>6 DEF PlanKeepsRules, Gaps, Rostered
<1>7. TimetableTypeOK'
  <2>1. doing' \in [Officers -> {NothingRead} \union Moves \union Assigns \union Proposes]
    BY <1>0, <1>1 DEF TimetableTypeOK
  <2> HIDE DEF P, plan
  <2>2. /\ watch' \in [Papers -> Staff \union {Nobody}] /\ learned' \subseteq Papers
        /\ duty' \in [Papers -> {"none", "checked", "raced", "forced", "proposed", "moved"}]
    BY <1>0, <1>1, <1>3 DEF TimetableTypeOK
  <2> QED
    BY <2>1, <2>2, <1>0, <1>1, <1>4 DEF TimetableTypeOK
<1>8. WholeSeriesPublished' /\ LaidOut' /\ ClassesSitOnePaper'
  BY <1>0, TimesUntouched
<1>9. \A p, q \in Papers : Overlap(p, q)' <=> Overlap(p, q)
  BY <1>0 DEF Overlap, Windowed
<1>10. \A p \in Papers :
            IF p \in P THEN /\ watch'[p] = plan[p]
                            /\ duty'[p] = IF o \in stale THEN "raced" ELSE "proposed"
            ELSE watch'[p] = watch[p] /\ duty'[p] = duty[p]
  BY <1>0
<1>11. \A p \in P, q \in P : p \in DOMAIN plan /\ q \in DOMAIN plan
  OBVIOUS
<1> HIDE DEF P
\* The two papers of a pair stand in either order.
<1>12. ASSUME NEW p \in P, NEW q \in Papers, p # q, watch'[p] = watch'[q], Overlap(p, q)
       PROVE  \/ duty'[p] = "raced"
              \/ duty'[p] = "proposed" /\ SeriesOf[p] # SeriesOf[q]
  <2>1. CASE o \in stale
    BY <2>1, <1>3, <1>10
  <2>2. CASE o \notin stale
    <3>1. PICK s \in Series : PlanKeepsRules(s, plan)
      BY <2>2, <1>5
    <3>2. p \in Gaps(s) /\ plan[p] # Nobody /\ SeriesOf[p] = s /\ P \subseteq Gaps(s)
      BY <3>1, <1>6
    <3>3. watch[q] = plan[p] \/ (q \in Gaps(s) /\ plan[q] = plan[p])
      BY <3>2, <1>3, <1>10, <1>12
    <3>4. SeriesOf[q] # s
      BY <3>1, <3>2, <3>3, <1>12, PlanIsFree
    <3> QED
      BY <3>2, <3>4, <2>2, <1>3, <1>10
  <2> QED
    BY <2>1, <2>2
<1>13. DriftHasACause'
  <2>1. ASSUME NEW p \in Papers, NEW q \in Papers, p # q, watch'[p] = watch'[q],
               watch'[p] # Nobody, Overlap(p, q)'
        PROVE  \/ {duty'[p], duty'[q]} \cap {"forced", "moved", "raced"} # {}
               \/ "proposed" \in {duty'[p], duty'[q]} /\ SeriesOf[p] # SeriesOf[q]
    <3>0. Overlap(p, q) /\ Overlap(q, p)
      BY <2>1, <1>1, <1>9, OverlapEitherWay
    <3>1. CASE p \in P
      BY <3>0, <3>1, <2>1, <1>12
    <3>2. CASE q \in P
      BY <3>0, <3>2, <2>1, <1>12
    <3>3. CASE p \notin P /\ q \notin P
      BY <3>0, <3>3, <2>1, <1>10 DEF TimetableInv, DriftHasACause
    <3> QED
      BY <3>1, <3>2, <3>3
  <2>2. ASSUME NEW p \in Papers, <<watch'[p], p>> \in teaches' PROVE p \in learned'
    <3>1. CASE p \in P /\ o \notin stale
      <4>1. PICK s \in Series : PlanKeepsRules(s, plan)
        BY <3>1, <1>5
      <4>2. <<plan[p], p>> \notin teaches
        BY <3>1, <4>1, <1>6 DEF PlanKeepsRules
      <4> QED
        BY <3>1, <4>2, <2>2, <1>0, <1>10
    <3>2. CASE p \in P /\ o \in stale
      BY <3>2, <1>0
    <3>3. CASE p \notin P
      BY <3>3, <2>2, <1>0, <1>10 DEF TimetableInv, DriftHasACause
    <3> QED
      BY <3>1, <3>2, <3>3
  <2> QED
    BY <2>1, <2>2 DEF DriftHasACause
<1> QED
  BY <1>4, <1>7, <1>8, <1>13 DEF TimetableInv

LEMMA ClearKeepsTimetable ==
  ASSUME TimetableInv, NEW p \in Papers, ClearInvigilator(p)
  PROVE  TimetableInv'
<1>0. /\ watch' = [watch EXCEPT ![p] = Nobody] /\ duty' = [duty EXCEPT ![p] = "none"]
      /\ learned' = learned \ {p} /\ Writes({})
      /\ UNCHANGED <<at, ends, length, published, sitting, teaches, active, doing, started,
                     layouts, timed, layout>>
  BY DEF ClearInvigilator
<1>1. TimetableTypeOK
  BY DEF TimetableInv
<1>2. stale' \subseteq Officers /\ \A u \in Officers \ stale' : TimetableReadHolds(doing[u])'
  BY <1>0, <1>1, WritesOvertake
<1>3. TimetableTypeOK'
  BY <1>0, <1>1, <1>2 DEF TimetableTypeOK
<1>4. WholeSeriesPublished' /\ LaidOut' /\ ClassesSitOnePaper'
  BY <1>0, TimesUntouched
<1>5. watch'[p] = Nobody /\ \A q \in Papers \ {p} : watch'[q] = watch[q] /\ duty'[q] = duty[q]
  BY <1>0, <1>1 DEF TimetableTypeOK
<1>6. DriftHasACause'
  <2>1. ASSUME NEW q \in Papers, NEW r \in Papers, q # r, watch'[q] = watch'[r],
               watch'[q] # Nobody, Overlap(q, r)'
        PROVE  \/ {duty'[q], duty'[r]} \cap {"forced", "moved", "raced"} # {}
               \/ "proposed" \in {duty'[q], duty'[r]} /\ SeriesOf[q] # SeriesOf[r]
    <3>1. q # p /\ r # p
      BY <2>1, <1>5
    <3> QED
      BY <3>1, <2>1, <1>0, <1>5 DEF TimetableInv, DriftHasACause, Overlap, Windowed
  <2>2. ASSUME NEW q \in Papers, <<watch'[q], q>> \in teaches' PROVE q \in learned'
    <3>1. q # p
      <4>1. Nobody \notin Staff /\ teaches' \subseteq Staff \X Papers
        BY <1>0, <1>1, TimetableAssumption DEF TimetableTypeOK
      <4> QED
        BY <4>1, <2>2, <1>5
    <3> QED
      BY <3>1, <2>2, <1>0, <1>5 DEF TimetableInv, DriftHasACause
  <2> QED
    BY <2>1, <2>2 DEF DriftHasACause
<1> QED
  BY <1>2, <1>3, <1>4, <1>6 DEF TimetableInv

-----------------------------------------------------------------------------
(***************************************************************************)
(* The other steps.                                                        *)
(***************************************************************************)
LEMMA PublishKeepsTimetable ==
  ASSUME TimetableInv, NEW s \in Series, PublishSeries(s)
  PROVE  TimetableInv'
<1>0. /\ published' = published \union {p \in Papers : SeriesOf[p] = s} /\ Writes({})
      /\ UNCHANGED <<at, ends, length, watch, sitting, teaches, active, doing, started, layouts,
                     timed, layout, duty, learned>>
  BY DEF PublishSeries
<1>1. TimetableTypeOK
  BY DEF TimetableInv
<1>2. stale' \subseteq Officers /\ \A u \in Officers \ stale' : TimetableReadHolds(doing[u])'
  BY <1>0, <1>1, WritesOvertake
<1>3. TimetableTypeOK'
  BY <1>0, <1>1, <1>2 DEF TimetableTypeOK
<1>4. WholeSeriesPublished'
  BY <1>0 DEF TimetableInv, WholeSeriesPublished
<1>5. LaidOut'
  BY <1>0 DEF TimetableInv, LaidOut, SlotOf, Before
<1>6. DriftHasACause' /\ ClassesSitOnePaper'
  BY <1>0 DEF TimetableInv, DriftHasACause, ClassesSitOnePaper, Overlap, Windowed, SatAtOnce
<1> QED
  BY <1>2, <1>3, <1>4, <1>5, <1>6 DEF TimetableInv

LEMMA FailsKeepsTimetable ==
  ASSUME TimetableInv, NEW o \in Officers, Fails(o)
  PROVE  TimetableInv'
<1>0. /\ doing' = [doing EXCEPT ![o] = NothingRead] /\ stale' = stale \ {o}
      /\ UNCHANGED <<at, ends, length, watch, published, sitting, teaches, active, started,
                     layouts, timed, layout, duty, learned>>
  BY DEF Fails
<1>1. TimetableTypeOK
  BY DEF TimetableInv
<1>2. TimetableTypeOK'
  BY <1>0, <1>1 DEF TimetableTypeOK
<1>3. ASSUME NEW u \in Officers \ stale' PROVE TimetableReadHolds(doing[u])'
  <2>1. CASE u = o
    <3>1. doing'[u] = NothingRead
      BY <2>1, <1>0, <1>1 DEF TimetableTypeOK
    <3> QED
      BY <3>1 DEF TimetableReadHolds, NothingRead
  <2>2. CASE u # o
    <3>1. doing'[u] = doing[u] /\ u \in Officers \ stale
      BY <2>2, <1>0, <1>1 DEF TimetableTypeOK
    <3>2. TimetableReadHolds(doing'[u])
      BY <3>1 DEF TimetableInv
    <3> QED
      BY <3>2, <1>0, SameReads
  <2> QED
    BY <2>1, <2>2
<1>4. WholeSeriesPublished' /\ LaidOut' /\ ClassesSitOnePaper'
  BY <1>0, TimesUntouched
<1>5. DriftHasACause'
  BY <1>0 DEF TimetableInv, DriftHasACause, Overlap, Windowed
<1> QED
  BY <1>2, <1>3, <1>4, <1>5 DEF TimetableInv

LEMMA TeachingKeepsTimetable ==
  ASSUME TimetableInv, NEW t \in Staff, NEW p \in Papers, TeachingChanges(t, p)
  PROVE  TimetableInv'
<1>0. /\ started < MaxStarted /\ started' = started + 1
      /\ teaches' = IF <<t, p>> \in teaches THEN teaches \ {<<t, p>>}
                    ELSE teaches \union {<<t, p>>}
      /\ learned' = IF watch[p] = t THEN learned \union {p} ELSE learned
      /\ Writes({})
      /\ UNCHANGED <<at, ends, length, watch, published, sitting, active, doing, layouts,
                     timed, layout, duty>>
  BY DEF TeachingChanges
<1>1. TimetableTypeOK
  BY DEF TimetableInv
<1>2. stale' \subseteq Officers /\ \A u \in Officers \ stale' : TimetableReadHolds(doing[u])'
  BY <1>0, <1>1, WritesOvertake
<1>3. TimetableTypeOK'
  <2>1. started' \in 0..MaxStarted
    BY <1>0, <1>1, BoundAssumption DEF TimetableTypeOK
  <2> QED
    BY <2>1, <1>0, <1>1, <1>2 DEF TimetableTypeOK
<1>4. WholeSeriesPublished' /\ LaidOut' /\ ClassesSitOnePaper'
  BY <1>0, TimesUntouched
<1>5. DriftHasACause'
  <2>1. ASSUME NEW q \in Papers, <<watch'[q], q>> \in teaches' PROVE q \in learned'
    BY <2>1, <1>0 DEF TimetableInv, DriftHasACause
  <2>2. \A q, r \in Papers : Overlap(q, r)' <=> Overlap(q, r)
    BY <1>0 DEF Overlap, Windowed
  <2> QED
    BY <2>1, <2>2, <1>0 DEF TimetableInv, DriftHasACause
<1> QED
  BY <1>2, <1>3, <1>4, <1>5 DEF TimetableInv

LEMMA ServiceKeepsTimetable ==
  ASSUME TimetableInv, NEW t \in Staff, ServiceChanges(t)
  PROVE  TimetableInv'
<1>0. /\ started < MaxStarted /\ started' = started + 1
      /\ active' = IF t \in active THEN active \ {t} ELSE active \union {t}
      /\ UNCHANGED <<at, ends, length, watch, published, sitting, teaches, doing, layouts,
                     timed, layout, duty, learned, stale>>
  BY DEF ServiceChanges, timetableHistory
<1>1. TimetableTypeOK
  BY DEF TimetableInv
<1>2. TimetableTypeOK'
  <2>1. started' \in 0..MaxStarted
    BY <1>0, <1>1, BoundAssumption DEF TimetableTypeOK
  <2> QED
    BY <2>1, <1>0, <1>1 DEF TimetableTypeOK
<1>3. ASSUME NEW u \in Officers \ stale' PROVE TimetableReadHolds(doing[u])'
  <2>1. TimetableReadHolds(doing'[u])
    BY <1>0 DEF TimetableInv
  <2> QED
    BY <2>1, <1>0, SameReads
<1>4. WholeSeriesPublished' /\ LaidOut' /\ ClassesSitOnePaper'
  BY <1>0, TimesUntouched
<1>5. DriftHasACause'
  BY <1>0 DEF TimetableInv, DriftHasACause, Overlap, Windowed
<1> QED
  BY <1>2, <1>3, <1>4, <1>5 DEF TimetableInv

LEMMA TimetableInvAtStart == TimetableInit => TimetableInv
<1> SUFFICES ASSUME TimetableInit PROVE TimetableInv
  OBVIOUS
<1>0. \A p \in Papers : at[p] = 0 /\ watch[p] = Nobody /\ layout[p] = 0
  BY DEF TimetableInit
<1>1. TimetableTypeOK
  <2>1. length \in [Papers -> Nat]
    <3>1. length \in [Papers -> Lengths] /\ Lengths \subseteq Nat
      BY TimetableAssumption DEF TimetableInit
    <3> QED
      BY <3>1
  <2>2. layout \in [Papers -> 0..MaxLayouts] /\ started \in 0..MaxStarted
          /\ layouts \in 0..MaxLayouts
    BY BoundAssumption DEF TimetableInit
  <2>3. doing \in [Officers -> {NothingRead} \union Moves \union Assigns \union Proposes]
    BY DEF TimetableInit
  <2> QED
    BY <2>1, <2>2, <2>3 DEF TimetableInit, TimetableTypeOK
<1>2. \A o \in Officers : TimetableReadHolds(doing[o])
  BY NothingReadHolds DEF TimetableInit
<1>3. WholeSeriesPublished /\ LaidOut
  BY <1>0 DEF TimetableInit, WholeSeriesPublished, LaidOut
<1>4. DriftHasACause
  BY <1>0, TimetableAssumption DEF TimetableInit, DriftHasACause
<1>5. ClassesSitOnePaper
  BY <1>0 DEF ClassesSitOnePaper, Overlap, Windowed
<1> QED
  BY <1>1, <1>2, <1>3, <1>4, <1>5 DEF TimetableInv

LEMMA TimetableInvKept == TimetableInv /\ [TimetableNext]_timetableVars => TimetableInv'
<1> SUFFICES ASSUME TimetableInv, [TimetableNext]_timetableVars PROVE TimetableInv'
  OBVIOUS
<1>1. ASSUME NEW s \in Series, NEW first \in FirstDays, NEW days \in 1..MaxDays,
             NEW slots \in 1..4, ScheduleSeries(s, first, days, slots)
      PROVE  TimetableInv'
  BY <1>1, ScheduleKeepsTimetable
<1>2. ASSUME NEW s \in Series, PublishSeries(s) PROVE TimetableInv'
  BY <1>2, PublishKeepsTimetable
<1>3. ASSUME NEW o \in Officers, NEW p \in Papers, NEW force \in BOOLEAN,
             NEW t \in Times \union ({at[p]} \ {0}), NEW n \in Lengths,
             MoveRead(o, p, t, n, force)
      PROVE  TimetableInv'
  BY <1>3, MoveReadKeepsTimetable
<1>4. ASSUME NEW o \in Officers, NEW p \in Papers, NEW force \in BOOLEAN, NEW to \in Staff,
             AssignRead(o, p, to, force)
      PROVE  TimetableInv'
  BY <1>4, AssignReadKeepsTimetable
<1>5. ASSUME NEW o \in Officers, NEW s \in Series, ProposeRead(o, s) PROVE TimetableInv'
  BY <1>5, ProposeReadKeepsTimetable
<1>6. ASSUME NEW o \in Officers, MoveWrite(o) \/ AssignWrite(o) \/ ProposeWrite(o) \/ Fails(o)
      PROVE  TimetableInv'
  BY <1>6, MoveWriteKeepsTimetable, AssignWriteKeepsTimetable, ProposeWriteKeepsTimetable,
     FailsKeepsTimetable
<1>7. ASSUME NEW p \in Papers, ClearInvigilator(p) \/ \E t \in Staff : TeachingChanges(t, p)
      PROVE  TimetableInv'
  BY <1>7, ClearKeepsTimetable, TeachingKeepsTimetable
<1>8. ASSUME NEW t \in Staff, ServiceChanges(t) PROVE TimetableInv'
  BY <1>8, ServiceKeepsTimetable
<1>9. CASE UNCHANGED timetableVars
  <2>0. UNCHANGED <<at, ends, length, watch, published, sitting, teaches, active, doing,
                    started, layouts, timed, layout, duty, learned, stale>>
    BY <1>9 DEF timetableVars
  <2>1. TimetableTypeOK'
    BY <2>0 DEF TimetableInv, TimetableTypeOK
  <2>2. ASSUME NEW u \in Officers \ stale' PROVE TimetableReadHolds(doing[u])'
    <3>1. TimetableReadHolds(doing'[u])
      BY <2>0 DEF TimetableInv
    <3> QED
      BY <3>1, <2>0, SameReads
  <2>3. WholeSeriesPublished' /\ LaidOut' /\ ClassesSitOnePaper'
    BY <2>0, TimesUntouched
  <2>4. DriftHasACause'
    BY <2>0 DEF TimetableInv, DriftHasACause, Overlap, Windowed
  <2> QED
    BY <2>1, <2>2, <2>3, <2>4 DEF TimetableInv
<1> QED
  BY <1>1, <1>2, <1>3, <1>4, <1>5, <1>6, <1>7, <1>8, <1>9 DEF TimetableNext

LEMMA TimetableInvHolds == TimetableSpec => []TimetableInv
BY TimetableInvAtStart, TimetableInvKept, PTL DEF TimetableSpec

(***************************************************************************)
(* Every value the timetable keeps, what its transactions have read among  *)
(* them, is of its kind (src/lib/exam/timetable.ts).                       *)
(***************************************************************************)
THEOREM TimetableTypesHold == TimetableSpec => []TimetableTypeOK
<1>1. TimetableInv => TimetableTypeOK
  BY DEF TimetableInv
<1> QED
  BY <1>1, TimetableInvHolds, PTL

(***************************************************************************)
(* setPaperInvigilator and proposeInvigilation, for any number of          *)
(* officers, papers and staff: a clash or a paper of one's own that        *)
(* invigilationDrift would report is due to an override, a later change,   *)
(* an overtaken assignment or another examination.                         *)
(***************************************************************************)
THEOREM DriftAlwaysHasACause == TimetableSpec => []DriftHasACause
<1>1. TimetableInv => DriftHasACause
  BY DEF TimetableInv
<1> QED
  BY <1>1, TimetableInvHolds, PTL

(***************************************************************************)
(* scheduleSeries and reschedulePaper: a level sits two papers at once     *)
(* only after an override, an overtaken move or a layout over an old end,  *)
(* and a layout of two slots a day separates the papers of a level,        *)
(* whatever the number of papers, levels and days.                         *)
(***************************************************************************)
THEOREM ClassesAlwaysSitOnePaper == TimetableSpec => []ClassesSitOnePaper
<1>1. TimetableInv => ClassesSitOnePaper
  BY DEF TimetableInv
<1> QED
  BY <1>1, TimetableInvHolds, PTL

(***************************************************************************)
(* What is left of the causes when no transaction writes that another has  *)
(* written behind, so that each may as well run alone (forSchool asks for  *)
(* no isolation level, and gets READ COMMITTED).                           *)
(***************************************************************************)
TimetableInTurn ==
    /\ TimetableNext
    /\ \A o \in stale : ~(MoveWrite(o) \/ AssignWrite(o) \/ ProposeWrite(o))

NoneRaced == \A p \in Papers : timed[p] # "raced" /\ duty[p] # "raced"

LEMMA TimetableInTurnStep ==
  ASSUME TimetableInv, NoneRaced, [TimetableInTurn]_timetableVars
  PROVE  TimetableInv' /\ NoneRaced'
<1> USE DEF TimetableInv, TimetableTypeOK, NoneRaced
<1>1. TimetableInv'
  BY TimetableInvKept DEF TimetableInTurn
<1>2. ASSUME NEW s \in Series, NEW first \in FirstDays, NEW days \in 1..MaxDays,
             NEW slots \in 1..4, ScheduleSeries(s, first, days, slots)
      PROVE  NoneRaced'
  BY <1>2 DEF ScheduleSeries, Retimed
<1>3. ASSUME NEW o \in Officers, o \notin stale, MoveWrite(o) PROVE NoneRaced'
  BY <1>3 DEF MoveWrite, Retimed, Checked
<1>4. ASSUME NEW o \in Officers, o \notin stale, AssignWrite(o) PROVE NoneRaced'
  BY <1>4 DEF AssignWrite, Checked
<1>5. ASSUME NEW o \in Officers, o \notin stale, ProposeWrite(o) PROVE NoneRaced'
  BY <1>5 DEF ProposeWrite
<1>6. ASSUME NEW p \in Papers, ClearInvigilator(p) PROVE NoneRaced'
  BY <1>6 DEF ClearInvigilator
<1>7. ASSUME timed' = timed, duty' = duty PROVE NoneRaced'
  BY <1>7
<1>8. ASSUME UNCHANGED timetableVars PROVE NoneRaced'
  BY <1>7, <1>8 DEF timetableVars
<1>9. ASSUME NEW o \in Officers, Fails(o) PROVE NoneRaced'
  BY <1>7, <1>9 DEF Fails, timetableHistory
<1>10. ASSUME NEW s \in Series, PublishSeries(s) PROVE NoneRaced'
  BY <1>7, <1>10 DEF PublishSeries
<1>11. ASSUME NEW p \in Papers, NEW t \in Staff, TeachingChanges(t, p) PROVE NoneRaced'
  BY <1>7, <1>11 DEF TeachingChanges
<1>12. ASSUME NEW t \in Staff, ServiceChanges(t) PROVE NoneRaced'
  BY <1>7, <1>12 DEF ServiceChanges, timetableHistory
<1>13. ASSUME NEW o \in Officers, NEW p \in Papers, NEW force \in BOOLEAN, NEW t, NEW n,
              MoveRead(o, p, t, n, force)
       PROVE  NoneRaced'
  BY <1>7, <1>13 DEF MoveRead, timetableHistory
<1>14. ASSUME NEW o \in Officers, NEW p \in Papers, NEW force \in BOOLEAN, NEW to \in Staff,
              AssignRead(o, p, to, force)
       PROVE  NoneRaced'
  BY <1>7, <1>14 DEF AssignRead, timetableHistory
<1>15. ASSUME NEW o \in Officers, NEW s \in Series, ProposeRead(o, s) PROVE NoneRaced'
  BY <1>7, <1>15 DEF ProposeRead, timetableHistory
<1>16. ASSUME TimetableInTurn PROVE NoneRaced'
  BY <1>2, <1>3, <1>4, <1>5, <1>6, <1>9, <1>10, <1>11, <1>12, <1>13, <1>14, <1>15, <1>16
     DEF TimetableInTurn, TimetableNext
<1>. QED
  BY <1>1, <1>8, <1>16

(***************************************************************************)
(* Then somebody watches two papers at once only after an override, a      *)
(* change of their times or a proposal for another examination, and a      *)
(* class sits two only after an override or a layout over an old end       *)
(* (setPaperInvigilator, proposeInvigilation, reschedulePaper).            *)
(***************************************************************************)
THEOREM OfficersInTurnDoNotClash ==
    TimetableInit /\ [][TimetableInTurn]_timetableVars =>
        [](\A p, q \in Papers : p # q /\ Overlap(p, q) =>
             /\ watch[p] = watch[q] /\ watch[p] # Nobody =>
                  \/ {duty[p], duty[q]} \cap {"forced", "moved"} # {}
                  \/ "proposed" \in {duty[p], duty[q]} /\ SeriesOf[p] # SeriesOf[q]
             /\ LevelOf[p] = LevelOf[q] => {timed[p], timed[q]} \cap {"forced", "laid"} # {})
<1> DEFINE Caused(p, q) ==
             /\ watch[p] = watch[q] /\ watch[p] # Nobody =>
                  \/ {duty[p], duty[q]} \cap {"forced", "moved"} # {}
                  \/ "proposed" \in {duty[p], duty[q]} /\ SeriesOf[p] # SeriesOf[q]
             /\ LevelOf[p] = LevelOf[q] => {timed[p], timed[q]} \cap {"forced", "laid"} # {}
<1>1. TimetableInit => TimetableInv /\ NoneRaced
  BY TimetableInvAtStart DEF TimetableInit, NoneRaced
<1>2. TimetableInv /\ NoneRaced /\ [TimetableInTurn]_timetableVars => TimetableInv' /\ NoneRaced'
  BY TimetableInTurnStep
<1>3. TimetableInv /\ NoneRaced =>
        \A p, q \in Papers : p # q /\ Overlap(p, q) => Caused(p, q)
  BY DEF TimetableInv, NoneRaced, DriftHasACause, ClassesSitOnePaper
<1>. QED
  BY <1>1, <1>2, <1>3, PTL
=============================================================================
