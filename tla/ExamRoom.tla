------------------------------- MODULE ExamRoom -------------------------------
(***************************************************************************)
(* The page a paper is sat on (src/app/exam/[paperId]/ExamRoom.tsx): what  *)
(* the candidate answers is shown at once, queued, and posted one answer   *)
(* at a time to a server it may not reach.                                 *)
(*                                                                         *)
(* Script runs to its next await without interruption, and is one step     *)
(* here.  Answers are counted instead of spelled out: 0 is none, or empty  *)
(* text, and every change is one more.  One sitting, in one tab.           *)
(***************************************************************************)
EXTENDS Integers

CONSTANTS
    Questions,
    Theory,         \* the questions answered in a text box
    MaxVersion,     \* bound: changes of one answer
    MaxFailures,    \* bound: requests that fail
    MaxPosts,       \* bound: calls of doSubmit under way at once
    MaxReloads      \* bound: reloads and browser crashes

ASSUME TheoryAssumption == Theory \subseteq Questions
ASSUME RoomBoundAssumption == {MaxVersion, MaxFailures, MaxPosts, MaxReloads} \subseteq Nat

VARIABLES
    server,     \* the attempt: open, late (past its deadline) or closed
    stored,     \* attempt_answers
    shown,      \* answers and textAnswers, as on the page and in localStorage
    typing,     \* theoryTimers: text that is not queued yet
    queue,      \* per question: the answer in the queue
    before,     \* the order of the queue
    loop,       \* flush: the answer posted and the reply to it
    late,       \* posts the page gave up on and the server may still get
    retry,      \* flush will be tried again in three seconds
    draining,   \* a call of doSubmit waits for the flush it started
    posts,      \* the calls of doSubmit that have posted, and wait for the reply
    page,
    mishaps,    \* history: whether an answer may have been lost, or undone
    failures,
    reloads

room == <<shown, typing, queue, before, loop, retry, draining, posts, page>>
vars == <<room, server, stored, late, mishaps, failures, reloads>>

NotQueued == -1
Idle == [reply |-> "idle"]
Answer == [q : Questions, v : Nat]
Posted == [q : Questions, v : Nat, reply : {"none", "saved", "closed"}]

Queued == {q \in Questions : queue[q] # NotQueued}

TypeOK ==
    /\ server \in {"open", "late", "closed"}
    /\ stored \in [Questions -> Nat]
    /\ shown \in [Questions -> Nat]
    /\ typing \subseteq Theory
    /\ queue \in [Questions -> Nat \union {NotQueued}]
    /\ before \subseteq Queued \X Queued
    /\ loop \in Posted \union {Idle}
    /\ late \subseteq Answer
    /\ retry \in BOOLEAN
    /\ draining \in BOOLEAN
    /\ posts \in Nat
    /\ page \in {"open", "submitting", "left"}
    /\ mishaps \subseteq {"lost", "undone"}
    /\ failures \in Nat
    /\ reloads \in Nat

Init ==
    /\ server = "open"
    /\ stored = [q \in Questions |-> 0]
    /\ shown = [q \in Questions |-> 0]
    /\ typing = {}
    /\ queue = [q \in Questions |-> NotQueued]
    /\ before = {}
    /\ loop = Idle
    /\ late = {}
    /\ retry = FALSE
    /\ draining = FALSE
    /\ posts = 0
    /\ page = "open"
    /\ mishaps = {}
    /\ failures = 0
    /\ reloads = 0

-----------------------------------------------------------------------------
(***************************************************************************)
(* The queue.                                                              *)
(***************************************************************************)
Orders(S) ==
    {order \in SUBSET (S \X S) :
        /\ \A a \in S : <<a, a>> \notin order
        /\ \A a, b \in S : a # b => (<<a, b>> \in order <=> <<b, a>> \notin order)
        /\ \A a, b, c \in S : <<a, b>> \in order /\ <<b, c>> \in order => <<a, c>> \in order}

Among(S) == before \intersect (S \X S)

\* Each answer of S replaces the one queued for its question, and goes last.
Put(S, text) ==
    /\ queue' = [q \in Questions |-> IF q \in S THEN text[q] ELSE queue[q]]
    /\ \E order \in Orders(S) :
          before' = Among(Queued \ S) \union ((Queued \ S) \X S) \union order

IsHead(q) == q \in Queued /\ \A r \in Questions : <<r, q>> \notin before

\* shift
Shift ==
    \E h \in Questions :
        /\ IsHead(h)
        /\ queue' = [queue EXCEPT ![h] = NotQueued]
        /\ before' = Among(Questions \ {h})

Clear ==
    /\ queue' = [q \in Questions |-> NotQueued]
    /\ before' = {}

\* The loop of flush posts the first answer queued, and ends with the queue.
PostNext ==
    IF Queued' = {} THEN loop' = Idle
    ELSE \E h \in Questions :
            IsHead(h)' /\ loop' = [q |-> h, v |-> queue'[h], reply |-> "none"]

\* flush, called: it returns when the loop is running.
Flush == IF loop = Idle THEN PostNext ELSE loop' = loop

(***************************************************************************)
(* Answering.  Mishaps: a question is answered again while its answer is   *)
(* posted, or while a submission is under way: when one of two has failed  *)
(* the page is open again, and the other one may still close the paper.    *)
(***************************************************************************)
Hasty(S) == IF loop # Idle /\ loop.q \in S THEN {"lost"} ELSE {}
Belated == IF draining \/ posts > 0 THEN {"lost"} ELSE {}

Change(q) ==
    /\ page # "left"
    /\ shown[q] < MaxVersion
    /\ shown' = [shown EXCEPT ![q] = @ + 1]

Choose(q) ==
    /\ q \notin Theory
    /\ Change(q)
    /\ Put({q}, shown')
    /\ Flush
    /\ mishaps' = mishaps \union Hasty({q}) \union Belated
    /\ UNCHANGED <<server, stored, typing, late, retry, draining, posts, page, failures,
                   reloads>>

\* writeTheory: the timer starts again with every keystroke.
WriteTheory(q) ==
    /\ q \in Theory
    /\ Change(q)
    /\ typing' = typing \union {q}
    /\ mishaps' = mishaps \union Belated
    /\ UNCHANGED <<server, stored, queue, before, loop, late, retry, draining, posts, page,
                   failures, reloads>>

\* A mutant of Pause: the text is queued and not posted.
PauseUnposted(q) ==
    /\ q \in typing
    /\ page # "left"
    /\ Put({q}, shown)
    /\ typing' = typing \ {q}
    /\ mishaps' = mishaps \union Hasty({q})
    /\ UNCHANGED <<server, stored, shown, loop, late, retry, draining, posts, page,
                   failures, reloads>>

\* ... and fires after a pause.
Pause(q) ==
    /\ q \in typing
    /\ page # "left"
    /\ Put({q}, shown)
    /\ typing' = typing \ {q}
    /\ Flush
    /\ mishaps' = mishaps \union Hasty({q})
    /\ UNCHANGED <<server, stored, shown, late, retry, draining, posts, page, failures,
                   reloads>>

-----------------------------------------------------------------------------
(***************************************************************************)
(* Posting (api/exam/[attemptId]/answer; saveAnswer).                      *)
(***************************************************************************)
Save(answer) ==
    stored' = IF server = "open" THEN [stored EXCEPT ![answer.q] = answer.v] ELSE stored

Arrive ==
    /\ loop # Idle
    /\ loop.reply = "none"
    /\ Save(loop)
    /\ loop' = [loop EXCEPT !.reply = IF server = "open" THEN "saved" ELSE "closed"]
    /\ UNCHANGED <<server, shown, typing, queue, before, late, retry, draining, posts, page,
                   mishaps, failures, reloads>>

ArriveLate ==
    /\ \E answer \in late : Save(answer) /\ late' = late \ {answer}
    /\ UNCHANGED <<room, server, mishaps, failures, reloads>>

\* A doSubmit that awaited its flush goes on, and posts.
Drained ==
    /\ draining' = FALSE
    /\ posts' = IF draining THEN posts + 1 ELSE posts

\* The reply is that it was saved: the first of the queue is taken off, the next is posted.
Saved ==
    /\ page # "left"
    /\ loop # Idle
    /\ loop.reply = "saved"
    /\ Shift
    /\ PostNext
    /\ IF Queued' = {} THEN Drained ELSE UNCHANGED <<draining, posts>>
    /\ UNCHANGED <<server, stored, shown, typing, late, retry, page, mishaps, failures,
                   reloads>>

\* The reply is that the paper is closed or late: the queue is dropped.
Refused ==
    /\ page # "left"
    /\ loop # Idle
    /\ loop.reply = "closed"
    /\ Clear
    /\ loop' = Idle
    /\ Drained
    /\ mishaps' = mishaps \union {"lost"}
    /\ UNCHANGED <<server, stored, shown, typing, late, retry, page, failures, reloads>>

\* What the page no longer waits for is lost, or still on its way.
GiveUp(mishap) ==
    \/ late' = late /\ mishaps' = mishaps \union mishap
    \/ /\ loop # Idle
       /\ loop.reply = "none"
       /\ late' = late \union {[q |-> loop.q, v |-> loop.v]}
       /\ mishaps' = mishaps \union mishap \union {"undone"}

Fault == failures < MaxFailures /\ failures' = failures + 1

\* A mutant of Fail: the answer is taken off the queue.
FailDropped ==
    /\ page # "left"
    /\ loop # Idle
    /\ Fault
    /\ Shift
    /\ loop' = Idle
    /\ retry' = TRUE
    /\ Drained
    /\ GiveUp(IF draining THEN {"lost"} ELSE {})
    /\ UNCHANGED <<server, stored, shown, typing, page, reloads>>

\* No connection, or an error of the server; the queue stays as it is.  The loop ends,
\* and a doSubmit that waited for it goes on with the queue unsent.
Fail ==
    /\ page # "left"
    /\ loop # Idle
    /\ Fault
    /\ loop' = Idle
    /\ retry' = TRUE
    /\ Drained
    /\ GiveUp(IF draining THEN {"lost"} ELSE {})
    /\ UNCHANGED <<server, stored, shown, typing, queue, before, page, reloads>>

Retry ==
    /\ page # "left"
    /\ retry
    /\ retry' = FALSE
    /\ UNCHANGED <<server, stored, shown, typing, queue, before, late, draining, posts,
                   page, mishaps, failures, reloads>>
    /\ Flush

\* The browser is online again.
Online ==
    /\ page # "left"
    /\ loop = Idle
    /\ Queued # {}
    /\ UNCHANGED <<server, stored, shown, typing, queue, before, late, retry, draining,
                   posts, page, mishaps, failures, reloads>>
    /\ Flush

-----------------------------------------------------------------------------
(***************************************************************************)
(* Submitting.                                                             *)
(***************************************************************************)
\* A mutant of DoSubmit: flush is not awaited.
DoSubmitAtOnce(text) ==
    /\ Put(typing, text)
    /\ typing' = {}
    /\ page' = "submitting"
    /\ Flush
    /\ posts < MaxPosts
    /\ posts' = posts + 1
    /\ draining' = draining
    /\ UNCHANGED <<server, stored, shown, late, retry, failures, reloads>>

UnderWay == posts + (IF draining THEN 1 ELSE 0)

\* doSubmit: text that is being typed is queued, and flush is awaited, which returns at
\* once when there is nothing to post or when another call is posting.  Calls wait and
\* post side by side.
DoSubmit(text) ==
    /\ UnderWay < MaxPosts
    /\ Put(typing, text)
    /\ typing' = {}
    /\ page' = "submitting"
    /\ Flush
    /\ IF loop = Idle /\ Queued' # {} THEN draining' = TRUE /\ posts' = posts
       ELSE draining' = draining /\ posts' = posts + 1
    /\ UNCHANGED <<server, stored, shown, late, retry, failures, reloads>>

Overtaken == IF loop # Idle THEN {"lost"} ELSE {}

\* A mutant of SubmitPaper: it hands over the text of the first rendering, too.
SubmitPaperStale ==
    /\ page = "open"
    /\ DoSubmit([q \in Questions |-> 0])
    /\ mishaps' = mishaps \union Overtaken \union Hasty(typing)

SubmitPaper ==
    /\ page = "open"
    /\ DoSubmit(shown)
    /\ mishaps' = mishaps \union Overtaken \union Hasty(typing)

\* The countdown is at 0, every second: the doSubmit of the first rendering, to which
\* all text is empty and nothing is being submitted.
CountdownSubmit ==
    /\ page # "left"
    /\ DoSubmit([q \in Questions |-> 0])
    /\ mishaps' = mishaps \union Overtaken \union Hasty(typing)
                     \union (IF typing # {} THEN {"undone"} ELSE {})

\* Submitted: the page is left, whatever else is under way.
Submitted ==
    /\ page # "left"
    /\ posts > 0
    /\ server' = "closed"
    /\ page' = "left"
    /\ UNCHANGED <<stored, shown, typing, queue, before, loop, late, retry, draining, posts,
                   mishaps, failures, reloads>>

\* An error of the server looks the same to the page.
SubmitRejected ==
    /\ page # "left"
    /\ posts > 0
    /\ Fault
    /\ page' = "left"
    /\ mishaps' = mishaps \union {"lost"}
    /\ UNCHANGED <<server, stored, shown, typing, queue, before, loop, late, retry,
                   draining, posts, reloads>>

\* No connection: the server may have closed the paper.  The candidate may go on, and
\* other submissions are still under way.
SubmitFails ==
    /\ page # "left"
    /\ posts > 0
    /\ Fault
    /\ posts' = posts - 1
    /\ page' = "open"
    /\ server' \in {server, "closed"}
    /\ UNCHANGED <<stored, shown, typing, queue, before, loop, late, retry, draining,
                   mishaps, reloads>>

-----------------------------------------------------------------------------
(***************************************************************************)
(* Around the page.  The sweeper and the invigilator close an attempt, and *)
(* an extension reopens one that was late.                                 *)
(***************************************************************************)
ServerMoves ==
    /\ \/ server = "open" /\ server' \in {"late", "closed"}
       \/ server = "late" /\ server' \in {"open", "closed"}
    /\ UNCHANGED <<room, stored, late, mishaps, failures, reloads>>

\* The page is loaded again: what it shows comes back, what was queued does not.
Reload ==
    /\ reloads < MaxReloads
    /\ reloads' = reloads + 1
    /\ page # "left"
    /\ server # "closed"
    /\ typing' = {}
    /\ Clear
    /\ loop' = Idle
    /\ retry' = FALSE
    /\ draining' = FALSE
    /\ posts' = 0
    /\ page' = "open"
    /\ GiveUp({"lost"})
    /\ UNCHANGED <<server, stored, shown, failures>>

Reply == Arrive \/ Saved \/ Refused

Next ==
    \/ \E q \in Questions : Choose(q) \/ WriteTheory(q) \/ Pause(q)
    \/ Reply
    \/ ArriveLate
    \/ Fail
    \/ Retry
    \/ Online
    \/ SubmitPaper
    \/ CountdownSubmit
    \/ Submitted
    \/ SubmitRejected
    \/ SubmitFails
    \/ ServerMoves
    \/ Reload

Spec == Init /\ [][Next]_vars

\* Requests are answered or fail, and timers fire.
FairSpec ==
    /\ Spec
    /\ WF_vars(Reply)
    /\ WF_vars(Retry)
    /\ \A q \in Theory : WF_vars(Pause(q))

-----------------------------------------------------------------------------
Kept(q) == stored[q] = shown[q] \/ queue[q] = shown[q] \/ q \in typing

(***************************************************************************)
(* "The candidate is never asked to resubmit anything by hand": what the   *)
(* page shows as answered is stored, or still on its way.  It is not so:   *)
(* an answer chosen while the one before it is posted is taken off the     *)
(* queue in its place.  In no configuration.                               *)
(***************************************************************************)
ShownIsKept == page # "left" /\ server = "open" => \A q \in Questions : Kept(q)

(***************************************************************************)
(* It is so, through every failure and retry, while none of the mishaps    *)
(* happens: a question is not answered again while its answer is under     *)
(* way, the page is not reloaded, the countdown does not end while text is *)
(* typed, no request arrives late, and nothing is answered while any call  *)
(* of doSubmit is under way, be it the second of two whose first failed.   *)
(***************************************************************************)
UndisturbedIsKept == page # "left" /\ mishaps = {} => \A q \in Questions : Kept(q)

(***************************************************************************)
(* Submitting closes the paper on what is shown, once everything queued    *)
(* was sent: the await of flush in doSubmit, in the same circumstances,    *)
(* however many calls of doSubmit post, and whichever of them fail.        *)
(***************************************************************************)
UndisturbedIsSubmitted ==
    page = "left" /\ mishaps = {} => server = "closed" /\ stored = shown

\* Whatever happens, a queue is never left without someone to send it.
NeverStranded == page # "left" /\ Queued # {} => loop # Idle \/ retry

(***************************************************************************)
(* A retry never undoes a later answer: what is stored goes back only when *)
(* a post given up on arrives after all, or when the countdown ends while  *)
(* text is typed.  Hasty changes, reloads and failures do no such harm.    *)
(***************************************************************************)
StoredMovesForward ==
    [][\A q \in Questions : stored'[q] < stored[q] =>
          "undone" \in mishaps]_vars

(***************************************************************************)
(* What is shown is stored in the end, without another touch by the        *)
(* candidate, unless a mishap or the end of the paper comes first.         *)
(***************************************************************************)
EventuallyStored ==
    \A q \in Questions :
        mishaps = {} ~> stored[q] = shown[q] \/ mishaps # {}
===============================================================================
