# EduCBT: specifications, model checks and proofs

TLA+ specifications of the parts of EduCBT (this repository) whose state is shared
between people, jobs and server instances. Everything is translated from the
TypeScript under `src/`; the paths below are relative to the repository.

* `tlc -workers 2 -config <run>.cfg <module>` checks a run,
* `tlapm <module>Proofs.tla` checks the proofs.

`PROJECT.json` lists the components, the runs, the mutants that show each property
can fail, the source lines behind every definition, the hazards and the theorems.

Modelled: the examination engine (section 2), the page a paper is sat on (3), the results
of a term (4), promotion (5), the way from a teacher's questions to published papers (6),
the timetable and its invigilators (7), pupils and their classes (8), staff and their
duties (9), accounts and how their owners sign in (10) and the email queue (11). Section 1
is the inventory of the whole system, section 12 lists what the documentation says and the
code does not do, section 13 what is left to model checking or left out.

## 1. Inventory

EduCBT serves many schools from one Next.js application on a serverless host and one
PostgreSQL database with row-level security. Every operation runs in a transaction of
its school (`forSchool`, `db/index.ts`); each server instance has one connection. Jobs
(`inngest/functions.ts`) sweep expired attempts, drain the email queue and delete old
sessions. Components meet in the database: by shared rows, advisory locks (`ca/lock.ts`)
and the audit log, never by messages; the one component with memory of its own is the
exam room in the browser.

| component (code) | state | operations | what is hard | what makes it correct | here |
|---|---|---|---|---|---|
| Examination engine (`exam/engine.ts`, `invigilate.ts`, `sessions.ts`, `jobs/exam-sweep.ts`) | attempts, answers | start, save, submit, force, sweep, extend, reattempt | unlocked read-then-write by candidate, invigilator, office and job; crash of the job | closed once, marked as the answers stand; overdue attempts are closed; a reattempt starts clean | section 2 |
| Exam room (`app/exam/[paperId]/ExamRoom.tsx`, `api/exam`) | answers shown, the queue, timers, requests under way | answer, flush, retry, submit, countdown, reload | awaits and callbacks over shared refs; lost replies; stale closures | what is shown is stored, in order; submit comes last | section 3 |
| Score entry, compilation, lifecycle (`ca/*`, `exam/results.ts`, `results/workflow.ts`, `domain/academic.ts`) | scores, subject results, audit | enter, moderate, award, compile, review, publish, lock, take back | only some writers hold the term's lock; a fingerprint stands for "nothing changed" | a published result is complete, as compiled, and never rewritten | section 4 |
| Promotion (`promotion/promotion.ts`) | enrolments, standing, batches, decisions | propose, override, commit, reverse, move | batches overlap on the next session's rows; the school changes between proposal and commit | nobody is lost; decisions stay explainable; history is kept | section 5 |
| Question sets (`exam/sets.ts`, `collection.ts`) | sets, questions, the collection window | author, submit, review, delete | two halves of a paper handed in together; a deletion without the lock | an approved set holds approved questions only | section 6 |
| Composition (`exam/compose.ts`) | series, papers, pools | create, compose, schedule, publish, delete | reads and writes apart, without a lock; composing again after publication | a paper has enough approved questions of its subject; published ones have a day | section 6 |
| Timetable (`exam/timetable.ts`, `compose.ts scheduleSeries`) | times, ends, invigilators, access codes | lay out, reschedule, assign, propose, clear | clashes judged from rows read before; a layout writes half of a paper's window | nobody watches, and no class sits, two papers at once without a cause | section 7; access codes left out |
| Question vault (`exam/vault.ts`) | snapshots | snapshot, restore | which snapshot is restored; restore over later edits | a restore gives back a state that was | a restore never succeeds: section 6 |
| Students (`people/students.ts`), Classes (`school/classes.ts`) | students, accounts, enrolments, registrations, classes | register, approve, place, standing, subjects, create, remove | capacity, seats and standing read without a lock; standing, login and seat written by different operations | classes are not overfilled; a seat is in a class there is; who has left cannot sign in | section 8; also in 4, 5 |
| Staff (`people/staff.ts`) | staff, accounts, duties | register, role, stand down, reactivate, assign | who is principal read before it is written; duties left behind | one principal, always; one class teacher a class; no duty without a person | section 9 |
| Sign-in and sessions (`auth/credentials.ts`, `session-store.ts`) | users, sessions, failure counter | sign in, second step, sign out | a sign-in is four transactions with hashing in between; a pending session between the steps | guesses are counted; a second step is never skipped | section 10 |
| Password, reset, two-step, recovery codes (`auth/change-password.ts`, `recovery*.ts`, `totp-account.ts`) | passwords, links, secrets, codes | change, request, reset, enrol, confirm, issue, disable | a claim in one transaction and the change in another; a death between | a link or code works once, with its effect; old passwords are out | section 10 |
| Email queue (`comms/email.ts`, `jobs/email-drain.ts`) | `email_events` | queue, drain | claim, send and mark in one transaction around a provider that does not roll back; two drains | every queued mail is settled; sent means handed over; repeats have a cause | section 11 |
| Subjects (`subjects/service.ts`) | subjects, offerings | add, seed, retire | `markSeeded` writes settings unlocked | nothing in use is removed | retiring in 4 |
| Settings and calendar (`settings/service.ts`) | school config, sessions, terms, scales | save, set period, new session | every write takes the configuration lock | one current term; results keep their scale | `saveAcademic` in 4, `setPeriod` in 5, 8 |
| Guardians (`people/guardians.ts`) | guardians, links, invitations | invite, accept, link | single rows behind unique indexes | accepted once | accounts in 10 |
| Remarks (`settings/remarks.ts`), transcripts (`promotion/transcript.ts`) | remarks, transcripts | upsert, issue, revoke | one row each; the serial has a unique index | - | left out |
| Announcements, messages, notifications (`comms/*`) | rows written with the caller | write, read | none found | - | left out |
| Practice, analysis, dashboards, summaries, family pages | none or their own rows | queries | none found | - | left out |
| Platform (`platform/*`), row-level security (`db/rls.sql`), backups, help | schools, policies, files | edit, dump | outside the program's control | - | the first principal in 9, suspension in 11 |

## 2. The examination engine

### The code

A paper is sat through one row of `attempts` per (paper, student) and one row of
`attempt_answers` per question answered (`src/db/schema/attempts.ts`). The
operations on them:

| operation | code | who |
|---|---|---|
| start or resume | `engine.ts startAttempt` | candidate |
| save an answer | `engine.ts saveAnswer` | candidate |
| submit | `engine.ts submitAttempt` | candidate |
| forced submit | `invigilate.ts forceSubmit` | invigilator |
| sweep | `engine.ts sweepExpired`, `jobs/exam-sweep.ts`, each minute | job |
| more time for one, for all | `invigilate.ts grantExtension`, `extendPaper` | invigilator |
| reattempt | `sessions.ts grantReattempt` | office |
| integrity incident | `engine.ts recordEvent` | browser |

Each runs in a transaction of its own (`forSchool`, `db/index.ts`), at READ
COMMITTED, and reads the attempt without locking it, decides, and writes by id. A
server instance has one connection (`max: 1`), so transactions of one instance
follow each other; with several warm instances they interleave. What is hard is in
that interleaving, in the sweeper (which lists in one transaction and submits in
others) and in the reattempt, which reuses the row.

### The modules

* `AttemptData` — the rows and the pure parts of the handlers: opening, reopening,
  extending, marking and closing a row, and the deadline (`expiresAt` plus
  `extensionSeconds`, although an extension has already moved `expiresAt`).
  The order of the questions is abstracted to the set drawn, a score to the set of
  questions credited, marks to `unmarked`, `zero` and `full`.
* `AttemptContract` — every operation at one moment. One action per operation;
  `Close` is `submitAttempt`, used by `Submit` (candidate and invigilator) and
  `SweepSubmit`. `sitting` and `granted` are history variables: how often the
  attempt was opened, and what was acknowledged to invigilators.
* `AttemptEngine` — the same operations statement by statement. `txn[i]` is the open
  transaction of instance `i` with what it has read. Each operation is a `...Read`
  action (the SELECTs and the early returns) and a `...Write` action (the writes
  and the commit). Submit has a step more, because the attempt and the answers are
  read by different statements, and so has a reattempt, which deletes the answers by
  one statement and resets the row by the next: `ReattemptDelete` keeps which answers it
  found, `ReattemptWrite` makes both visible. `carried` is history: the questions whose
  answers were stored between the two and outlived the reattempt. `Rollback` is a failed
  statement or a dying instance, `SweepAbandon` a sweep that dies between two
  transactions.

`forceSubmit` first reads the status in a transaction of its own; `submitAttempt`
repeats that check, so only the latter is kept. Its audit row, `attempt_events`,
`lastSyncedAt`, `submittedAt`, `maxScore`, bookmarks and the paper's access code are
left out. There is one clock; the skew between instances and the database is not
modelled.

### Properties and runs

| run | shows |
|---|---|
| `attempt_contract` | a closed attempt is marked as its answers stand (`MarkedAsTheyStand`) and extensions add up (`ExtensionsAddUp`) |
| `attempt_engine_serial` | `AttemptEngine` implements `AttemptContract` while transactions on the same attempt do not overlap (`SerialSpec`, `ImplementsContract`) |
| `attempt_engine_races` | with two instances on the same attempt: an open attempt has no score, and no mark but on an answer that outlived the reattempt (`carried`); answers stay on the paper, a settled attempt stays settled; under `FairSpec` every overdue attempt is closed, also an extended one, one reopened while it was on the sweeper's list, or one whose sweep died |

Bounds: two candidates where they matter to each other (the sweeper's list,
`extendPaper`), one where only overlapping transactions do; two questions, one
objective and one theory, with a paper of one, so that there is a question that is not
on the paper; a duration of none or one unit and a `Clock`, the set of moments looked
at, so that an attempt can be on time, at its deadline, late and extended
(`attempt_engine_races` looks at 0, 1 and 3: an attempt is overdue at 1, an extended
one not before 3); two sittings; one rollback or lost sweep (none in
`attempt_engine_serial`, where the proof covers it). In `attempt_engine_races` only the
candidate submits (`Closers`): a forced submit is the same transaction with another flag,
and the other runs have both. Two instances are enough for every
overlap of two transactions, and what a third or a fourth may add is the matter of the
proofs, which are for any number. `CHECK_DEADLOCK FALSE`, because the clock and the sittings
are bounded and everything may be over.

Fairness (`FairSpec`): an open transaction goes on (weak fairness of `Continue`);
the sweeper is run each minute by a scheduler that retries, and waits its turn on the
connection, so its steps cannot be passed over for ever while they are possible again
and again (strong fairness). Nothing is assumed of candidates, invigilators, the
clock, or faults, except that faults are finitely many.

What the interleavings show besides (the model has all of it, no run is spent on it): of
two extensions granted at once one is lost (`invigilate.ts:328`, computed
from the row read), an extension counts twice in the deadline (`engine.ts:199` adds
`extensionSeconds` to an `expiresAt` that already has them), a second concurrent submit
writes score and reason over the first (`engine.ts:267`), a save checked before a submit
and written after it is stored and never marked (section 12), a save or an extension decided
in one sitting can be written in the next after a reattempt, an answer stored between the
two statements of a reattempt is still there in the new sitting (section 12; if a submission
gets in there as well it is there with its mark, which takes a third instance or a second
reattempt), and an attempt extended
after the sweeper listed it is closed before its time (`sweepExpired` submits by id, and
`submitAttempt` looks at the status alone).

### Proofs

Both proof modules begin with the lemmas about rows. `AttemptContractProofs` proves, for every
paper, number of candidates and bound, type correctness, `MarkedAsTheyStand`,
`ExtensionsAddUp`, `ClosedIsFinal` and `DeadlineNeverEarlier`. The inductive invariant
is `Inv`, one conjunct (`Good`) per student: marking keeps the marks it does not
write, so that a closed attempt has the right ones needs that an open attempt has
none, which in turn needs that nothing is stored for a student without an attempt.

`AttemptEngineProofs` proves, for any number of instances and any interleaving, type
correctness, `OpenIsUnmarked`, `AnswersAreOnPaper`, `QuestionsAreFixed`,
`SweepIsSequential` and `SettledIsFinal`; the invariant adds that the attempt a
transaction has read exists and that a question to be saved is one of its questions, which
no later write takes back. For `OpenIsUnmarked` it says that only an answer that is stored
has a mark, so that whatever a reattempt leaves marked is an answer its DELETE did not
find: `carried`. `SettledIsFinal` needs no more: every handler checks the status in its
own transaction, so once an attempt is closed only a transaction that had read it open can
still write it. It also proves `SerialSpec => C!Spec`: with transactions on one attempt
not overlapping, every read a handler decided on is current when it writes
(`ReadIsCurrent`, inductive together with `NoOverlap`), so each write is exactly one
operation of the contract and every other statement stutters.

Assumptions: the pool is finite and not empty, the key maps objective questions to
options, times are naturals, and null is no value.

Only model-checked: `OverdueIsClosed`, which is liveness under fairness.

## 3. The exam room

### The code

`ExamRoom.tsx` keeps what the candidate answered in React state and in `localStorage`,
and a queue of posts in a ref. `choose` queues at once, `writeTheory` 900 ms after the
last keystroke. `flush` posts the first of the queue, awaits the reply and takes the
first off; after a failure it tries again in three seconds. `doSubmit` queues text that
is still being typed, awaits `flush`, posts the submit and leaves the page; the
countdown calls it, too. The routes under `api/exam` call the engine of section 2.

### The module

`ExamRoom` is one sitting in one tab. Script runs from await to await without
interruption, so each callback is a step. An answer is a version number (0: none, or empty
text). The queue is `queue` (what waits for each question) and `before` (in which order).
`loop` is the post `flush` awaits, `retry` its timer, `late` the posts the page gave up on
that the server may still get. Several calls of `doSubmit` may be under way: one that
awaits the loop of `flush` it started (`draining`), and any number whose submit is posted
(`posts`), each of which ends on its own. The server is `open`, `late` (time is up, an
extension may reopen it) or `closed`.

| action | code |
|---|---|
| `Choose`, `WriteTheory`, `Pause` | `choose`, `writeTheory` and its timer |
| `Arrive`, `ArriveLate` | the answer route, for a post awaited or given up on |
| `Saved`, `Refused`, `Fail` | `flush` after 200, after 409, after anything else |
| `Retry`, `Online` | the timer, the `online` event |
| `SubmitPaper`, `CountdownSubmit` | `doSubmit` from the button, and from the countdown, whose closure is of the first rendering |
| `Submitted`, `SubmitRejected`, `SubmitFails` | what follows a submit's fetch; after a failure the page is open again, and the other submits go on |
| `ServerMoves`, `Reload` | extension, sweep or forced close; a reload or a browser crash |

`mishaps` is history: whether something happened that may lose an answer or put an
older one over it. The properties say what holds without, or whatever happens. To answer
while a submit is under way is one (`Belated`).

### Runs

| run | shows |
|---|---|
| `exam_room` | without a mishap what is shown is stored or on its way, in the end stored, and the paper is closed on it; what is stored only moves forward |

Bounds: an option question and a theory question, each changed twice (enough for an
answer under way, one queued and one shown), two failures (one that loses a reply and
one of its repetition), one reload, two calls of `doSubmit` at once (`MaxPosts`: one to
fail and one to close the paper). Fairness: a request is answered or fails, and timers
fire; that is what `fetch` and `setTimeout` do, and failures are finitely many because
the property is about a connection that comes back. `CHECK_DEADLOCK FALSE`: the page is
left.

Also in the model and named a mishap rather than given a run: when the countdown ends
while text is typed, the closure of the first rendering queues no text, and what was stored
is replaced by none (`:104`); a reload does not queue
again what had not been sent; the submit's `res.ok` is not looked at (`:295`); the
submit overtakes a queue another call is posting; a 409 for lateness drops a queue that
an extension would have let through; the countdown submits again every second while a
submit is awaited, so that when one of them fails and opens the page (`:278-303`), another may
still close the paper and leave, with what was answered in between lost.

### Proofs

`ExamRoomProofs` proves, for any set of questions and any bounds, type correctness,
`NeverStranded`, `StoredMovesForward`, `UndisturbedIsKept` and `UndisturbedIsSubmitted`.
The invariant: the queue is totally ordered (`Total`), each question's versions are in the
order stored, under way, queued, shown (`InOrder`; it needs no mishap excluded but
"undone"), and without mishaps the answer under way is the first queued (`InHand`) and
while any submit is posted nothing is queued or typed, also when another one has failed
(`AtEnd`). Only model-checked: `EventuallyStored` (liveness).

## 4. Results of a term

### The code

Marks come from CA entry (`exam/results.ts enterScore`, checked by `ca/access.ts
validateCaContext`), moderation, hand marking and the papers
themselves. `compileClassResults` totals, grades and ranks a class and stores
`subject_results` with a fingerprint, a hash of all it read, in the audit log.
`transitionClassResults` moves a class between draft, compiled, reviewed, published and
locked, and before each sign-off compares that fingerprint with the class as it is.
Entry, compilation and transitions hold an advisory lock on the term; scripts handed in,
registrations, moves, standing and subjects change without it.

### The modules

`ResultRules` has the pure part: totals, ranking under every policy (`Position`) and the
lifecycle's table. `Results` has the state. What holds the lock only for a moment is one
action; a compilation and a transition are two (`Begin...` takes the lock and reads,
`Finish...` writes), with everything unlocked free to happen between; `Abandon` is a
failed one. Between the two, `inputs()` is one snapshot: its statements are close
together, and none of them reads what another has read. The fingerprint is the data
itself (a hash without collisions).

Left out: roles and written reasons, remarks and notifications sent on publication,
several papers or CA components for a subject, `updatedAt`, which is part of the real
fingerprint (so the model's fingerprint is the weaker one).

### Runs

| run | shows |
|---|---|
| `results` | what is signed off is complete; a closed result is never rewritten; students who stay in a class are signed off exactly as compiling the class would store them; a class nobody is moved into can be reopened |

Bounds: two students, a core subject examined on paper attempts and an elective with a
written mark, marks 0 and 1 (a tie, a win and a missing mark), two classes of which one
has students, two changes besides any number of compilations and transitions. Two
changes are what a stale fingerprint needs: one to make it stale, one to bring it back.
`CHECK_DEADLOCK FALSE`: the changes are bounded.

Noted on the way, in the model and without a run: a class that receives a student whose
rows are in another stage can neither be compiled nor moved until he leaves (so
`CanBeReopened` leaves such classes out); a withdrawn student's published rows are out
of reach when the class is reopened; a subject retired and the class compiled loses its
rows; `setStudentSubjects` protects what has scores in `assessment_scores`, not what has
an attempt only (`students.ts:1118`); coming back from withdrawal leaves the enrolment
inactive (`students.ts:608-610` says otherwise); a moderation's compilation is a second
transaction that may be refused.

### Proofs

`ResultsProofs` proves the four properties of the run, its types and the order of the
lifecycle for every school, policy and bound:
`Inv` is the types, `RowsInv` (closed rows are complete), `AuditInv` (what a class was
last compiled to is what the rows of its staying students hold, unless removed),
`OneStage` (a closed row of a class's steady students means all theirs are in its stage)
and `JobInv` (what the lock's holder found out before it writes still holds: only it
writes rows that are closed or closing). Three lemmas about ranking stand on their own: in a
cohort of n a position is one of 1..n, better work has a strictly better position, and
equal work shares one exactly when the policy is not ordinal.

## 5. Promotion

### The code

`proposePromotion` judges a year group by its rules and published results and stores a
batch with a decision per student; overrides change decisions; `commitPromotion` enrols
everybody in the next session or graduates him; `reversePromotion` takes that back.
Meanwhile the office moves, withdraws and reinstates students, removes and revives
classes, changes the rules and the current session.

### The modules

`PromotionRules` judges a summarised year and finds the class a student goes to.
`Promotion` is the roll (`row`, one enrolment per student and session, with ids because
the latest one counts), standing, classes, and the batches with their decisions. Each
operation is one transaction and one step: the interleaving is of operations, and batches
overlap freely.

Left out: how averages are taken over terms and subjects, capacity, audit and notices,
rules given for a single proposal.

### Runs

| run | shows |
|---|---|
| `promotion` | a commit loses nobody; decisions are explainable by what was stored with them; repeaters stay; commit and reversal leave the year's own session alone |

Bounds: two students, two sessions, three classes on two levels (so an arm may be
missing above, and the top level graduates), two batches (one after a reversal, or of
both levels into the same session), two overrides or changes around them.
`CHECK_DEADLOCK FALSE`: both are bounded.

Also in the model, without a run: a reversal deletes whatever row a student of the batch
has in the next session, also one that another batch or the office wrote
(`promotion.ts:554`; `:537` says "only the to-session enrollments this batch wrote"); a
student withdrawn or a class archived between
proposal and commit is enrolled, or enrolled into, all the same (`promotion.ts:501`; what
that and a reversal do to rooms, classes and logins is checked in section 8).
Not in it: two transactions at once. The check for an open proposal and the insert are two
statements without a unique index (`promotion.ts:306`), so two proposals at once leave two
open, and a commit racing an override has no lock either.

### Proofs

`PromotionProofs` proves the four properties of the run, its types, that one proposal is
open at a time and that a decided batch is frozen, for any number of students, sessions,
classes and batches. The invariant `BatchesOK` says of each batch that its
two sessions differ (so that neither commit nor reversal can touch the one promoted
from), and of each decision that a repeater's class is his own and that the outcome
proposed is what the batch's rules make of the year kept with it. A commit then never
writes a row without a class: `Committable` refuses for those who move, and repeaters
have one. `BetterIsNotJudgedWorse` is a lemma about the rules of interest to a school:
whatever the thresholds, a year no worse than another, in as many subjects, is never
judged worse.

## 6. From questions to papers

### The code

Teachers write question sets while the office has a collection open (`sets.ts`,
`collection.ts`). An examination's set has an objective and a theory half, handed in
together and reviewed each on its own; CA tests and practice papers are approved as they
are handed in. All of that holds the authoring lock. `composeSeries` makes a paper for
every subject and level with enough approved questions and copies the questions' ids;
`scheduleSeries` and `reschedulePaper` give papers a day, `publishSeries` opens them.
None of these takes a lock, nor does `deleteSet`.

### The module

`ExamPapers` has one action per operation, and two for those whose gap matters: a compose
decides what to make (`ComposeRead`, kept in `job`) and then copies the questions there
are (`ComposeWrite`); a publication checks the papers there are (`PublishRead`, kept in
`checked`) and then publishes the drafts there are (`PublishWrite`). Anything of another
request may lie between, and either may fail.

| state | code |
|---|---|
| `status`, `sitting` | `exam_series.status` ("gone" once deleted) and its sitting window |
| `collecting` | the collection in the school's settings; none also outside its dates |
| `sets`, `questions` | `question_sets`, `questions` (one scope per set: bank, term, subject and level, stream, half) |
| `papers` | `exam_papers` with their `paper_questions`; `placed` is whether it has a day |
| `last` | the highest ids given: ids are never given twice |

Abstractions. Wording checks, passages, roles and assignments, and durations are left out.
A compose that handles several subjects reads them all before it writes; in the code the
second subject is read after the first is written, which the run (one subject) does not
tell apart. Scheduling, rescheduling and deleting are one step each, although they check
before they write; so a series deleted while it is composed, or a paper deleted while it
is published, is not shown. A CA test differs from an examination in its bank and in being
approved at once, which the practice series has as well.

The vault is not modelled. `restoreSet` inserts a row it read from jsonb, so `createdAt`
is a string (`vault.ts:150`); drizzle-orm 0.38.4, which the lock file pins, calls
`toISOString` on it and throws. A restore of a missing question therefore never succeeds,
ends `restoreSchool` with it, and no test tries one; the comment above `deleteSet`
(`sets.ts:627-629`) relies on it. Repaired, it would break `ApprovedIsWhole`: it takes the
oldest copy (`vault.ts:128`), whose questions may be pending, and the set stays approved.

### Runs

| run | shows |
|---|---|
| `exam_papers` | papers hold approved questions of their own subject and bank only, and never too few unless emptied by a deletion; an approved set is approved throughout; a paper that was checked is published with a day |

Bounds: an examination and a practice series (which differ in bank, approval, delivery
and timetable), one subject, two sets (the halves of one examination, or a set of either
series), two questions (a practice paper needs both, an examination one), two papers (one
and its double, or one of each series), two officers at once. Ids are not reused: a
deleted row still counts. It never deadlocks, as the office can always close a collection.

Also in the model, without a run: a paper composed between the check and the publication
is published without a day, although "a formal examination cannot be published with
unscheduled papers" (`compose.ts:589-591`; `PublishedHasADay` is about the papers the check
saw, and says the rest has no other cause); composing again sets a published series back to
`composed` (`compose.ts:394`); a set may be deleted in any state, which empties the papers
composed from it, published or not (`sets.ts:641`); an examination also composes from
terminal sets of another term (`poolCandidates` does not look at it, `compose.ts:207`).
Times, lengths and invigilators are in `Timetable` (section 7).

### Proofs

`ExamPapersProofs` proves, for any number of series, subjects, sets, questions, papers and
officers, type correctness, `PoolsAreApproved`, `PreparingHasNoPapers`, `ApprovedIsWhole`
and `PublishedHasADay`. The invariant is about what a request has read and not yet used:
a set it has chosen is, if it is still there, the approved set it was (`JobsAreSound`),
because only a deletion touches an approved set; a paper it has seen is, if it is still
there, the same paper and keeps its day (`ChecksAreSound`); both because ids are never
given twice (`Known`).

`NoneOrEnough` needs little counting in the proof, although the code counts: it needs that
what was counted is still whole when it is copied. `JobsAreEnough` says of a compose under
way that the set it has chosen is gone, or still has as many approved questions as a student
answers; `PoolsAreWhole`, that a question on a typed paper brings all the approved questions
of its set with it, and that they are enough. Both last because an approved set neither
gains nor loses a question while it is there (`ApprovedSetStays`), and a deletion takes the
questions of the set off every paper at once.

## 7. The timetable and its invigilators

### The code

A timetable is no table: a paper's row holds its time (`scheduled_at`), its end
(`closes_at`), its length and its invigilator. `scheduleSeries` lays a series out in slots
of a day and looks at nothing else; `reschedulePaper` moves one paper and refuses one that
would clash for its class, unless forced; `setPaperInvigilator` and `proposeInvigilation`
find somebody who neither teaches the paper nor watches another at that time. None of them
locks what it reads.

### The module

`Timetable` has `at`, `ends`, `length` and `watch` for these columns. Moving, assigning
and proposing are a `...Read`, whose result is kept in `doing[o]`, and a `...Write`; laying
out, publishing and clearing are one step. The staff office changes who teaches what and
who is in service. Time is counted in ticks, a day being `Day` of them, with slots at
`Morning` and `Afternoon`, the two times of day the code knows. Levels stand for classes,
as they do in the code, which puts a representative class on the row.

`timed`, `layout`, `duty`, `learned` and `stale` are history: how a paper got its time and
its invigilator, and whether another transaction committed between the read and the write.

### The run

| run | shows |
|---|---|
| `timetable` | whatever `invigilationDrift` reports has one of the causes the code knows (an override, a moved paper, an overtaken assignment, a proposal that looks at one series); a level sits two papers at once only after an override, an overtaken move or a layout over an old end; a layout of at most two slots a day never collides while its papers fit their slots |

Bounds: two papers of one examination and one of the next, all of one level; two officers
(two transactions that overlap) and two teachers, of whom one teaches the first paper's
subject; short papers and papers that reach from the morning into the afternoon; one
layout of one day, three transactions or changes of the staff office. `MCInit` starts from
one assignment of subjects instead of all. `CHECK_DEADLOCK FALSE`: transactions and
layouts are bounded.

Also in the model, without a run: `scheduleSeries` never writes `closes_at` (section 12),
so papers only laid out clash with nothing, and `proposeInvigilation`, which looks at
published papers with an end, assigns nobody after a plain layout and publication and
reports nothing unfilled; with three or four slots a day every slot after the first is at
13:00 (`compose.ts:495`); a paper longer than the time between its slot and the next
overlaps; rescheduling neither checks nor clears the invigilator; a paper a later layout
does not place keeps its old time; a proposal sees the duties of its own series only. Left
out: halls, access codes (a random string on the paper's row), and notices.

### Proofs

They are the second half of `ExamRoomProofs`, and prove the types and both properties, for
any number of officers, papers, levels, staff and days. `TimetableInv` adds to the
properties what an officer who is not `stale` has read (`TimetableReadHolds`): a move
clashes with nothing unless that was overridden; whoever is to be assigned does not teach
the paper and, unless that was overridden, watches no other in its window; the assignments
of a proposal clash neither with each other nor with those of its series. Series are
published as a whole (`WholeSeriesPublished`): a proposal looks at published papers only,
and would miss duties in a series of which a part is not. `LaidOut` says of papers of one
level and one layout that each is at the slot of its number, so that two of them are a
day, or half of one, apart. Assumed of the constants, beside their types: from the morning
slot to the afternoon's is no longer than from there to the next morning's (`2 * Afternoon
<= Day + 2 * Morning`; the code has 09:00 and 13:00, `compose.ts:495`).

`OfficersInTurnDoNotClash` says what overlapping costs: if no transaction wrote that another
had written behind (`TimetableInTurn`), an overtaken move or assignment would no longer be
among the causes, and all the others would.

## 8. Pupils and their classes

### The code

`people/students.ts` writes four rows of a pupil: standing (`students.status`), the account
(`users.status`), the seat of each session (`enrollments`) and the registered subjects.
Registering, approving, placing, standing and subjects are one transaction each, at READ
COMMITTED, without a lock; so are creating, changing and removing classes
(`school/classes.ts`) and entering a score (`exam/results.ts`). `registerStudent` counts the
class's pupils long before it writes the seat, and `enterScore` looks at the registration
long before it writes the score. A promotion (section 5) writes seats and standing, too.

### The module

`Students`: an operation begins with its reads and checks, which are kept in `txn[t]`, and
ends with its writes (`...Commits`) or rolls back.

| action | code |
|---|---|
| `RegisterStudent`, `ApproveStudent`, `MoveStudent`, `UpdateStudent`, `SetStudentStanding`, `SetStudentSubjects`, `RegisterCoreForClass` | the function of that name in `people/students.ts` |
| `RemoveEmptyClass`, `CreateClass`, `UpdateClass` | `removeClass`, `createClasses`, and the limit `updateClass` writes, in `school/classes.ts` |
| `EnterScore` | `enterScore` (`exam/results.ts`) after `validateCaContext` (`ca/access.ts`) |
| `TransferStudent` | `moveStudent` (`promotion/promotion.ts`), which may also graduate |
| `CommitPlacement`, `CommitGraduation`, `ReversePromotion` | what a batch committed or reversed does to one of its pupils |
| `NextSession` | `setPeriod` |

`CreateClass`, `UpdateClass`, `NextSession` and the steps of a batch decide on none of these
rows, and are one step. An actor is the office or the teacher of a class. A batch is
written one pupil at a time, so whatever can come between two pupils of it can come in the
model; `promoted` is the committed batch a pupil is in, one at most. Of several active seats
`moveStudent` takes the newest, the model any.

Everything else is history: `raced` (pupils written by a transaction after another had
committed), `unasked` and `unchecked` (seated by a way that does not ask for room, in a class
that was gone), `razed` (classes removed by an overtaken transaction), `cut` (classes given a
limit below the pupils they had) and `stranded` (put back on the books by a reversal, without
a login).

### The run

| run | shows |
|---|---|
| `students` | a class is fuller than its limit only if the limit was set below the pupils it had, or by approvals, promotions and overtaken transactions; an active seat is in a class that has not been removed, but for an approval, the edit form, a batch or an overtaken transaction; whoever is on the books or waiting to be can sign in and whoever is suspended or has left cannot, but for overtaken decisions and reversals; a subject with a score stays registered, unless the score or the registration was overtaken |

Bounds: two pupils, two classes of different stages, each with no limit or a limit of one,
set and lifted at any time (`Capacities`); a core subject and an elective of each stage; two
transactions at once, four in all, of which changes of a limit and steps of a batch are some;
two sessions. Pupils, transactions, and the two classes with their stages are symmetric.
`CHECK_DEADLOCK FALSE`: transactions are bounded.

The exceptions are the code's:

* `updateClass` sets a limit without counting the pupils (`classes.ts:270`); `createClasses`
  writes none, and a class that is revived keeps the one it had;
* an approval asks neither for room nor for the class (`students.ts:647`), and a batch for
  neither (`promotion.ts:501`); `moveStudent` asks for the class but not for room;
* `removeClass` does not count seats that wait for approval (`classes.ts:303`), and the edit
  form places without asking whether the class is still there;
* a graduate keeps his login: `commitPromotion` and `moveStudent` write `students.status` and
  leave `users.status` as it is (`promotion.ts:492-494`). So nothing is claimed of graduates;
* a pupil who left after the proposal, whom the batch graduates all the same, is `active`
  once the batch is reversed, and has no login (`promotion.ts:561`): `stranded`. His standing
  must be set to something else and back before he can sign in;
* `setStudentStanding` to active on a pupil who waits for approval leaves the seat waiting,
  and a withdrawn pupil never gets the seat back (section 12); editing a pupil of a full class
  is refused.

### Proofs

They are the second half of `PromotionProofs`, and prove the types and the four properties,
for any number of pupils, classes, limits, subjects, sessions and transactions. None of the
properties is inductive: the writes trust what was read. `StudentsInv` adds what is true of
a transaction that has checked and not yet written (`StudentTxnOK`): its shape, whatever
others did, and, as long as nobody has committed since (`stale`), what it checked
(`StudentReadHolds`): for a registration or a move, there is room; for a registration, the
class is there; for an approval, the pupil waits for it; for a removal, the class is empty;
for subjects, everything scored is among what will be registered; for a score, its subject is
registered. Opening and rolling back change nothing that was read, and every commit, a new
limit and a step of a batch among them, makes the other open transactions stale.

`PupilsInTurnAreInOrder` removes the exception for meetings: if no transaction committed that
another had overtaken (`StudentsInTurn`), what is left is limits set too low, approvals and
promotions for room; approvals, the edit form and batches for seats in removed classes; and
the pupils a reversal put back for the login. Registration follows for every pupil.

## 9. Staff and their duties

### The code

`people/staff.ts`: a person is a row of `staff` and an account, each with a role and a
status; a duty is an active row of `staff_assignments`. Whoever is principal is read, and
acted on later in the transaction, by registering, editing, standing down and
reactivating.

### The module

`Staffing`, shaped as `Students`: `RegisterStaff`, `UpdateStaff` (the role and its
transfer), `StandDownStaff`, `ReactivateStaff`, `AssignHead`, `AssignPost`, each with its
`...Commits`, and `DropAssignment`. `heads` counts the rows of a class teacher, because the
unique index takes two rows whose subject is null for different ones. It starts with the
principal the school was created with (`platform/schools.ts`). `raced`, `met` and
`abandoned` are history.

### The run

| run | shows |
|---|---|
| `staffing` | never two accounts with the principal's powers, and always one that can sign in, unless two decisions met or the role went to somebody who had left; a class has one class teacher, and who has left holds nothing and cannot sign in |

Bounds: the principal and two others (a transfer, its target and a rival), a class and a
subject in it, two transactions at once, six in all. `CHECK_DEADLOCK FALSE`: transactions
are bounded.

Also in the model: two transfers at once make two principals (`staff.ts:300`), and one that
overtakes a departure none; a role moved to somebody who has left leaves a principal who
cannot sign in; standing down races an assignment and leaves a duty without a person; a
class teacher assigned twice has two active rows. Duties in a removed class stay active.

### Proofs

They are the second half of `AccountsProofs`, and prove the types and the three properties,
for any number of staff, classes, posts and transactions. `StaffingInv` is built as
`StudentsInv`, with `StaffingTxnOK` for the transactions; it also says that the account
always shows the role and the service of the row (`AccountFollowsStaff`), which no property
states and all of them need, because sign-in looks at the account and the checks at the row.

`StaffInTurnAreInOrder` removes the exceptions but one: without transactions that commit
although overtaken, a school has one principal, a class one class teacher and nobody who has
left a duty; the role moved to somebody who had left (`abandoned`) remains.

## 10. Accounts

### The code

`lib/auth`. A request of an account's owner is several transactions with slow work between
them: hashing runs outside any transaction. Signing in reads the account, counts a failure
or resets the counter, and opens a session; with two-step on the session is pending until
a code is verified, used, and the session promoted. A change of the password writes the
password and ends the sessions in transactions of their own; a reset link is claimed in one
and takes effect in later ones; two-step is turned on or off in one and its recovery codes
are issued or deleted in the next.

### The module

`Accounts` is one account (accounts share no rows) with its sessions, links and recovery
codes. `req[r]` holds what a request has read and where it goes on; each transaction is an
action (`SignInRight`, `FinaliseSuccess`, `CreateSession`; `ReadPending`, `VerifyRead`,
`VerifyRight`, `FinalizePending`; `ChangeRead`, `ChangeWrite`, `Revoke`; `UseLink`,
`ResetWrite`; and so on), and `Dies` ends a request between any two. The office resets
passwords, stands the owner down and reinstates. A link travels by `EmailContract`
(section 11), of which `Mail` is an instance. Passwords, secrets and codes are numbers;
what is typed is right or wrong. The throttle in front only refuses and is left out.

A wrong password or code is counted at the sign-in and at its second step, and only there: a
wrong one given to change the password (`change-password.ts:58`), to turn two-step off or
issue codes (`totp-account.ts:126`, `:159`), to confirm it (`:99`) or to set an address
(`recovery-email.ts:119`) is refused and changes no row. Such refusals are no steps of the
model, and no property says that they count.

`failures`, `uncounted`, `effects`, `spent`, `passed`, `proven`, `swapped` and `overlapped`
are history: what happened, against which the rows are held. `uncounted` are the wrong
guesses met while another was read and not yet written, and those whose request died before
it wrote them; `swapped` the secrets written while a request that had checked a code for
another was about to turn two-step on.

### The run

| run | shows |
|---|---|
| `accounts` | a link changes the password at most once, and a used one has changed it, is about to, or died with its request; no session gets past the second step without a code, and no code lets two in while requests take turns; when a change of password is over no session of an older password is left; two-step is on only with a secret its owner has shown, or one that replaced it while a confirmation was under way, and requests that take turns and do not die leave a full set of recovery codes exactly while it is on; the counter misses no wrong guesses but those that met another still to be written or died, and for requests that take turns and do not die it is their number |

Bounds: two requests at once, five in all, with one that dies; two sessions, one link,
three recovery codes issued one at a time, two failures to the lock. `CHECK_DEADLOCK
FALSE`: requests are bounded.

What the rules above do not promise, the code does not keep (section 12):

* two wrong guesses at once count once: each writes the number it read plus one
  (`credentials.ts:164`, `:192`, and the same at the second step), so the lock may come
  later than after `Allowed` of them; the later write may also put a smaller number over a
  larger one;
* a set-up started again (`startTotpEnrollment`) between the check and the write of
  `confirmTotpEnrollment` (`totp-account.ts:94-105`) is turned on without a code having been
  given for its secret, and shuts out an owner whose authenticator has the old one.

Also in the model: two sign-ins at once may both be let in by one recovery code, and
issuing codes twice at once leaves two sets (both excluded by `overlapped`); a reset that
dies between claim and change costs the link (`recovery.ts:231`, `:262`); the lock is not
looked at when a session is used, although `session-store.ts:17` says so.

### Proofs

`AccountsProofs` proves type correctness and all five properties, for any number of
requests at once, any lockout, any number of codes and all bounds. Each property has an
invariant of its own, which says of every request under way what its last transaction has
established. `LinkInv`: a used link is held by at most one request that has still to write
the password, and has then had no effect. `PassInv`: who is about to promote a session has
had a code accepted for it. `CodeInv`: codes are issued in order, a fresh one has let
nobody in, and an accepted one is fresh until it is marked, while requests take turns.
`PasswordInv`: a session of an older password is about to be ended. `CountInv`: the
counter, and every count about to be written, misses at most what is `uncounted`, whatever
overlaps or dies. `GuessInv`: while requests take turns and none has died, a failure is on
the row, or in the hands of the one request that met it. `SecretInv`: the secret on the
row is proven or swapped as soon as two-step is on or a request is about to turn it on,
whatever overlaps; while requests take turns and none has died, the codes in force are one
set, which is there while two-step is on, but for the request that is about to issue or
delete it. `Alone` (while no two requests have met, one is under way at most) carries them
across the actions of other requests.

Assumptions: the lockout is a positive number, the number of codes and the bounds are
naturals.

## 11. The email queue

### The code

A mail is a row of `email_events`, written with whatever caused it. A drain is one
transaction for a school: it reads the oldest queued rows, and for each bumps `attempts`,
calls the provider and marks the row. The provider does not roll back with the transaction.
The scheduled job drains one active school after the other and goes on when one throws; a
principal may drain his own school from the portal at the same time.

### The modules

* `EmailContract`: a mail that was queued is never queued again, and is settled as sent
  only when the provider has it.
* `EmailOutbox`: `Claim`, `Deliver`, `Refuse` (with or without the provider having
  accepted the mail, as an answer may be lost), `Commit` and `RollBack` of a drain;
  `JobStarts`, `JobTakes`, `JobDies` and `PortalDrains`; `QueueEmail`, `Suspend`,
  `Reactivate`. Rows marked in a transaction are in `txn` until it commits.

`ImplementsContract` is `EmailContract` with its `handed` replaced by the mails the
provider has accepted at least once (`INSTANCE ... WITH`).

### The run

| run | shows |
|---|---|
| `email_outbox` | the drain implements the contract; a mail is handed over again only for a transaction that died or ran beside another; under `FairSpec` every queued mail of a school that stays active is settled, behind a mail that is refused or a job that dies |

Bounds: a school with two mails and a school with none, `Limit` 1 so that a second drain
is needed for the second mail, the job and the portal, one fault, one drain from the
portal, one suspension. `CHECK_DEADLOCK FALSE`: everything may be sent. Fairness: the job
is run every five minutes (`inngest/functions.ts:98`) and its transactions go on; nothing
is assumed of the portal but that a drain it began ends, nor of faults, which are bounded.
A mail transport is taken to be configured: without the provider's key and an address to
send from `drainAllQueuedEmails` drains nothing and reports so (`email-drain.ts:124`),
which its comment names a supported state, and mail then stays queued.

### Proofs

`EmailOutboxProofs` proves, for any number of mails, schools and drains at once, type
correctness, that the queue implements `EmailContract`, and `RepeatsHaveACause`. The first
invariant, `Inv`, says of each open transaction that a mail is on its list, in its hands or
marked, never two of these, and that what it marked as sent the provider has: the database
shows none of it until the commit, so without it nothing is known of what a commit writes.
`CountInv` counts for each mail the times it was handed over and the drains that may still
do so, against the transactions that died and the drains asked for in the portal; a mail not
settled that no job carries leaves room for one more. Assumed: mails are a finite set of
numbers, drains are a finite set of which the job is one, and neither `None` nor `Platform`
is a mail or a school. `QueuedIsSettled` is liveness and is model-checked only.

## 12. What the documentation says and the code does not do

Each is a definition of the module named, found violated by TLC on the bounds of the run
(with the definition as an invariant, `EveryMailIsSettled` and `EveryoneIsSignedOffAsCompiled`
as a property). They are in no configuration: what the runs check is what does hold.

| statement | module, definition | what the code does |
|---|---|---|
| "Their saved answers are marked as they stand" (`invigilate.ts:396`) | `AttemptEngine`, `MarkedAsTheyStand` | a save checked before a submit and written after it is stored and never marked (`engine.ts:271`) |
| "previous answers are cleared" (`sessions.ts:158`) | `AttemptEngine`, `NothingIsCarried` | an answer stored between the DELETE and the UPDATE of a reattempt, by a save that read the attempt open, is still there in the new sitting (`sessions.ts:188-190`) |
| "A failed post goes back on the queue and is retried" (`ExamRoom.tsx:16-17`) | `ExamRoom`, `ShownIsKept` | an answer chosen while the one before it is posted is taken off the queue in its place (`ExamRoom.tsx:143`) |
| what is signed off is what was compiled (`workflow.ts:200`) | `Results`, `EveryoneIsSignedOffAsCompiled` | a student compiled in another class and moved back is signed off with a position among the other class (`results.ts:155`) |
| a promoted student joins a class of the next level (`promotion.ts:107`) | `Promotion`, `PromotedMovesUp` | a repeater promoted by an override is enrolled in the class he is to leave (`promotion.ts:370`) |
| "RE-COMPOSING DOES NOT DUPLICATE" (`compose.ts:14`) | `ExamPapers`, `OnePaper` | of two composes at once neither sees the other's paper (`compose.ts:312`) |
| `closes_at` is the time and the length together (`attempts.ts:61-66`) | `Timetable`, `NoStaleEnd` | `scheduleSeries` moves a paper and leaves its end |
| "Approving or reactivating flips the enrolment back" (`students.ts:608-610`) | `Students`, `ReinstatedIsSeated` | reactivating does not (`students.ts:612`) |
| "Never leave a school with no principal" (`staff.ts:333`) | `Staffing`, `AlwaysAPrincipal` | only the demotion of the last one is refused: the role may be handed to somebody who has left, which demotes the incumbent (`staff.ts:300`) |
| "Every other session is ended" (`change-password.ts:101`) | `Accounts`, `OldPasswordsAreAlwaysOut` | a sign-in under way with the old password opens its session after the others were ended |
| "keeps a half-finished enrollment harmless" (`totp-account.ts:5`) | `Accounts`, `TwoStepIsAlwaysProven` | a set-up started again between the check and the write of a confirmation is turned on, its secret never shown (`totp-account.ts:103`) |
| "Count a failed attempt into the lockout counters" (`credentials.ts:183`) | `Accounts`, `GuessesAreAlwaysCounted` | two wrong guesses at once write the same number (`credentials.ts:164`) |
| "the same Inngest drain" delivers recovery mail (`recovery.ts:23`) | `EmailOutbox`, `EveryMailIsSettled` | mail of platform accounts has no school, and no drain reads it (with `SchoolOf <- MCPlatformMail`) |
| "a crashed drain does not resend indefinitely" (`email.ts:125`) | `EmailOutbox`, `HandOversAreCounted` | `attempts` is bumped in the transaction that sends, and rolls back with it |

## 13. What stays with TLC, and what is left out

Liveness (`OverdueIsClosed`, `EventuallyStored`, `QueuedIsSettled`) and `ENABLED` are out of
the proof system's reach, and so is induction over data; no recursive definition is used in
the modules proved about. Everything else the runs check is also proved, for every value of
the constants that the named assumptions allow: each safety invariant, action property and
refinement is the statement of a theorem.

A component's proofs are in `<module>Proofs`; those of `Staffing`, `Students` and
`Timetable` share a module with a component next to them (`AccountsProofs`,
`PromotionProofs`, `ExamRoomProofs`) and use nothing of it. The definitions of these three
have names of their own (`StaffingSpec`, `StudentsTypeOK`, ...) for that reason.
The proofs are about the TLA+ modules: that these say what the TypeScript does is a matter
of reading both, for which `PROJECT.json` gives the lines of each definition.

Not modelled, and why:

* access codes, remarks, transcripts, guardians' invitations, subjects: single rows written
  by one statement or behind a unique index, that no other component decides on;
* `markSeeded` (`subjects/service.ts:124`), which writes the school's settings back as it read
  them, without the configuration lock: settings saved meanwhile are lost. It is run once,
  while a school is set up;
* the question vault, whose restore cannot succeed (section 6);
* notices and messages (rows written with the caller's transaction, read by nobody who
  decides on them), pages, dashboards and summaries (queries), platform administration
  beyond the first principal and suspension, the help centre, generated SQL, scripts and
  load tests, and the text of forms, the larger part of the repository: they keep no state;
* row-level security (enforced by PostgreSQL, with tests of its own) and backups (files).

The database is taken to do what it documents at READ COMMITTED.

What could be added: the roll of `Students` shared with `Promotion` and `Results`; `ExamRoom`
over `AttemptContract` instead of its own server; the transactions of `Promotion` split at
their reads.
