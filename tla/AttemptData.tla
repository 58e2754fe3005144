----------------------------- MODULE AttemptData -----------------------------
(***************************************************************************)
(* What the engine keeps of one paper: the rows of `attempts` and of       *)
(* `attempt_answers`, and the pure parts of the handlers that write them.  *)
(*                                                                         *)
(* One paper is enough: every statement of the engine is keyed by attempt  *)
(* id, and (paper, student) is unique, so a student stands for the one     *)
(* attempt he can have.  The order in which a paper's questions are shown  *)
(* is abstracted to the set that was drawn, a score to the set of          *)
(* questions credited.                                                     *)
(***************************************************************************)
EXTENDS Integers, FiniteSetsExt

CONSTANTS
    Students,       \* students registered for the subject of the paper
    Questions,      \* the paper's question pool (paper_questions)
    Objective,      \* those with a marked option: the rest is theory
    Options,        \* what an answer can hold
    Key,            \* the correct option of each objective question
    QuestionCount,  \* exam_papers.question_count; 0 asks for the whole pool
    Duration,       \* exam_papers.duration_seconds, in clock units
    Window,         \* the times at which a new attempt is admitted
    Extensions,     \* the extensions an invigilator may grant
    Closers,        \* who submits: the candidate, or forced by an invigilator
    Null            \* SQL null, and "no such row"

ASSUME PaperAssumption ==
    /\ IsFiniteSet(Questions) /\ Questions # {}
    /\ Objective \subseteq Questions
    /\ Key \in [Objective -> Options]
    /\ QuestionCount \in Nat

ASSUME TimeAssumption ==
    /\ Duration \in Nat
    /\ Window \subseteq Nat
    /\ Extensions \subseteq Nat

ASSUME CloserAssumption == Closers \subseteq {"candidate", "forced"}

(***************************************************************************)
(* Bounds of the model: the handlers have none of them.                    *)
(***************************************************************************)
CONSTANTS
    Clock,          \* the times the clock shows
    MaxExtension,   \* total extension of one sitting
    MaxSittings,    \* first sitting plus reattempts
    MaxIncidents    \* integrity incidents of one sitting

ASSUME BoundAssumption ==
    /\ Clock \subseteq Nat
    /\ {MaxExtension, MaxSittings, MaxIncidents} \subseteq Nat

(***************************************************************************)
(* Rows.                                                                   *)
(***************************************************************************)
Closed == {"submitted", "auto_submitted"}

Status == {"in_progress"} \union Closed

Attempt ==
    [status : Status,
     expiresAt : Nat,
     extension : Nat,
     order : SUBSET Questions,
     score : {Null} \union SUBSET Questions,
     forced : BOOLEAN,
     incidents : Nat]

ASSUME NullAssumption ==
    /\ Null \notin Options
    /\ Null \notin Attempt
    /\ \A S \in SUBSET Questions : S # Null

\* No row, or null in the column: an answer that was never saved has no mark.
NoAnswers == [q \in Questions |-> Null]
Unmarked == [q \in Questions |-> "unmarked"]

\* The questions of a new attempt: as many of the pool as the paper asks for.
Take ==
    IF QuestionCount > 0 /\ QuestionCount < Cardinality(Questions)
    THEN QuestionCount
    ELSE Cardinality(Questions)

Opened(order, time) ==
    [status |-> "in_progress", expiresAt |-> time + Duration, extension |-> 0,
     order |-> order, score |-> Null, forced |-> FALSE, incidents |-> 0]

\* Mutants: a column the reset forgets.
ReopenedStillExtended(a, time) == [Opened(a.order, time) EXCEPT !.extension = a.extension]
ReopenedStillScored(a, time) == [Opened(a.order, time) EXCEPT !.score = a.score]

\* grantReattempt resets every column but the questions drawn.
Reopened(a, time) == Opened(a.order, time)

Deadline(a) == a.expiresAt + a.extension

Extended(a, d) ==
    [a EXCEPT !.extension = @ + d, !.expiresAt = @ + d]

(***************************************************************************)
(* Marking.  `seen' is what the marker read of the answers, `rows' the     *)
(* answers stored when the marks are written, `old' the marks before.      *)
(***************************************************************************)
Markable(order) == order \intersect Objective

Credited(order, seen) == {q \in Markable(order) : seen[q] = Key[q]}

Marked(order, seen, rows, old) ==
    [q \in Questions |->
        IF q \in Markable(order) /\ seen[q] # Null /\ rows[q] # Null
        THEN IF seen[q] = Key[q] THEN "full" ELSE "zero"
        ELSE old[q]]

ClosedAs(a, mode, seen) ==
    [a EXCEPT !.status = IF mode = "auto" THEN "auto_submitted" ELSE "submitted",
              !.score = Credited(a.order, seen),
              !.forced = @ \/ mode = "forced"]

Marks == {"unmarked", "zero", "full"}
Modes == Closers \union {"auto"}
=============================================================================
