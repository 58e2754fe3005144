------------------------------ MODULE Students ------------------------------
(***************************************************************************)
(* The pupils of a school: src/lib/people/students.ts, with the classes    *)
(* they are placed in (src/lib/school/classes.ts) and the session they are *)
(* placed for.  Registering, moving, approving, a change of standing and   *)
(* the registration of subjects are each one transaction that reads,       *)
(* checks, and writes later without having locked what it read: at READ    *)
(* COMMITTED another may commit in between.  txn[t] holds what transaction *)
(* t has read and is about to write; its writes are one step.              *)
(*                                                                         *)
(* A promotion (src/lib/promotion) seats pupils and lets them go too.  A   *)
(* batch is written here one pupil at a time, and a pupil is in one        *)
(* committed batch at most; how a batch decides is Promotion's matter.     *)
(*                                                                         *)
(* Names, photographs and guardians are left out, and so are admission     *)
(* numbers: a unique index refuses a number twice, and a refused           *)
(* registration leaves nothing.  Import registers one pupil after another. *)
(***************************************************************************)
EXTENDS Integers, FiniteSets

CONSTANTS
    Pupils, ClassIds, Subjects,
    Capacities,     \* what classes.capacity may be set to; 0 is no limit
    Offered,        \* the subjects of a class's stage
    Core,           \* the compulsory ones
    Slots,          \* transactions that may be open at once
    Office,         \* the school-wide roles, as an actor
    None

ASSUME StudentsAssumption ==
    /\ IsFiniteSet(Pupils)
    /\ Capacities \subseteq Nat /\ 0 \in Capacities
    /\ Offered \in [ClassIds -> SUBSET Subjects]
    /\ Core \subseteq Subjects
    /\ Office \notin ClassIds
    /\ None \notin Pupils \union ClassIds

(***************************************************************************)
(* Bounds of the model: transactions, and sessions.                        *)
(***************************************************************************)
CONSTANTS MaxStarted, MaxSessions

ASSUME BoundAssumption == MaxStarted \in Nat /\ MaxSessions \in Nat \ {0}

SessionIds == 1..MaxSessions

\* An actor is the office, or the class teacher of a class.
Actors == ClassIds \union {Office}

VARIABLES
    status,         \* students.status, "none" before the row exists
    login,          \* the pupil's users.status is 'active'
    seat,           \* enrollments: of each session, at most one per pupil
    open,           \* the classes whose status is 'active'
    capacity,       \* classes.capacity
    session,        \* the current academic session
    registered,     \* student_subjects of the current session
    scored,         \* subjects with an assessment score in it
    promoted,       \* the committed promotion batch a pupil is in
    txn,            \* open transactions
    started

\* Only history.
VARIABLES
    raced,          \* pupils written by a transaction after another had committed
    unasked,        \* pupils seated without a question whether the class has room
    unchecked,      \* pupils seated in a class that had been removed
    razed,          \* classes removed after another transaction had committed
    cut,            \* classes given a limit below the pupils they had
    stranded        \* pupils put back on the books by a reversal, without a login

studentsHistory == <<raced, unasked, unchecked, razed, cut, stranded>>
studentsVars == <<status, login, seat, open, capacity, session, registered, scored, promoted,
                  txn, started, raced, unasked, unchecked, razed, cut, stranded>>

Standings == {"none", "pending_approval", "active", "suspended", "withdrawn", "expelled",
              "graduated"}

Seat == [class : ClassIds \union {None},
         status : {"none", "pending_approval", "active", "inactive"}]
NoSeat == [class |-> None, status |-> "none"]

\* A committed batch about one pupil: where it took him, or that it let him go.
Batches == [to : SessionIds, graduates : BOOLEAN]
NoBatch == [to |-> 0, graduates |-> FALSE]

\* status: the standing decided; found: the seat there was, which may be deleted since;
\* subjects, todo: what is to be written; stale: another transaction has committed since.
Closed == [op |-> "none", pupil |-> None, class |-> None, session |-> 1, status |-> "none",
           found |-> "nothing", subjects |-> {}, todo |-> {}, stale |-> FALSE]

Txn == [op : {"none", "register", "move", "transfer", "standing", "approve", "remove",
              "subjects", "core", "score"},
        pupil : Pupils \union {None}, class : ClassIds \union {None}, session : SessionIds,
        status : Standings, found : {"nothing", "row", "deleted"}, subjects : SUBSET Subjects,
        todo : SUBSET (Pupils \X Subjects), stale : BOOLEAN]

StudentsTypeOK ==
    /\ status \in [Pupils -> Standings]
    /\ login \in [Pupils -> BOOLEAN]
    /\ seat \in [SessionIds -> [Pupils -> Seat]]
    /\ open \subseteq ClassIds
    /\ capacity \in [ClassIds -> Capacities]
    /\ session \in SessionIds
    /\ registered \in [Pupils -> SUBSET Subjects]
    /\ scored \in [Pupils -> SUBSET Subjects]
    /\ promoted \in [Pupils -> Batches \union {NoBatch}]
    /\ txn \in [Slots -> Txn]
    /\ started \in 0..MaxStarted
    /\ raced \subseteq Pupils /\ unasked \subseteq Pupils /\ unchecked \subseteq Pupils
    /\ razed \subseteq ClassIds /\ cut \subseteq ClassIds
    /\ stranded \subseteq Pupils

\* createClasses sets no limit.
StudentsInit ==
    /\ status = [p \in Pupils |-> "none"]
    /\ login = [p \in Pupils |-> FALSE]
    /\ seat = [k \in SessionIds |-> [p \in Pupils |-> NoSeat]]
    /\ open = ClassIds
    /\ capacity = [c \in ClassIds |-> 0]
    /\ session = 1
    /\ registered = [p \in Pupils |-> {}]
    /\ scored = [p \in Pupils |-> {}]
    /\ promoted = [p \in Pupils |-> NoBatch]
    /\ txn = [t \in Slots |-> Closed]
    /\ started = 0
    /\ raced = {} /\ unasked = {} /\ unchecked = {}
    /\ razed = {} /\ cut = {} /\ stranded = {}

-----------------------------------------------------------------------------
(***************************************************************************)
(* Transactions, and what they read.                                       *)
(***************************************************************************)
Known(p) == status[p] # "none"

Seated(k, c) == {p \in Pupils : seat[k][p].class = c /\ seat[k][p].status = "active"}

HasRoomForOneMore(c) == capacity[c] = 0 \/ Cardinality(Seated(session, c)) <= capacity[c]

HasRoom(c) == capacity[c] = 0 \/ Cardinality(Seated(session, c)) < capacity[c]

MayPlace(a, c) == a = Office \/ a = c

\* Of any session: the query does not name one.
MayTouch(a, p) == a = Office \/ \E k \in SessionIds : p \in Seated(k, a)

Starts == started < MaxStarted /\ started' = started + 1

\* Transaction t has read and checked, and will write as `read` says.
Opens(t, read) ==
    /\ txn[t].op = "none"
    /\ Starts
    /\ txn' = [txn EXCEPT ![t] = read]
    /\ UNCHANGED <<status, login, seat, open, capacity, session, registered, scored,
                   promoted, studentsHistory>>

\* Its writes reach the database; every other transaction has read before them.
Commits(t, op) ==
    /\ txn[t].op = op
    /\ txn' = [u \in Slots |-> IF u = t \/ txn[u].op = "none" THEN Closed
                               ELSE [txn[u] EXCEPT !.stale = TRUE]]
    /\ raced' = IF txn[t].stale /\ txn[t].pupil # None THEN raced \union {txn[t].pupil}
                ELSE raced
    /\ UNCHANGED <<capacity, session, promoted, started, cut>>

\* A step that is a transaction of its own.
CommitsAtOnce == txn' = [u \in Slots |-> IF txn[u].op = "none" THEN Closed
                                         ELSE [txn[u] EXCEPT !.stale = TRUE]]

\* A unique index refuses the write, or a statement fails.
RollsBack(t) ==
    /\ txn[t].op # "none"
    /\ txn' = [txn EXCEPT ![t] = Closed]
    /\ UNCHANGED <<status, login, seat, open, capacity, session, registered, scored,
                   promoted, started, studentsHistory>>

-----------------------------------------------------------------------------
(***************************************************************************)
(* Registration and approval.                                              *)
(***************************************************************************)
RegisterStudent(t, a, p, c) ==
    /\ ~Known(p)
    /\ \A u \in Slots : txn[u].pupil # p
    /\ MayPlace(a, c)
    /\ c \in open
    /\ HasRoom(c)
    /\ Opens(t, [Closed EXCEPT
                    !.op = "register", !.pupil = p, !.class = c, !.session = session,
                    !.status = IF a = Office THEN "active" ELSE "pending_approval"])

RegisterCommits(t) ==
    LET w == txn[t] IN
    /\ Commits(t, "register")
    /\ status' = [status EXCEPT ![w.pupil] = w.status]
    /\ login' = [login EXCEPT ![w.pupil] = TRUE]
    /\ seat' = [seat EXCEPT ![w.session][w.pupil] = [class |-> w.class, status |-> w.status]]
    /\ UNCHANGED <<open, registered, scored, unasked, unchecked, razed, stranded>>

ApproveAnyone(t, p) ==
    /\ Known(p)
    /\ Opens(t, [Closed EXCEPT !.op = "approve", !.pupil = p])

ApproveStudent(t, p) ==
    /\ status[p] = "pending_approval"
    /\ Opens(t, [Closed EXCEPT !.op = "approve", !.pupil = p])

\* Neither room nor the class is asked for again.
ApproveCommits(t) ==
    LET p == txn[t].pupil
        Waiting(k) == seat[k][p].status = "pending_approval" IN
    /\ Commits(t, "approve")
    /\ status' = [status EXCEPT ![p] = "active"]
    /\ seat' = [k \in SessionIds |->
                    IF Waiting(k) THEN [seat[k] EXCEPT ![p].status = "active"] ELSE seat[k]]
    /\ unasked' = IF \E k \in SessionIds : Waiting(k) THEN unasked \union {p} ELSE unasked
    /\ unchecked' = IF \E k \in SessionIds : Waiting(k) /\ seat[k][p].class \notin open
                    THEN unchecked \union {p} ELSE unchecked
    /\ UNCHANGED <<login, open, registered, scored, razed, stranded>>

-----------------------------------------------------------------------------
(***************************************************************************)
(* Placing: moveStudentWithinTx, from the roster or from the edit form.    *)
(***************************************************************************)
Places(t, p, c) ==
    LET now == seat[session][p] IN
    /\ Known(p)
    /\ HasRoom(c)
    /\ now.class # c
    /\ Opens(t, [Closed EXCEPT !.op = "move", !.pupil = p, !.class = c, !.session = session,
                               !.found = IF now = NoSeat THEN "nothing" ELSE "row"])

MoveStudent(t, a, p, c) ==
    /\ MayPlace(a, c)
    /\ MayTouch(a, p)
    /\ c \in open
    /\ Places(t, p, c)

\* The form's select may still offer a class that has been removed since.
UpdateStudent(t, a, p, c) ==
    /\ MayTouch(a, p)
    /\ c \notin open
    /\ Places(t, p, c)

\* A seat that was found keeps the status it has now, and one that is gone is not written;
\* a new seat must still be free.
Reseats(w) ==
    LET now == seat[w.session][w.pupil] IN
    /\ w.found = "nothing" => now = NoSeat
    /\ seat' = IF w.found = "deleted" THEN seat
               ELSE [seat EXCEPT ![w.session][w.pupil] =
                        [class |-> w.class,
                         status |-> IF w.found = "row" THEN now.status ELSE "active"]]
    /\ unchecked' = IF w.class \in open THEN unchecked ELSE unchecked \union {w.pupil}

MoveCommits(t) ==
    /\ Commits(t, "move")
    /\ Reseats(txn[t])
    /\ UNCHANGED <<status, login, open, registered, scored, unasked, razed, stranded>>

-----------------------------------------------------------------------------
(***************************************************************************)
(* Standing.  Leaving gives up every seat; coming back restores none.      *)
(***************************************************************************)
Left == {"withdrawn", "expelled"}

SetStudentStanding(t, p, decided) ==
    /\ Known(p)
    /\ status[p] # decided
    /\ Opens(t, [Closed EXCEPT !.op = "standing", !.pupil = p, !.status = decided])

GivenUp(s) == IF s.status = "active" THEN [s EXCEPT !.status = "inactive"] ELSE s

StandingCommits(t) ==
    LET w == txn[t] IN
    /\ Commits(t, "standing")
    /\ status' = [status EXCEPT ![w.pupil] = w.status]
    /\ login' = [login EXCEPT ![w.pupil] = w.status = "active"]
    /\ seat' = IF w.status \in Left
               THEN [k \in SessionIds |-> [seat[k] EXCEPT ![w.pupil] = GivenUp(@)]]
               ELSE seat
    /\ stranded' = stranded \ {w.pupil}
    /\ UNCHANGED <<open, registered, scored, unasked, unchecked, razed>>

-----------------------------------------------------------------------------
(***************************************************************************)
(* Classes and sessions.                                                   *)
(***************************************************************************)
RemoveCounted(t, c) ==
    /\ c \in open
    /\ Seated(session, c) = {}
    /\ Opens(t, [Closed EXCEPT !.op = "remove", !.class = c])

\* Active seats of every session are counted, but not those that wait for approval.
RemoveEmptyClass(t, c) ==
    /\ c \in open
    /\ \A k \in SessionIds : Seated(k, c) = {}
    /\ Opens(t, [Closed EXCEPT !.op = "remove", !.class = c])

RemoveCommits(t) ==
    LET w == txn[t] IN
    /\ Commits(t, "remove")
    /\ open' = open \ {w.class}
    /\ razed' = IF w.stale THEN razed \union {w.class} ELSE razed
    /\ UNCHANGED <<status, login, seat, registered, scored, unasked, unchecked, stranded>>

\* createClasses revives the row of a removed class, which keeps the limit it had.
CreateClass(c) ==
    /\ c \notin open
    /\ open' = open \union {c}
    /\ CommitsAtOnce
    /\ UNCHANGED <<status, login, seat, capacity, session, registered, scored, promoted,
                   started, studentsHistory>>

\* Whoever is in the class is not counted.
UpdateClass(c, limit) ==
    /\ Starts
    /\ capacity[c] # limit
    /\ capacity' = [capacity EXCEPT ![c] = limit]
    /\ cut' = IF limit > 0 /\ \E k \in SessionIds : Cardinality(Seated(k, c)) > limit
              THEN cut \union {c} ELSE cut \ {c}
    /\ CommitsAtOnce
    /\ UNCHANGED <<status, login, seat, open, session, registered, scored, promoted, raced,
                   unasked, unchecked, razed, stranded>>

\* setPeriod: nobody has a seat or a subject in the new session.
NextSession ==
    /\ session < MaxSessions
    /\ session' = session + 1
    /\ registered' = [p \in Pupils |-> {}]
    /\ scored' = [p \in Pupils |-> {}]
    /\ CommitsAtOnce
    /\ UNCHANGED <<status, login, seat, open, capacity, promoted, started, studentsHistory>>

-----------------------------------------------------------------------------
(***************************************************************************)
(* What a promotion does to a pupil's seats and standing.  The login is    *)
(* left as it is.                                                          *)
(***************************************************************************)
\* promotion.ts moveStudent: the class must be there, but is not asked for room.  Of
\* several active seats the newest moves; any of them here.
TransferStudent(t, p, c, outcome) ==
    LET Takes(k, found) ==
            Opens(t, [Closed EXCEPT !.op = "transfer", !.pupil = p, !.class = c,
                                    !.session = k, !.status = outcome, !.found = found]) IN
    /\ Known(p)
    /\ c \in open
    /\ \/ \E k \in SessionIds : seat[k][p].status = "active" /\ Takes(k, "row")
       \/ /\ \A k \in SessionIds : seat[k][p].status # "active"
          /\ Takes(session, "nothing")

TransferCommits(t) ==
    LET w == txn[t] IN
    /\ Commits(t, "transfer")
    /\ Reseats(w)
    /\ status' = IF w.status = "graduated" THEN [status EXCEPT ![w.pupil] = "graduated"]
                 ELSE status
    /\ unasked' = unasked \union {w.pupil}
    /\ UNCHANGED <<login, open, registered, scored, razed, stranded>>

\* On the roll of another session when the batch was proposed, though perhaps not now.
CommitsBatch(p, to, graduates) ==
    /\ Starts
    /\ promoted[p] = NoBatch
    /\ \E from \in SessionIds \ {to} : seat[from][p].status \in {"active", "inactive"}
    /\ promoted' = [promoted EXCEPT ![p] = [to |-> to, graduates |-> graduates]]
    /\ CommitsAtOnce
    /\ UNCHANGED <<login, open, capacity, session, registered, scored, raced, razed, cut,
                   stranded>>

\* commitPromotion: neither room nor the class is asked for.
CommitPlacement(p, c, to) ==
    /\ CommitsBatch(p, to, FALSE)
    /\ seat' = [seat EXCEPT ![to][p] = [class |-> c, status |-> "active"]]
    /\ unasked' = unasked \union {p}
    /\ unchecked' = IF c \in open THEN unchecked ELSE unchecked \union {p}
    /\ UNCHANGED status

CommitGraduation(p, to) ==
    /\ CommitsBatch(p, to, TRUE)
    /\ status' = [status EXCEPT ![p] = "graduated"]
    /\ UNCHANGED <<seat, unasked, unchecked>>

\* reversePromotion: a graduate is active again; whoever is moving the seat will not find
\* it.
ReversePromotion(p) ==
    LET b == promoted[p]
        Returns == b.graduates /\ status[p] = "graduated"
        Loses(u) == /\ txn[u].op \in {"move", "transfer"} /\ txn[u].found = "row"
                    /\ txn[u].pupil = p /\ txn[u].session = b.to IN
    /\ Starts
    /\ b # NoBatch
    /\ promoted' = [promoted EXCEPT ![p] = NoBatch]
    /\ seat' = [seat EXCEPT ![b.to][p] = NoSeat]
    /\ status' = IF Returns THEN [status EXCEPT ![p] = "active"] ELSE status
    /\ stranded' = IF Returns /\ ~login[p] THEN stranded \union {p} ELSE stranded
    /\ txn' = [u \in Slots |->
                  IF txn[u].op = "none" THEN Closed
                  ELSE [txn[u] EXCEPT !.stale = TRUE,
                                      !.found = IF Loses(u) THEN "deleted" ELSE @]]
    /\ UNCHANGED <<login, open, capacity, session, registered, scored, raced, unasked,
                   unchecked, razed, cut>>

-----------------------------------------------------------------------------
(***************************************************************************)
(* Subjects.                                                               *)
(***************************************************************************)
\* By the stage of the class of an active seat; without one, every subject.
OfferedTo(p) ==
    LET s == seat[session][p] IN IF s.status = "active" THEN Offered[s.class] ELSE Subjects

ChooseUnprotected(t, a, p, electives) ==
    /\ MayTouch(a, p)
    /\ seat[session][p].status # "none"
    /\ Opens(t, [Closed EXCEPT !.op = "subjects", !.pupil = p, !.session = session,
                               !.subjects = OfferedTo(p) \intersect (Core \union electives)])

\* What has a score stays, whatever the form says.
SetStudentSubjects(t, a, p, electives) ==
    /\ MayTouch(a, p)
    /\ seat[session][p].status # "none"
    /\ Opens(t, [Closed EXCEPT !.op = "subjects", !.pupil = p, !.session = session,
                               !.subjects = (OfferedTo(p) \intersect (Core \union electives))
                                            \union scored[p]])

\* The rows of the session that was read are deleted and written again.
SubjectsCommit(t) ==
    LET w == txn[t] IN
    /\ Commits(t, "subjects")
    /\ registered' = IF w.session = session THEN [registered EXCEPT ![w.pupil] = w.subjects]
                     ELSE registered
    /\ UNCHANGED <<status, login, seat, open, scored, unasked, unchecked, razed, stranded>>

\* For the whole class, only what is missing.
RegisterCoreForClass(t, a, c) ==
    LET missing == {x \in Seated(session, c) \X (Core \intersect Offered[c]) :
                        x[2] \notin registered[x[1]]} IN
    /\ MayPlace(a, c)
    /\ missing # {}
    /\ Opens(t, [Closed EXCEPT !.op = "core", !.class = c, !.session = session,
                               !.todo = missing])

\* One row that is there by now fails them all.
CoreCommits(t) ==
    LET w == txn[t] IN
    /\ Commits(t, "core")
    /\ w.session = session => \A x \in w.todo : x[2] \notin registered[x[1]]
    /\ registered' = IF w.session = session
                     THEN [p \in Pupils |-> registered[p]
                             \union {x[2] : x \in {y \in w.todo : y[1] = p}}]
                     ELSE registered
    /\ UNCHANGED <<status, login, seat, open, scored, unasked, unchecked, razed, stranded>>

\* A teacher of the subject enters a score, or another one, for a pupil on the class's
\* list; the row is written by statements after those that read the list.
EnterScore(t, p, x) ==
    /\ seat[session][p].status = "active" /\ status[p] = "active"
    /\ seat[session][p].class \in open
    /\ x \in registered[p]
    /\ Opens(t, [Closed EXCEPT !.op = "score", !.pupil = p, !.session = session,
                               !.subjects = {x}])

ScoreCommits(t) ==
    LET w == txn[t] IN
    /\ Commits(t, "score")
    /\ scored' = IF w.session = session THEN [scored EXCEPT ![w.pupil] = @ \union w.subjects]
                 ELSE scored
    /\ UNCHANGED <<status, login, seat, open, registered, unasked, unchecked, razed,
                   stranded>>

-----------------------------------------------------------------------------
Begins(t) ==
    \/ \E p \in Pupils, a \in Actors, c \in ClassIds :
        RegisterStudent(t, a, p, c) \/ MoveStudent(t, a, p, c) \/ UpdateStudent(t, a, p, c)
    \/ \E p \in Pupils : ApproveStudent(t, p)
    \/ \E p \in Pupils, decided \in {"active", "suspended", "withdrawn", "expelled"} :
        SetStudentStanding(t, p, decided)
    \/ \E c \in ClassIds : RemoveEmptyClass(t, c)
    \/ \E a \in Actors, p \in Pupils, electives \in SUBSET (Subjects \ Core) :
        SetStudentSubjects(t, a, p, electives)
    \/ \E a \in Actors, c \in ClassIds : RegisterCoreForClass(t, a, c)
    \/ \E p \in Pupils, c \in ClassIds, outcome \in {"none", "graduated"} :
        TransferStudent(t, p, c, outcome)
    \/ \E p \in Pupils, x \in Subjects : EnterScore(t, p, x)

Ends(t) ==
    \/ RegisterCommits(t) \/ ApproveCommits(t) \/ MoveCommits(t) \/ StandingCommits(t)
    \/ RemoveCommits(t) \/ SubjectsCommit(t) \/ CoreCommits(t) \/ TransferCommits(t)
    \/ ScoreCommits(t) \/ RollsBack(t)

AtOnce ==
    \/ \E c \in ClassIds : CreateClass(c)
    \/ \E c \in ClassIds, limit \in Capacities : UpdateClass(c, limit)
    \/ \E p \in Pupils, c \in ClassIds, to \in SessionIds : CommitPlacement(p, c, to)
    \/ \E p \in Pupils, to \in SessionIds : CommitGraduation(p, to)
    \/ \E p \in Pupils : ReversePromotion(p)
    \/ NextSession

StudentsNext ==
    \/ \E t \in Slots : Begins(t) \/ Ends(t)
    \/ AtOnce

StudentsSpec == StudentsInit /\ [][StudentsNext]_studentsVars

-----------------------------------------------------------------------------
(***************************************************************************)
(* A class that has a limit is fuller than it only because the limit was   *)
(* set below the pupils it had (updateClass), or by pupils who were seated *)
(* without a question for room (an approval, a promotion) or written after *)
(* another transaction had taken the room that was counted                 *)
(* (assertClassHasRoom).                                                   *)
(***************************************************************************)
RoomIsKept ==
    \A k \in SessionIds, c \in ClassIds \ cut :
        capacity[c] > 0 =>
            Cardinality(Seated(k, c) \ (raced \union unasked)) <= capacity[c]

(***************************************************************************)
(* Nobody is enrolled in nothing: an active seat is in a class that has    *)
(* not been removed, except after a meeting of two transactions, or when   *)
(* an approval, the edit form or a promotion batch seated the pupil in a   *)
(* class removed before (removeClass).                                     *)
(***************************************************************************)
SeatsAreInClasses ==
    \A k \in SessionIds, c \in ClassIds \ (open \union razed) :
        Seated(k, c) \subseteq raced \union unchecked

(***************************************************************************)
(* Whoever is on the school's books or waiting to be can sign in, and a    *)
(* pupil who was suspended or has left cannot, unless two decisions about  *)
(* the pupil met (setStudentStanding, approveStudent), or the reversal of  *)
(* a promotion put back a pupil whose login was disabled.  A graduate may  *)
(* have a login or none.                                                   *)
(***************************************************************************)
LoginFollowsStanding ==
    \A p \in Pupils \ raced :
        /\ status[p] \in {"active", "pending_approval"} => login[p] \/ p \in stranded
        /\ status[p] \in {"suspended", "withdrawn", "expelled"} => ~login[p]

(***************************************************************************)
(* What a pupil has a score in stays registered, whoever registers what,   *)
(* unless the registration or the score was written after another          *)
(* transaction had committed (setStudentSubjects, enterScore).             *)
(***************************************************************************)
ScoredIsRegistered == \A p \in Pupils \ raced : scored[p] \subseteq registered[p]

-----------------------------------------------------------------------------
(***************************************************************************)
(* "Approving or reactivating flips the enrolment back"                    *)
(* (src/lib/people/students.ts): whoever is on the books again has the     *)
(* seat of the current session back that leaving gave up.  It is not so;   *)
(* in no configuration.                                                    *)
(***************************************************************************)
ReinstatedIsSeated ==
    \A p \in Pupils \ raced : status[p] = "active" => seat[session][p].status # "inactive"
=============================================================================
