------------------------------ MODULE Timetable ------------------------------
(***************************************************************************)
(* When the papers of a school's examinations are sat and who watches      *)
(* them: scheduleSeries and publishSeries of src/lib/exam/compose.ts, and  *)
(* src/lib/exam/timetable.ts.  A timetable is no table of its own: the     *)
(* time, the end and the invigilator of a paper are columns of its row.    *)
(*                                                                         *)
(* Moving a paper, assigning somebody and proposing a roster read other    *)
(* rows before they write theirs, in a transaction that locks none of      *)
(* them, so what has been read is kept in doing[o] until officer o's       *)
(* transaction writes.  scheduleSeries writes without looking at anything, *)
(* and is one step.                                                        *)
(*                                                                         *)
(* A paper belongs to a level; the class on its row is one of that level's *)
(* and stands for it.  Times are ticks of a clock, and no time is 0.       *)
(***************************************************************************)
EXTENDS Integers, FiniteSets

CONSTANTS
    Officers,       \* of the examination office, one transaction each at a time
    Papers,         \* in the order scheduleSeries lays them out
    Series, SeriesOf, LevelOf,
    Staff, Nobody,
    Teachers,       \* staff whose role is teacher; only they are proposed
    Day,            \* ticks from one sitting day to the next
    Morning, Afternoon,     \* the two times of a day scheduleSeries knows: 9 and 13 o'clock
    FirstDays,      \* on which a layout may begin
    Times, Lengths  \* what a paper may be moved to

ASSUME TimetableAssumption ==
    /\ Papers \subseteq Nat
    /\ SeriesOf \in [Papers -> Series] /\ LevelOf \in [Papers -> Nat]
    /\ Nobody \notin Staff /\ Teachers \subseteq Staff
    /\ Times \subseteq Nat \ {0} /\ Lengths \subseteq Nat \ {0}
    /\ FirstDays \subseteq Nat
    /\ {Day, Morning, Afternoon} \subseteq Nat \ {0}
    /\ Morning < Afternoon /\ Afternoon < Day
    \* From the afternoon to the next morning is no shorter than from the morning to it.
    /\ 2 * Afternoon <= Day + 2 * Morning

(***************************************************************************)
(* Bounds of the model: transactions that read together with the changes   *)
(* of the staff office, layouts, and the days of one.                      *)
(***************************************************************************)
CONSTANTS MaxStarted, MaxLayouts, MaxDays

ASSUME BoundAssumption == {MaxStarted, MaxLayouts, MaxDays} \subseteq Nat

VARIABLES
    at, ends, length,   \* exam_papers: scheduled_at, closes_at, duration_seconds
    watch,              \* invigilator_staff_id
    published,          \* papers that are; the others are drafts
    sitting,            \* series with a sitting window
    teaches,            \* who teaches the subject of which paper to its class
    active,             \* staff in service
    doing,              \* the transaction of each officer
    started, layouts    \* counted against the bounds

\* Only history: what no row says.
VARIABLES
    timed,      \* how a paper got its time
    layout,     \* the layout that placed it in one of two slots a day, or 0
    duty,       \* how its invigilator came to watch it, and what has happened since
    learned,    \* papers whose invigilator may teach them since that was looked up
    stale       \* officers with a transaction that others have written behind

timetableHistory == <<timed, layout, duty, learned, stale>>
timetableVars == <<at, ends, length, watch, published, sitting, teaches, active, doing,
                   started, layouts, timed, layout, duty, learned, stale>>

NothingRead == [what |-> "idle"]
Moves == [what : {"move"}, paper : Papers, at : Nat, length : Nat, forced : BOOLEAN]
Assigns == [what : {"assign"}, paper : Papers, to : Staff, forced : BOOLEAN]
Proposes == [what : {"propose"}, plan : UNION {[S -> Staff \union {Nobody}] : S \in SUBSET Papers}]

TimetableTypeOK ==
    /\ at \in [Papers -> Nat] /\ ends \in [Papers -> Nat] /\ length \in [Papers -> Nat]
    /\ watch \in [Papers -> Staff \union {Nobody}]
    /\ published \subseteq Papers /\ sitting \subseteq Series
    /\ teaches \subseteq Staff \X Papers /\ active \subseteq Staff
    /\ doing \in [Officers -> {NothingRead} \union Moves \union Assigns \union Proposes]
    /\ started \in 0..MaxStarted /\ layouts \in 0..MaxLayouts
    /\ timed \in [Papers -> {"never", "checked", "raced", "forced", "laid"}]
    /\ layout \in [Papers -> 0..MaxLayouts]
    /\ duty \in [Papers -> {"none", "checked", "raced", "forced", "proposed", "moved"}]
    /\ learned \subseteq Papers
    /\ stale \subseteq Officers

\* Composed papers, without a time.
TimetableInit ==
    /\ at = [p \in Papers |-> 0] /\ ends = [p \in Papers |-> 0]
    /\ length \in [Papers -> Lengths]
    /\ watch = [p \in Papers |-> Nobody]
    /\ published = {} /\ sitting = {}
    /\ teaches \in SUBSET (Staff \X Papers) /\ active = Staff
    /\ doing = [o \in Officers |-> NothingRead]
    /\ started = 0 /\ layouts = 0
    /\ timed = [p \in Papers |-> "never"]
    /\ layout = [p \in Papers |-> 0]
    /\ duty = [p \in Papers |-> "none"]
    /\ learned = {}
    /\ stale = {}

-----------------------------------------------------------------------------
Pending(o) == doing[o] # NothingRead

\* What every officer outside O has read and not used yet is out of date.
Writes(O) == stale' = {o \in Officers \ O : Pending(o)}

Begin(o, read) ==
    /\ ~Pending(o)
    /\ started < MaxStarted
    /\ started' = started + 1
    /\ doing' = [doing EXCEPT ![o] = read]

\* What the checks of o's transaction are worth when it writes.
Checked(o) == IF doing[o].forced THEN "forced" ELSE IF o \in stale THEN "raced" ELSE "checked"

\* The rows of p and q say they are sat at the same time: null compares with nothing.
Windowed(p) == at[p] # 0 /\ ends[p] # 0
Overlap(p, q) ==
    /\ Windowed(p) /\ Windowed(q)
    /\ at[p] < ends[q] /\ at[q] < ends[p]

\* Somebody who watches a paper that is now sat at another time.
Retimed(p) == IF watch[p] # Nobody THEN "moved" ELSE duty[p]

-----------------------------------------------------------------------------
(***************************************************************************)
(* scheduleSeries: the papers of a level take the slots of the window one  *)
(* after the other, the levels independently.  Every slot but the first of *)
(* a day is in the afternoon, and nothing but scheduled_at is written.     *)
(***************************************************************************)
\* Papers of the same level that are laid out before p.
Before(p) == {q \in Papers : SeriesOf[q] = SeriesOf[p] /\ LevelOf[q] = LevelOf[p] /\ q < p}

SlotOf(p, first, slots) ==
    LET i == Cardinality(Before(p)) IN
    (first + i \div slots) * Day + (IF i % slots = 0 THEN Morning ELSE Afternoon)

Placed(s, days, slots) ==
    {p \in Papers : SeriesOf[p] = s /\ Cardinality(Before(p)) < days * slots}

ScheduleSeries(s, first, days, slots) ==
    LET P == Placed(s, days, slots) IN
    /\ layouts < MaxLayouts
    /\ \E p \in Papers : SeriesOf[p] = s
    /\ layouts' = layouts + 1
    /\ at' = [p \in Papers |-> IF p \in P THEN SlotOf(p, first, slots) ELSE at[p]]
    /\ sitting' = sitting \union {s}
    /\ timed' = [p \in Papers |-> IF p \in P THEN "laid" ELSE timed[p]]
    /\ layout' = [p \in Papers |-> IF p \in P THEN (IF slots <= 2 THEN layouts' ELSE 0)
                                             ELSE layout[p]]
    /\ duty' = [p \in Papers |-> IF p \in P THEN Retimed(p) ELSE duty[p]]
    /\ Writes({})
    /\ UNCHANGED <<ends, length, watch, published, teaches, active, doing, started, learned>>

\* publishSeries: every paper must have a time, and the series its window.
PublishSeries(s) ==
    LET P == {p \in Papers : SeriesOf[p] = s} IN
    /\ P # {} /\ s \in sitting
    /\ \A p \in P : at[p] # 0
    /\ ~(P \subseteq published)
    /\ published' = published \union P
    /\ Writes({})
    /\ UNCHANGED <<at, ends, length, watch, sitting, teaches, active, doing, started, layouts,
                   timed, layout, duty, learned>>

-----------------------------------------------------------------------------
(***************************************************************************)
(* reschedulePaper: the one operation that writes an end.                  *)
(***************************************************************************)
ClashesAtStart(p, t, n) ==
    \E q \in Papers \ {p} :
        /\ LevelOf[q] = LevelOf[p]
        /\ at[q] # 0 /\ at[q] <= t /\ t < ends[q]

\* Another paper of the class whose window, as its row has it, meets the new one.
Clashes(p, t, n) ==
    \E q \in Papers \ {p} :
        /\ LevelOf[q] = LevelOf[p]
        /\ Windowed(q) /\ at[q] < t + n /\ ends[q] > t

MoveRead(o, p, t, n, force) ==
    /\ force \/ ~Clashes(p, t, n)
    /\ Begin(o, [what |-> "move", paper |-> p, at |-> t, length |-> n,
                 forced |-> Clashes(p, t, n)])
    /\ UNCHANGED <<at, ends, length, watch, published, sitting, teaches, active, layouts,
                   timetableHistory>>

MoveWrite(o) ==
    LET d == doing[o]
        p == d.paper
    IN
    /\ d.what = "move"
    /\ doing' = [doing EXCEPT ![o] = NothingRead]
    /\ at' = [at EXCEPT ![p] = d.at]
    /\ ends' = [ends EXCEPT ![p] = d.at + d.length]
    /\ length' = [length EXCEPT ![p] = d.length]
    /\ timed' = [timed EXCEPT ![p] = Checked(o)]
    /\ layout' = [layout EXCEPT ![p] = 0]
    /\ duty' = [duty EXCEPT ![p] = Retimed(p)]
    /\ Writes({o})
    /\ UNCHANGED <<watch, published, sitting, teaches, active, started, layouts, learned>>

-----------------------------------------------------------------------------
(***************************************************************************)
(* setPaperInvigilator.                                                    *)
(***************************************************************************)
\* Somebody watches another paper in the window of p.
Watches(t, p) == \E q \in Papers \ {p} : watch[q] = t /\ Overlap(p, q)

AssignRead(o, p, to, force) ==
    /\ to \in active
    /\ <<to, p>> \notin teaches
    /\ force \/ ~Watches(to, p)
    /\ Begin(o, [what |-> "assign", paper |-> p, to |-> to, forced |-> Watches(to, p)])
    /\ UNCHANGED <<at, ends, length, watch, published, sitting, teaches, active, layouts,
                   timetableHistory>>

AssignWrite(o) ==
    LET d == doing[o]
        p == d.paper
    IN
    /\ d.what = "assign"
    /\ doing' = [doing EXCEPT ![o] = NothingRead]
    /\ watch' = [watch EXCEPT ![p] = d.to]
    /\ duty' = [duty EXCEPT ![p] = Checked(o)]
    /\ learned' = IF o \in stale THEN learned \union {p} ELSE learned \ {p}
    /\ Writes({o})
    /\ UNCHANGED <<at, ends, length, published, sitting, teaches, active, started, layouts,
                   timed, layout>>

ClearInvigilator(p) ==
    /\ watch[p] # Nobody
    /\ watch' = [watch EXCEPT ![p] = Nobody]
    /\ duty' = [duty EXCEPT ![p] = "none"]
    /\ learned' = learned \ {p}
    /\ Writes({})
    /\ UNCHANGED <<at, ends, length, published, sitting, teaches, active, doing, started, layouts,
                   timed, layout>>

-----------------------------------------------------------------------------
(***************************************************************************)
(* proposeInvigilation: the published papers of one series that have a     *)
(* window and nobody to watch them, in the order of their times, each to   *)
(* the teacher with the fewest of them so far who may and can.             *)
(***************************************************************************)
Rostered(s) == {p \in published : SeriesOf[p] = s /\ Windowed(p)}
Gaps(s) == {p \in Rostered(s) : watch[p] = Nobody}

\* A gap filled before p: earlier, or at the same time, where the subject decides.
Earlier(p, q) == at[q] < at[p] \/ (at[q] = at[p] /\ q < p)

\* Without what the plan has given him already.
BookedBefore(s, plan, p, t) == {q \in Rostered(s) : watch[q] = t}

\* Papers of the roster that t watches, or will by the plan when it comes to p.
Booked(s, plan, p, t) ==
    {q \in Rostered(s) : watch[q] = t \/ (q \in Gaps(s) /\ Earlier(p, q) /\ plan[q] = t)}

Free(s, plan, p) ==
    {t \in active \cap Teachers :
        /\ <<t, p>> \notin teaches
        /\ \A q \in Booked(s, plan, p, t) : ~Overlap(p, q)}

IsPlan(s, plan) ==
    \A p \in Gaps(s) :
        LET free == Free(s, plan, p) IN
        /\ plan[p] = Nobody <=> free = {}
        /\ plan[p] # Nobody =>
            /\ plan[p] \in free
            /\ \A t \in free : Cardinality(Booked(s, plan, p, plan[p]))
                                    <= Cardinality(Booked(s, plan, p, t))

ProposeRead(o, s) ==
    /\ Gaps(s) # {}
    /\ \E plan \in [Gaps(s) -> Teachers \union {Nobody}] :
        /\ IsPlan(s, plan)
        /\ Begin(o, [what |-> "propose", plan |-> plan])
    /\ UNCHANGED <<at, ends, length, watch, published, sitting, teaches, active, layouts,
                   timetableHistory>>

ProposeWrite(o) ==
    LET plan == doing[o].plan
        P == {p \in DOMAIN plan : plan[p] # Nobody}
    IN
    /\ doing[o].what = "propose"
    /\ doing' = [doing EXCEPT ![o] = NothingRead]
    /\ watch' = [p \in Papers |-> IF p \in P THEN plan[p] ELSE watch[p]]
    /\ duty' = [p \in Papers |-> IF p \in P THEN (IF o \in stale THEN "raced" ELSE "proposed")
                                           ELSE duty[p]]
    /\ learned' = IF o \in stale THEN learned \union P ELSE learned \ P
    /\ Writes({o})
    /\ UNCHANGED <<at, ends, length, published, sitting, teaches, active, started, layouts,
                   timed, layout>>

\* A transaction that fails writes nothing.
Fails(o) ==
    /\ Pending(o)
    /\ doing' = [doing EXCEPT ![o] = NothingRead]
    /\ stale' = stale \ {o}
    /\ UNCHANGED <<at, ends, length, watch, published, sitting, teaches, active, started, layouts,
                   timed, layout, duty, learned>>

-----------------------------------------------------------------------------
(***************************************************************************)
(* The staff office, which knows nothing of the timetable.                 *)
(***************************************************************************)
TeachingChanges(t, p) ==
    /\ started < MaxStarted
    /\ started' = started + 1
    /\ teaches' = IF <<t, p>> \in teaches THEN teaches \ {<<t, p>>} ELSE teaches \union {<<t, p>>}
    /\ learned' = IF watch[p] = t THEN learned \union {p} ELSE learned
    /\ Writes({})
    /\ UNCHANGED <<at, ends, length, watch, published, sitting, active, doing, layouts,
                   timed, layout, duty>>

ServiceChanges(t) ==
    /\ started < MaxStarted
    /\ started' = started + 1
    /\ active' = IF t \in active THEN active \ {t} ELSE active \union {t}
    /\ UNCHANGED <<at, ends, length, watch, published, sitting, teaches, doing, layouts,
                   timetableHistory>>

TimetableNext ==
    \/ \E s \in Series :
        \/ \E first \in FirstDays, days \in 1..MaxDays, slots \in 1..4 :
            ScheduleSeries(s, first, days, slots)
        \/ PublishSeries(s)
    \/ \E o \in Officers :
        \/ \E p \in Papers, force \in BOOLEAN :
            \/ \E t \in Times \union ({at[p]} \ {0}), n \in Lengths :
                MoveRead(o, p, t, n, force)
            \/ \E to \in Staff : AssignRead(o, p, to, force)
        \/ \E s \in Series : ProposeRead(o, s)
        \/ MoveWrite(o) \/ AssignWrite(o) \/ ProposeWrite(o) \/ Fails(o)
    \/ \E p \in Papers : ClearInvigilator(p) \/ \E t \in Staff : TeachingChanges(t, p)
    \/ \E t \in Staff : ServiceChanges(t)

TimetableSpec == TimetableInit /\ [][TimetableNext]_timetableVars

-----------------------------------------------------------------------------
(***************************************************************************)
(* Whatever invigilationDrift would report has a cause: somebody watches   *)
(* two papers at once only after an override, a change of their times or   *)
(* an assignment that overtook another, or because a proposal looks at one *)
(* examination alone; and a paper of his own only if it has become one     *)
(* since. Every other assignment, by hand or proposed, keeps both rules    *)
(* (timetable.ts:12-19).                                                   *)
(***************************************************************************)
DriftHasACause ==
    /\ \A p, q \in Papers :
        p # q /\ watch[p] = watch[q] /\ watch[p] # Nobody /\ Overlap(p, q) =>
            \/ {duty[p], duty[q]} \cap {"forced", "moved", "raced"} # {}
            \/ "proposed" \in {duty[p], duty[q]} /\ SeriesOf[p] # SeriesOf[q]
    /\ \A p \in Papers : <<watch[p], p>> \in teaches => p \in learned

(***************************************************************************)
(* A class sits two papers at once only after an override, a move that     *)
(* overtook another, or a layout over an end its row already had; and a    *)
(* layout of at most two slots a day never puts two papers of a level      *)
(* together, as long as none of them lasts from the morning into the       *)
(* afternoon (scheduleSeries and reschedulePaper, whose comments promise   *)
(* it).                                                                    *)
(***************************************************************************)
SatAtOnce(p, q) == at[p] < at[q] + length[q] /\ at[q] < at[p] + length[p]

ClassesSitOnePaper ==
    \A p, q \in Papers :
        p # q /\ LevelOf[p] = LevelOf[q] =>
            /\ Overlap(p, q) => {timed[p], timed[q]} \cap {"forced", "raced", "laid"} # {}
            /\ layout[p] = layout[q] /\ layout[p] # 0
                    /\ {length[p], length[q]} \subseteq 1 .. Afternoon - Morning =>
                ~SatAtOnce(p, q)

(***************************************************************************)
(* The comment on closes_at (db/schema/attempts.ts:61-66): it is the time  *)
(* and the length of the paper together, whatever moved it.                *)
(***************************************************************************)
NoStaleEnd == \A p \in Papers : ends[p] # 0 => ends[p] = at[p] + length[p]
=============================================================================
