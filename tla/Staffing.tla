------------------------------ MODULE Staffing ------------------------------
(***************************************************************************)
(* The staff of a school and what they are responsible for:                *)
(* src/lib/people/staff.ts.  A member of staff is a row of staff and an    *)
(* account in users, each with the role and a status of its own; a duty is *)
(* an active row of staff_assignments.  Registering, editing, standing     *)
(* down, reactivating and assigning are each one transaction that reads,   *)
(* checks and then writes, without having locked what it read.             *)
(*                                                                         *)
(* Names, numbers, photographs and notices are left out, and so are        *)
(* passwords and sessions (Accounts).                                      *)
(***************************************************************************)
EXTENDS Integers, FiniteSets

CONSTANTS
    Staff,
    First,          \* the principal the school was created with
    Classes,
    Posts,          \* a subject in a class
    Slots,          \* transactions that may be open at once
    None

ASSUME StaffingAssumption ==
    /\ IsFiniteSet(Staff) /\ First \in Staff
    /\ None \notin Staff \union Classes \union Posts
    /\ Classes \intersect Posts = {}

(***************************************************************************)
(* Bounds of the model: transactions, and class-teacher rows of one person *)
(* for one class.                                                          *)
(***************************************************************************)
CONSTANTS MaxTransactions, MaxRows

ASSUME StaffingBounds == MaxTransactions \in Nat /\ MaxRows \in Nat \ {0}

VARIABLES
    status,         \* staff.status, "none" before the row exists
    role,           \* staff.role
    login,          \* users.status is 'active'
    userRole,       \* users.role, which a session's capabilities come from
    heads,          \* active class_teacher rows of a person for a class
    teaches,        \* active subject_teacher rows
    txn,
    transactions

\* Only history.
VARIABLES
    raced,          \* staff and classes written after another transaction had committed
    met,            \* one of them gave, took or kept away the principal's role
    abandoned       \* the role was moved to somebody who had left

staffingHistory == <<raced, met, abandoned>>
staffingVars == <<status, role, login, userRole, heads, teaches, txn, transactions,
                  raced, met, abandoned>>

Roles == {"teacher", "vice_principal", "principal"}

\* seen: who was found to hold what is being given; stale: another has committed since.
Txn == [op : {"none", "register", "update", "stand_down", "reactivate", "head", "teach"},
        staff : Staff \union {None}, role : Roles, on : Classes \union Posts \union {None},
        seen : SUBSET Staff, stale : BOOLEAN]

Closed == [op |-> "none", staff |-> None, role |-> "teacher", on |-> None, seen |-> {},
           stale |-> FALSE]

StaffingTypeOK ==
    /\ status \in [Staff -> {"none", "active", "left"}]
    /\ role \in [Staff -> Roles]
    /\ login \in [Staff -> BOOLEAN]
    /\ userRole \in [Staff -> Roles]
    /\ heads \in [Staff -> [Classes -> 0..MaxRows]]
    /\ teaches \in [Staff -> SUBSET Posts]
    /\ txn \in [Slots -> Txn]
    /\ transactions \in 0..MaxTransactions
    /\ raced \subseteq Staff \union Classes
    /\ met \in BOOLEAN /\ abandoned \in BOOLEAN

\* createSchoolWithPrincipal: the first principal, and nobody else.
StaffingInit ==
    /\ status = [s \in Staff |-> IF s = First THEN "active" ELSE "none"]
    /\ role = [s \in Staff |-> IF s = First THEN "principal" ELSE "teacher"]
    /\ login = [s \in Staff |-> s = First]
    /\ userRole = role
    /\ heads = [s \in Staff |-> [c \in Classes |-> 0]]
    /\ teaches = [s \in Staff |-> {}]
    /\ txn = [t \in Slots |-> Closed]
    /\ transactions = 0
    /\ raced = {}
    /\ met = FALSE /\ abandoned = FALSE

-----------------------------------------------------------------------------
Known(s) == status[s] # "none"

Principals == {s \in Staff : status[s] = "active" /\ role[s] = "principal"}

\* Whose session passes assertManageStaff.
Managers == {s \in Staff : login[s] /\ userRole[s] \in {"principal", "vice_principal"}}

\* A transaction that decides who is the principal.
OfThePrincipal(w) ==
    /\ w.op \in {"register", "update", "stand_down", "reactivate"}
    /\ w.role = "principal" \/ role[w.staff] = "principal"

Opens(t, read) ==
    /\ Managers # {}
    /\ txn[t].op = "none"
    /\ transactions < MaxTransactions
    /\ transactions' = transactions + 1
    /\ txn' = [txn EXCEPT ![t] = read]
    /\ UNCHANGED <<status, role, login, userRole, heads, teaches, staffingHistory>>

\* The writes of t reach the database; every other open transaction has read before them.
Commits(t, op) ==
    /\ txn[t].op = op
    /\ txn' = [u \in Slots |-> IF u = t \/ txn[u].op = "none" THEN Closed
                               ELSE [txn[u] EXCEPT !.stale = TRUE]]
    /\ raced' = IF txn[t].stale
                THEN raced \union ({txn[t].staff, txn[t].on} \intersect (Staff \union Classes))
                ELSE raced
    /\ met' = (met \/ (txn[t].stale /\ OfThePrincipal(txn[t])))
    /\ UNCHANGED transactions

RollsBack(t) ==
    /\ txn[t].op # "none"
    /\ txn' = [txn EXCEPT ![t] = Closed]
    /\ UNCHANGED <<status, role, login, userRole, heads, teaches, transactions, staffingHistory>>

-----------------------------------------------------------------------------
(***************************************************************************)
(* Coming, going, and the role in between.                                 *)
(***************************************************************************)
RegisterStaff(t, s, r) ==
    /\ ~Known(s)
    /\ \A u \in Slots : txn[u].staff # s
    /\ r = "principal" => Principals = {}
    /\ Opens(t, [Closed EXCEPT !.op = "register", !.staff = s, !.role = r])

RegisterCommits(t) ==
    LET w == txn[t] IN
    /\ Commits(t, "register")
    /\ status' = [status EXCEPT ![w.staff] = "active"]
    /\ role' = [role EXCEPT ![w.staff] = w.role]
    /\ login' = [login EXCEPT ![w.staff] = TRUE]
    /\ userRole' = [userRole EXCEPT ![w.staff] = w.role]
    /\ UNCHANGED <<heads, teaches, abandoned>>

UpdateTheLast(t, s, r, confirmTransfer) ==
    /\ Known(s)
    /\ role[s] # r
    /\ r = "principal" /\ Principals \ {s} # {} => confirmTransfer
    /\ \E seen \in IF r = "principal" /\ Principals \ {s} # {}
                   THEN {{i} : i \in Principals \ {s}} ELSE {{}} :
        Opens(t, [Closed EXCEPT !.op = "update", !.staff = s, !.role = r, !.seen = seen])

\* A change of role.  The row is edited whatever its status; a transfer demotes one
\* incumbent, and the last principal is not demoted.
UpdateStaff(t, s, r, confirmTransfer) ==
    /\ Known(s)
    /\ role[s] # r
    /\ r = "principal" /\ Principals \ {s} # {} => confirmTransfer
    /\ role[s] = "principal" => Principals \ {s} # {}
    /\ \E seen \in IF r = "principal" /\ Principals \ {s} # {}
                   THEN {{i} : i \in Principals \ {s}} ELSE {{}} :
        Opens(t, [Closed EXCEPT !.op = "update", !.staff = s, !.role = r, !.seen = seen])

\* The incumbent's account keeps its role.
UpdateCommitsHalf(t) ==
    LET w == txn[t] IN
    /\ Commits(t, "update")
    /\ role' = [s \in Staff |-> IF s = w.staff THEN w.role
                                ELSE IF s \in w.seen THEN "vice_principal" ELSE role[s]]
    /\ userRole' = [userRole EXCEPT ![w.staff] = w.role]
    /\ abandoned' = (abandoned \/ (w.seen # {} /\ status[w.staff] = "left"))
    /\ UNCHANGED <<status, login, heads, teaches>>

UpdateCommits(t) ==
    LET w == txn[t]
        Now(before) == [s \in Staff |-> IF s = w.staff THEN w.role
                                        ELSE IF s \in w.seen THEN "vice_principal"
                                        ELSE before[s]] IN
    /\ Commits(t, "update")
    /\ role' = Now(role)
    /\ userRole' = Now(userRole)
    /\ abandoned' = (abandoned \/ (w.seen # {} /\ status[w.staff] = "left"))
    /\ UNCHANGED <<status, login, heads, teaches>>

Holds(s) == (\E c \in Classes : heads[s][c] > 0) \/ teaches[s] # {}

StandDownStaff(t, s, confirmReassign) ==
    /\ Known(s)
    /\ role[s] # "principal"
    /\ Holds(s) => confirmReassign
    /\ Opens(t, [Closed EXCEPT !.op = "stand_down", !.staff = s])

StandDownKeepsHeads(t) ==
    LET w == txn[t] IN
    /\ Commits(t, "stand_down")
    /\ status' = [status EXCEPT ![w.staff] = "left"]
    /\ teaches' = [teaches EXCEPT ![w.staff] = {}]
    /\ login' = [login EXCEPT ![w.staff] = FALSE]
    /\ UNCHANGED <<role, userRole, heads, abandoned>>

StandDownCommits(t) ==
    LET w == txn[t] IN
    /\ Commits(t, "stand_down")
    /\ status' = [status EXCEPT ![w.staff] = "left"]
    /\ heads' = [heads EXCEPT ![w.staff] = [c \in Classes |-> 0]]
    /\ teaches' = [teaches EXCEPT ![w.staff] = {}]
    /\ login' = [login EXCEPT ![w.staff] = FALSE]
    /\ UNCHANGED <<role, userRole, abandoned>>

\* The duties that standing down ended stay ended.
ReactivateStaff(t, s) ==
    /\ status[s] = "left"
    /\ role[s] = "principal" => Principals = {}
    /\ Opens(t, [Closed EXCEPT !.op = "reactivate", !.staff = s])

ReactivateCommits(t) ==
    LET w == txn[t] IN
    /\ Commits(t, "reactivate")
    /\ status' = [status EXCEPT ![w.staff] = "active"]
    /\ login' = [login EXCEPT ![w.staff] = TRUE]
    /\ UNCHANGED <<role, userRole, heads, teaches, abandoned>>

-----------------------------------------------------------------------------
(***************************************************************************)
(* Duties.  assignBulk gives each in a transaction of its own.             *)
(***************************************************************************)
Heads(c) == {s \in Staff : heads[s][c] > 0}

AssignHead(t, s, c) ==
    /\ status[s] = "active"
    /\ heads[s][c] < MaxRows
    /\ Opens(t, [Closed EXCEPT !.op = "head", !.staff = s, !.on = c, !.seen = Heads(c) \ {s}])

\* The rows that were found are replaced.  The unique index takes two rows without a
\* subject for different ones, so that the insert never meets a conflict.
AssignHeadCommits(t) ==
    LET w == txn[t] IN
    /\ Commits(t, "head")
    /\ heads[w.staff][w.on] < MaxRows
    /\ heads' = [s \in Staff |->
                    IF s = w.staff THEN [heads[s] EXCEPT ![w.on] = @ + 1]
                    ELSE IF s \in w.seen THEN [heads[s] EXCEPT ![w.on] = 0]
                    ELSE heads[s]]
    /\ UNCHANGED <<status, role, login, userRole, teaches, abandoned>>

AssignPost(t, s, x) ==
    /\ status[s] = "active"
    /\ Opens(t, [Closed EXCEPT !.op = "teach", !.staff = s, !.on = x])

AssignPostCommits(t) ==
    LET w == txn[t] IN
    /\ Commits(t, "teach")
    /\ teaches' = [teaches EXCEPT ![w.staff] = @ \union {w.on}]
    /\ UNCHANGED <<status, role, login, userRole, heads, abandoned>>

\* One row, by its id.
DropAssignment(s) ==
    /\ Managers # {}
    /\ \/ \E c \in Classes :
            /\ heads[s][c] > 0
            /\ heads' = [heads EXCEPT ![s][c] = @ - 1]
            /\ UNCHANGED teaches
       \/ \E x \in teaches[s] :
            /\ teaches' = [teaches EXCEPT ![s] = @ \ {x}]
            /\ UNCHANGED heads
    /\ txn' = [u \in Slots |-> IF txn[u].op = "none" THEN Closed
                               ELSE [txn[u] EXCEPT !.stale = TRUE]]
    /\ UNCHANGED <<status, role, login, userRole, transactions, staffingHistory>>

-----------------------------------------------------------------------------
StaffingBegins(t) ==
    \E s \in Staff :
        \/ \E r \in Roles : RegisterStaff(t, s, r) \/ \E yes \in BOOLEAN : UpdateStaff(t, s, r, yes)
        \/ \E yes \in BOOLEAN : StandDownStaff(t, s, yes)
        \/ ReactivateStaff(t, s)
        \/ \E c \in Classes : AssignHead(t, s, c)
        \/ \E x \in Posts : AssignPost(t, s, x)

StaffingEnds(t) ==
    \/ RegisterCommits(t) \/ UpdateCommits(t) \/ StandDownCommits(t) \/ ReactivateCommits(t)
    \/ AssignHeadCommits(t) \/ AssignPostCommits(t) \/ RollsBack(t)

StaffingNext ==
    \/ \E t \in Slots : StaffingBegins(t) \/ StaffingEnds(t)
    \/ \E s \in Staff : DropAssignment(s)

StaffingSpec == StaffingInit /\ [][StaffingNext]_staffingVars

-----------------------------------------------------------------------------
(***************************************************************************)
(* No two accounts can approve results as the principal ("with no way to   *)
(* tell whose decision was whose"), unless one was given the role after    *)
(* another transaction had committed (registerStaff, updateStaff,          *)
(* reactivateStaff).                                                       *)
(***************************************************************************)
OnePrincipal ==
    met \/ Cardinality({s \in Staff : login[s] /\ userRole[s] = "principal"}) <= 1

(***************************************************************************)
(* The school keeps a principal who can sign in, unless the role was moved *)
(* to somebody who had left, or two decisions met (updateStaff,            *)
(* standDownStaff).                                                        *)
(***************************************************************************)
PrincipalStays ==
    met \/ abandoned \/ \E s \in Principals : login[s] /\ userRole[s] = "principal"

(***************************************************************************)
(* A class has one class teacher, whoever has left holds nothing and       *)
(* cannot sign in, unless what was read had changed (assignBulk,           *)
(* standDownStaff).                                                        *)
(***************************************************************************)
DutiesAreInForce ==
    /\ \A c \in Classes \ raced : Cardinality(Heads(c)) <= 1
    /\ \A s \in Staff \ raced : status[s] = "left" => ~Holds(s) /\ ~login[s]

-----------------------------------------------------------------------------
(***************************************************************************)
(* "Never leave a school with no principal" (src/lib/people/staff.ts,      *)
(* above the check in updateStaff), for editors who come one after the     *)
(* other.                                                                  *)
(***************************************************************************)
AlwaysAPrincipal == met \/ Principals # {}
=============================================================================
