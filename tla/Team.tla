-------------------------------- MODULE Team --------------------------------
(***************************************************************************)
(* Who runs the shop: accounts, the team page (httpapi/staff.go) and the   *)
(* look-up that says who is calling (httpapi/identity.go).                 *)
(*                                                                         *)
(* A request looks its caller up once, before its handler; UpdateStaff     *)
(* then goes from statement to statement.  What a request has written is   *)
(* seen by others only when it commits.                                    *)
(***************************************************************************)
EXTENDS Requests, Integers, FiniteSets

CONSTANTS
    Users

Roles == {"customer", "staff", "admin"}
TeamRoles == {"staff", "admin"}

ASSUME TeamAssumption == None \notin Users \cup Workers \cup Roles

VARIABLES
    role,      \* users.role, None for no account
    off,       \* users with disabled_at set
    teamLock,  \* who holds the advisory lock 'staff'
    teamPc,    \* teamPc[w]: what request w does next
    by,        \* by[w]: who is calling
    whom,      \* whom[w]: the member it is about
    newRole,
    newOff     \* newOff[w]: whether it switches them off

accounts == <<role, off>>
teamReqs     == <<teamPc, by, whom, newRole, newOff>>
teamVars     == <<accounts, teamLock, teamReqs>>

TeamLocked == {"updating", "counting", "committing"}

\* Types, and that the lock is a running transaction's.
TeamTypeOK ==
    /\ role \in [Users -> Roles \cup {None}]
    /\ off \subseteq Users
    /\ teamLock \in Workers \cup {None}
    /\ teamPc \in [Workers -> {"idle", "locking", "updating", "counting", "committing"}]
    /\ by \in [Workers -> Users \cup {None}]
    /\ whom \in [Workers -> Users \cup {None}]
    /\ newRole \in [Workers -> TeamRoles \cup {None}]
    /\ newOff \in [Workers -> BOOLEAN]
    /\ teamLock # None => teamPc[teamLock] \in TeamLocked

\* The owner has run `fajr create-admin`.
TeamInit ==
    /\ \E u \in Users : role = [x \in Users |-> IF x = u THEN "admin" ELSE None]
    /\ off = {}
    /\ teamLock = None
    /\ teamPc = [w \in Workers |-> "idle"]
    /\ by = [w \in Workers |-> None]
    /\ whom = [w \in Workers |-> None]
    /\ newRole = [w \in Workers |-> None]
    /\ newOff = [w \in Workers |-> FALSE]

IsAdmin(u) == role[u] = "admin" /\ u \notin off

TeamGoto(w, step) == teamPc' = [teamPc EXCEPT ![w] = step]

\* The transaction ends, which gives its lock back.
TeamDone(w) ==
    /\ TeamGoto(w, "idle")
    /\ by' = [by EXCEPT ![w] = None]
    /\ whom' = [whom EXCEPT ![w] = None]
    /\ newRole' = [newRole EXCEPT ![w] = None]
    /\ newOff' = [newOff EXCEPT ![w] = FALSE]
    /\ teamLock' = IF teamLock = w THEN None ELSE teamLock

\* An admin, or anyone registering: an account that was not there.
AddAccount(u, r) ==
    /\ role[u] = None
    /\ r \in TeamRoles => \E a \in Users : IsAdmin(a)
    /\ role' = [role EXCEPT ![u] = r]
    /\ UNCHANGED <<off, teamLock, teamReqs>>

\* identify, needTeamManager, and nobody changes their own access.
UpdateStaff(w, a, u, r, turnOff) ==
    /\ teamPc[w] = "idle"
    /\ IsAdmin(a)
    /\ a # u
    /\ TeamGoto(w, "locking")
    /\ by' = [by EXCEPT ![w] = a]
    /\ whom' = [whom EXCEPT ![w] = u]
    /\ newRole' = [newRole EXCEPT ![w] = r]
    /\ newOff' = [newOff EXCEPT ![w] = turnOff]
    /\ UNCHANGED <<accounts, teamLock>>

\* pg_advisory_xact_lock waits for whoever has it.
TeamFree(w) == teamLock = None

\* LockAdmins.
LockAdmins(w) ==
    /\ teamPc[w] = "locking"
    /\ TeamFree(w)
    /\ teamLock' = w
    /\ TeamGoto(w, "updating")
    /\ UNCHANGED <<accounts, by, whom, newRole, newOff>>

\* A row that another request has written and not committed: updating it waits.
Written(w, u) ==
    \E x \in Workers \ {w} : teamPc[x] \in {"counting", "committing"} /\ whom[x] = u

\* UpdateStaff: the row is written, for this request only until it commits.
WriteStaff(w) ==
    /\ teamPc[w] = "updating"
    /\ \/ /\ role[whom[w]] \in TeamRoles
          /\ ~Written(w, whom[w])
          /\ TeamGoto(w, "counting")
          /\ UNCHANGED <<teamLock, by, whom, newRole, newOff>>
       \/ /\ role[whom[w]] \notin TeamRoles
          /\ TeamDone(w)
    /\ UNCHANGED accounts

\* Mutant: the admins are counted before the member is changed.
CountedFirst(w, u) == w \in Workers /\ IsAdmin(u)

\* What ActiveAdmins counts: everything committed, and what this request wrote.
StillAdmin(w, u) ==
    IF u = whom[w] THEN newRole[w] = "admin" /\ ~newOff[w] ELSE IsAdmin(u)

\* ActiveAdmins: the shop needs at least one admin who can sign in.
CountAdmins(w) ==
    /\ teamPc[w] = "counting"
    /\ IF \E u \in Users : StillAdmin(w, u)
       THEN TeamGoto(w, "committing") /\ UNCHANGED <<teamLock, by, whom, newRole, newOff>>
       ELSE TeamDone(w)
    /\ UNCHANGED accounts

CommitStaff(w) ==
    /\ teamPc[w] = "committing"
    /\ role' = [role EXCEPT ![whom[w]] = newRole[w]]
    /\ off' = IF newOff[w] THEN off \cup {whom[w]} ELSE off \ {whom[w]}
    /\ TeamDone(w)

\* The client goes away or the server stops before the commit.
AbortStaff(w) ==
    /\ teamPc[w] # "idle"
    /\ TeamDone(w)
    /\ UNCHANGED accounts

TeamNext ==
    \/ \E u \in Users, r \in Roles : AddAccount(u, r)
    \/ \E w \in Workers, a, u \in Users, r \in TeamRoles, turnOff \in BOOLEAN :
        UpdateStaff(w, a, u, r, turnOff)
    \/ \E w \in Workers :
        LockAdmins(w) \/ WriteStaff(w) \/ CountAdmins(w) \/ CommitStaff(w) \/ AbortStaff(w)

TeamSpec == TeamInit /\ [][TeamNext]_teamVars

-----------------------------------------------------------------------------
(* Properties. *)

\* The last admin cannot be removed: someone who can sign in runs the shop, however many
\* admins change each other at once.
AdminLeft == \E u \in Users : IsAdmin(u)

\* What a request counted is what it commits to: nobody changes the team in between, so the
\* count it made still holds.
CountHolds ==
    \A w \in Workers : teamPc[w] = "committing" => \E u \in Users : StillAdmin(w, u)
=============================================================================
