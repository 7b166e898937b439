---------------------------- MODULE Office_proofs -----------------------------
(* Machine-checked proofs about the team, the zones and the provider accounts, for any number of
   each and of saves at once. *)
EXTENDS Team, Zones, Providers, TLAPS

-----------------------------------------------------------------------------
(* The team and its administrators. *)

USE TeamAssumption

\* A request past the lock holds it, and every request at work has a member and their new access.
TeamAtWork ==
    \A w \in Workers :
        /\ teamPc[w] \in TeamLocked => teamLock = w
        /\ teamPc[w] # "idle" => whom[w] \in Users /\ newRole[w] \in TeamRoles

\* A request that ends keeps its types, and the others' work.
LEMMA TeamDoneTyped ==
    ASSUME TeamTypeOK, TeamAtWork, NEW w \in Workers, TeamDone(w),
           role' \in [Users -> Roles \cup {None}], off' \subseteq Users
    PROVE  TeamTypeOK' /\ TeamAtWork'
<1>1. /\ teamPc' \in [Workers -> {"idle", "locking", "updating", "counting", "committing"}]
      /\ by' \in [Workers -> Users \cup {None}] /\ whom' \in [Workers -> Users \cup {None}]
      /\ newRole' \in [Workers -> TeamRoles \cup {None}] /\ newOff' \in [Workers -> BOOLEAN]
      /\ teamLock' \in Workers \cup {None}
  BY DEF TeamTypeOK, TeamDone, TeamGoto
<1>2. teamLock' # None => teamLock' = teamLock /\ teamLock # w /\ teamPc'[teamLock'] = teamPc[teamLock]
  BY DEF TeamTypeOK, TeamDone, TeamGoto
<1>3. teamLock' # None => teamPc'[teamLock'] \in TeamLocked
  BY <1>2 DEF TeamTypeOK
<1>4. TeamAtWork'
  BY DEF TeamTypeOK, TeamAtWork, TeamDone, TeamGoto, TeamLocked
<1>. QED
  BY <1>1, <1>3, <1>4 DEF TeamTypeOK

LEMMA TeamTypeStep == TeamTypeOK /\ TeamAtWork /\ [TeamNext]_teamVars => TeamTypeOK' /\ TeamAtWork'
<1> SUFFICES ASSUME TeamTypeOK, TeamAtWork, [TeamNext]_teamVars PROVE TeamTypeOK' /\ TeamAtWork'
  OBVIOUS
<1>1. ASSUME NEW u \in Users, NEW r \in Roles, AddAccount(u, r) PROVE TeamTypeOK' /\ TeamAtWork'
  BY <1>1 DEF TeamTypeOK, TeamAtWork, AddAccount, teamReqs
<1>2. ASSUME NEW w \in Workers, NEW a \in Users, NEW u \in Users, NEW r \in TeamRoles,
             NEW turnOff \in BOOLEAN, UpdateStaff(w, a, u, r, turnOff)
      PROVE  TeamTypeOK' /\ TeamAtWork'
  <2>1. teamLock # None => teamLock # w
    BY <1>2 DEF TeamTypeOK, UpdateStaff, TeamLocked
  <2>2. TeamTypeOK'
    BY <1>2, <2>1 DEF TeamTypeOK, UpdateStaff, TeamGoto, accounts, TeamLocked
  <2>3. TeamAtWork'
    BY <1>2, <2>1 DEF TeamTypeOK, TeamAtWork, UpdateStaff, TeamGoto, TeamLocked
  <2>. QED BY <2>2, <2>3
<1>3. ASSUME NEW w \in Workers, LockAdmins(w) PROVE TeamTypeOK' /\ TeamAtWork'
  BY <1>3 DEF TeamTypeOK, TeamAtWork, LockAdmins, TeamFree, TeamGoto, accounts, TeamLocked
<1>4. ASSUME NEW w \in Workers, WriteStaff(w) PROVE TeamTypeOK' /\ TeamAtWork'
  <2>1. CASE TeamDone(w)
    BY <1>4, <2>1, TeamDoneTyped DEF TeamTypeOK, WriteStaff, accounts
  <2>2. CASE ~TeamDone(w)
    BY <1>4, <2>2 DEF TeamTypeOK, TeamAtWork, WriteStaff, TeamGoto, accounts, TeamLocked
  <2>. QED BY <2>1, <2>2
<1>5. ASSUME NEW w \in Workers, CountAdmins(w) PROVE TeamTypeOK' /\ TeamAtWork'
  <2>1. CASE TeamDone(w)
    BY <1>5, <2>1, TeamDoneTyped DEF TeamTypeOK, CountAdmins, accounts
  <2>2. CASE ~TeamDone(w)
    <3>1. TeamGoto(w, "committing") /\ UNCHANGED <<accounts, teamLock, by, whom, newRole, newOff>>
          /\ teamPc[w] = "counting"
      BY <1>5, <2>2 DEF CountAdmins
    <3>. QED BY <3>1 DEF TeamTypeOK, TeamAtWork, TeamGoto, accounts, TeamLocked
  <2>. QED BY <2>1, <2>2
<1>6. ASSUME NEW w \in Workers, CommitStaff(w) PROVE TeamTypeOK' /\ TeamAtWork'
  <2>1. whom[w] \in Users /\ newRole[w] \in TeamRoles
    BY <1>6 DEF CommitStaff, TeamAtWork
  <2>2. role' \in [Users -> Roles \cup {None}] /\ off' \subseteq Users
    BY <1>6, <2>1 DEF CommitStaff, TeamTypeOK, Roles, TeamRoles
  <2>. QED BY <1>6, <2>2, TeamDoneTyped DEF CommitStaff
<1>7. ASSUME NEW w \in Workers, AbortStaff(w) PROVE TeamTypeOK' /\ TeamAtWork'
  BY <1>7, TeamDoneTyped DEF AbortStaff, TeamTypeOK, accounts
<1>8. CASE UNCHANGED teamVars
  BY <1>8 DEF TeamTypeOK, TeamAtWork, teamVars, accounts, teamReqs
<1>. QED
  BY <1>1, <1>2, <1>3, <1>4, <1>5, <1>6, <1>7, <1>8 DEF TeamNext

\* Every variable keeps its type, and the team's lock is the request's that is past it.
THEOREM TeamTypesCorrect == TeamSpec => [](TeamTypeOK /\ TeamAtWork)
<1>1. TeamInit => TeamTypeOK /\ TeamAtWork
  BY DEF TeamInit, TeamTypeOK, TeamAtWork, Roles, TeamLocked
<1>. QED
  BY <1>1, TeamTypeStep, PTL DEF TeamSpec

\* A commit is the only step that takes an admin away, and what it leaves was counted.
LEMMA AdminStep ==
    TeamTypeOK /\ TeamAtWork /\ AdminLeft /\ CountHolds /\ [TeamNext]_teamVars => AdminLeft' /\ CountHolds'
<1> SUFFICES ASSUME TeamTypeOK, TeamAtWork, AdminLeft, CountHolds, [TeamNext]_teamVars
             PROVE  AdminLeft' /\ CountHolds'
  OBVIOUS
<1>1. ASSUME UNCHANGED accounts PROVE AdminLeft'
  BY <1>1 DEF AdminLeft, IsAdmin, accounts
<1>2. ASSUME NEW w \in Workers, teamPc'[w] = "committing", teamPc[w] = "committing",
             UNCHANGED <<accounts, whom, newRole, newOff>>
      PROVE  \E u \in Users : StillAdmin(w, u)'
  BY <1>2 DEF CountHolds, StillAdmin, IsAdmin, accounts
<1>3. ASSUME NEW v \in Workers, TeamDone(v)
      PROVE  \A w \in Workers : teamPc'[w] = "committing" =>
                 /\ w # v /\ teamPc[w] = "committing" /\ whom'[w] = whom[w]
                 /\ newRole'[w] = newRole[w] /\ newOff'[w] = newOff[w]
  BY <1>3 DEF TeamTypeOK, TeamDone, TeamGoto
<1>4. ASSUME NEW v \in Workers, TeamDone(v), UNCHANGED accounts PROVE CountHolds'
  <2> SUFFICES ASSUME NEW w \in Workers, teamPc'[w] = "committing"
               PROVE  \E u \in Users : StillAdmin(w, u)'
    BY DEF CountHolds
  <2>1. PICK u \in Users : StillAdmin(w, u)
    BY <1>3, <1>4 DEF CountHolds
  <2>2. StillAdmin(w, u)'
    BY <1>3, <1>4, <2>1 DEF StillAdmin, IsAdmin, accounts
  <2>. QED BY <2>2
<1>5. ASSUME NEW x \in Users, NEW r \in Roles, AddAccount(x, r) PROVE AdminLeft' /\ CountHolds'
  <2>1. \A u \in Users : IsAdmin(u) => IsAdmin(u)'
    BY <1>5 DEF AddAccount, IsAdmin, TeamTypeOK, Roles
  <2>2. \A w \in Workers, u \in Users : StillAdmin(w, u) => StillAdmin(w, u)'
    BY <1>5, <2>1 DEF AddAccount, StillAdmin, teamReqs
  <2>. QED BY <1>5, <2>1, <2>2 DEF AdminLeft, CountHolds, AddAccount, teamReqs
<1>6. ASSUME NEW w \in Workers, NEW a \in Users, NEW u \in Users, NEW r \in TeamRoles,
             NEW turnOff \in BOOLEAN, UpdateStaff(w, a, u, r, turnOff)
      PROVE  AdminLeft' /\ CountHolds'
  <2>1. CountHolds'
    <3> SUFFICES ASSUME NEW v \in Workers, teamPc'[v] = "committing"
                 PROVE  \E m \in Users : StillAdmin(v, m)'
      BY DEF CountHolds
    <3>1. v # w /\ teamPc[v] = "committing"
      BY <1>6 DEF UpdateStaff, TeamGoto, TeamTypeOK
    <3>2. PICK m \in Users : StillAdmin(v, m)
      BY <3>1 DEF CountHolds
    <3>3. StillAdmin(v, m)'
      BY <1>6, <3>1, <3>2 DEF UpdateStaff, StillAdmin, IsAdmin, accounts, TeamTypeOK
    <3>. QED BY <3>3
  <2>. QED BY <1>1, <1>6, <2>1 DEF UpdateStaff
<1>7. ASSUME NEW w \in Workers, LockAdmins(w) \/ (WriteStaff(w) /\ ~TeamDone(w))
      PROVE  AdminLeft' /\ CountHolds'
  <2>1. /\ UNCHANGED <<accounts, whom, newRole, newOff>>
        /\ \A v \in Workers : teamPc'[v] = "committing" => teamPc[v] = "committing"
    BY <1>7 DEF LockAdmins, WriteStaff, TeamGoto, TeamTypeOK
  <2>. QED BY <1>1, <1>2, <2>1 DEF CountHolds
<1>8. ASSUME NEW w \in Workers, CountAdmins(w), ~TeamDone(w) PROVE AdminLeft' /\ CountHolds'
  <2>1. /\ UNCHANGED <<accounts, whom, newRole, newOff>>
        /\ \E u \in Users : StillAdmin(w, u)
        /\ \A v \in Workers \ {w} : teamPc'[v] = teamPc[v]
    BY <1>8 DEF CountAdmins, TeamGoto, TeamTypeOK
  <2>2. \A v \in Workers, u \in Users : StillAdmin(v, u) => StillAdmin(v, u)'
    BY <2>1 DEF StillAdmin, IsAdmin, accounts
  <2>. QED BY <1>1, <2>1, <2>2 DEF CountHolds
<1>9. ASSUME NEW w \in Workers, CommitStaff(w) PROVE AdminLeft' /\ CountHolds'
  <2>1. whom[w] \in Users
    BY <1>9 DEF CommitStaff, TeamAtWork
  <2>2. PICK u \in Users : StillAdmin(w, u)
    BY <1>9 DEF CommitStaff, CountHolds
  <2>3. IsAdmin(u)'
    <3>1. CASE u = whom[w]
      BY <1>9, <2>1, <2>2, <3>1 DEF CommitStaff, StillAdmin, IsAdmin, TeamTypeOK
    <3>2. CASE u # whom[w]
      BY <1>9, <2>1, <2>2, <3>2 DEF CommitStaff, StillAdmin, IsAdmin, TeamTypeOK
    <3>. QED BY <3>1, <3>2
  <2>4. \A v \in Workers : teamPc'[v] # "committing"
    <3>1. \A v \in Workers \ {w} : teamPc[v] \notin TeamLocked
      BY <1>9 DEF CommitStaff, TeamAtWork, TeamLocked
    <3>. QED BY <1>9, <3>1 DEF CommitStaff, TeamDone, TeamGoto, TeamTypeOK, TeamLocked
  <2>. QED BY <2>3, <2>4 DEF AdminLeft, CountHolds
<1>10. CASE UNCHANGED teamVars
  BY <1>1, <1>2, <1>10 DEF teamVars, accounts, teamReqs, CountHolds
<1>11. \/ UNCHANGED teamVars
       \/ \E u \in Users, r \in Roles : AddAccount(u, r)
       \/ \E w \in Workers, a, u \in Users, r \in TeamRoles, turnOff \in BOOLEAN :
            UpdateStaff(w, a, u, r, turnOff)
       \/ \E w \in Workers : TeamDone(w) /\ UNCHANGED accounts
       \/ \E w \in Workers : LockAdmins(w) \/ (WriteStaff(w) /\ ~TeamDone(w))
       \/ \E w \in Workers : CountAdmins(w) /\ ~TeamDone(w)
       \/ \E w \in Workers : CommitStaff(w)
  BY DEF TeamNext, AbortStaff, WriteStaff, CountAdmins
<1>. QED
  BY <1>1, <1>4, <1>5, <1>6, <1>7, <1>8, <1>9, <1>10, <1>11

\* Someone who can sign in as an admin is left, however many admins change each other at once.
THEOREM LastAdminStays == TeamSpec => []AdminLeft
<1>1. TeamInit => AdminLeft /\ CountHolds
  BY DEF TeamInit, AdminLeft, CountHolds, IsAdmin
<1>. QED
  BY <1>1, AdminStep, TeamTypesCorrect, PTL DEF TeamSpec

\* The count a request made still holds when it commits.
THEOREM CountsHold == TeamSpec => []CountHolds
<1>1. TeamInit => AdminLeft /\ CountHolds
  BY DEF TeamInit, AdminLeft, CountHolds, IsAdmin
<1>. QED
  BY <1>1, AdminStep, TeamTypesCorrect, PTL DEF TeamSpec

HIDE TeamAssumption

-----------------------------------------------------------------------------
(* Delivery zones. *)

USE ZonesAssumption

\* A save past the lock holds it, a save about to commit has its row, and one that switches its
\* zone on was refused nothing: what it looked at has not changed since.
ZoneAtWork ==
    \A w \in Workers :
        /\ zonePc[w] \in ZoneLocked => zoneLock = w
        /\ zonePc[w] = "committing" => zone[w] \in Zones
        /\ zonePc[w] \in {"writing", "committing"} /\ switchOn[w] => ~TakenElsewhere(w)

\* A save that ends keeps its types.
LEMMA ZoneDoneTyped ==
    ASSUME ZoneTypeOK, NEW w \in Workers, ZoneDone(w),
           districts' \in [Zones -> SUBSET Districts], active' \subseteq Zones
    PROVE  ZoneTypeOK' /\ zonePc'[w] = "idle" /\ (\A v \in Workers \ {w} :
              zonePc'[v] = zonePc[v] /\ zone'[v] = zone[v] /\ wanted'[v] = wanted[v] /\ switchOn'[v] = switchOn[v])
<1>1. /\ zonePc' \in [Workers -> {"idle", "locking"} \cup ZoneLocked]
      /\ zone' \in [Workers -> Zones \cup {None}] /\ switchOn' \in [Workers -> BOOLEAN]
      /\ zoneLock' \in Workers \cup {None}
  BY DEF ZoneTypeOK, ZoneDone, ZoneGoto
<1>2. wanted' \in [Workers -> SUBSET Districts]
  BY DEF ZoneTypeOK, ZoneDone
<1>3. zoneLock' # None => zoneLock' = zoneLock /\ zoneLock # w /\ zonePc'[zoneLock'] = zonePc[zoneLock]
  BY DEF ZoneTypeOK, ZoneDone, ZoneGoto
<1>4. zoneLock' # None => zonePc'[zoneLock'] \in ZoneLocked
  BY <1>3 DEF ZoneTypeOK
<1>5. zonePc'[w] = "idle" /\ (\A v \in Workers \ {w} :
         zonePc'[v] = zonePc[v] /\ zone'[v] = zone[v] /\ wanted'[v] = wanted[v] /\ switchOn'[v] = switchOn[v])
  BY DEF ZoneTypeOK, ZoneDone, ZoneGoto
<1>. QED
  BY <1>1, <1>2, <1>4, <1>5 DEF ZoneTypeOK

\* A save that ends leaves the others' work as it was, when the rows stay.
LEMMA ZoneDoneWork ==
    ASSUME ZoneTypeOK, ZoneAtWork, NEW w \in Workers, ZoneDone(w), UNCHANGED zoneRows
    PROVE  ZoneTypeOK' /\ ZoneAtWork'
<1>1. ZoneTypeOK' /\ zonePc'[w] = "idle" /\ (\A v \in Workers \ {w} :
         zonePc'[v] = zonePc[v] /\ zone'[v] = zone[v] /\ wanted'[v] = wanted[v] /\ switchOn'[v] = switchOn[v])
  BY ZoneDoneTyped DEF ZoneTypeOK, zoneRows
<1>2. ASSUME NEW v \in Workers, v # w
      PROVE  /\ zonePc'[v] \in ZoneLocked => zoneLock' = v
             /\ zonePc'[v] = "committing" => zone'[v] \in Zones
             /\ zonePc'[v] \in {"writing", "committing"} /\ switchOn'[v] => ~TakenElsewhere(v)'
  BY <1>1, <1>2 DEF ZoneAtWork, ZoneDone, TakenElsewhere, zoneRows, ZoneLocked
<1>. QED
  BY <1>1, <1>2 DEF ZoneAtWork, ZoneLocked

LEMMA ZoneTypeStep == ZoneTypeOK /\ ZoneAtWork /\ [ZoneNext]_zoneVars => ZoneTypeOK' /\ ZoneAtWork'
<1> SUFFICES ASSUME ZoneTypeOK, ZoneAtWork, [ZoneNext]_zoneVars PROVE ZoneTypeOK' /\ ZoneAtWork'
  OBVIOUS
<1>1. ASSUME NEW w \in Workers, NEW z \in Zones \cup {None}, NEW ds \in SUBSET Districts,
             NEW on \in BOOLEAN, SaveZone(w, z, ds, on)
      PROVE  ZoneTypeOK' /\ ZoneAtWork'
  <2>1. zoneLock # None => zoneLock # w
    BY <1>1 DEF ZoneTypeOK, SaveZone, ZoneLocked
  <2>2. ZoneTypeOK'
    BY <1>1, <2>1 DEF ZoneTypeOK, SaveZone, ZoneGoto, zoneRows
  <2>3. ZoneAtWork'
    BY <1>1, <2>1 DEF ZoneTypeOK, ZoneAtWork, SaveZone, ZoneGoto, zoneRows, ZoneLocked, TakenElsewhere
  <2>. QED BY <2>2, <2>3
<1>2. ASSUME NEW w \in Workers, LockShippingZones(w) PROVE ZoneTypeOK' /\ ZoneAtWork'
  <2>1. \A v \in Workers : zonePc[v] \notin ZoneLocked
    BY <1>2 DEF LockShippingZones, ZoneFree, ZoneAtWork
  <2>2. ZoneTypeOK'
    BY <1>2 DEF ZoneTypeOK, LockShippingZones, ZoneFree, ZoneGoto, zoneRows, ZoneLocked
  <2>3. ZoneAtWork'
    BY <1>2, <2>1 DEF ZoneTypeOK, ZoneAtWork, LockShippingZones, ZoneGoto, zoneRows, ZoneLocked
  <2>. QED BY <2>2, <2>3
<1>3. ASSUME NEW w \in Workers, CheckDistricts(w) PROVE ZoneTypeOK' /\ ZoneAtWork'
  <2>1. CASE TakenElsewhere(w)
    BY <1>3, <2>1, ZoneDoneWork DEF CheckDistricts
  <2>2. CASE ~TakenElsewhere(w)
    <3>1. /\ zonePc' = [zonePc EXCEPT ![w] = "writing"] /\ zonePc[w] = "checking"
          /\ UNCHANGED <<zoneRows, zoneLock, zone, wanted, switchOn>>
      BY <1>3, <2>2 DEF CheckDistricts, ZoneGoto
    <3>2. ZoneTypeOK'
      BY <3>1 DEF ZoneTypeOK, zoneRows, ZoneLocked
    <3>3. ZoneAtWork'
      BY <2>2, <3>1 DEF ZoneTypeOK, ZoneAtWork, TakenElsewhere, zoneRows, ZoneLocked
    <3>. QED BY <3>2, <3>3
  <2>. QED BY <2>1, <2>2
<1>4. ASSUME NEW w \in Workers, WriteZone(w) PROVE ZoneTypeOK' /\ ZoneAtWork'
  <2>1. CASE ZoneDone(w)
    BY <1>4, <2>1, ZoneDoneWork DEF WriteZone
  <2>2. ASSUME NEW z \in Zones,
               IF zone[w] = None THEN districts[z] = {} ELSE z = zone[w],
               zone' = [zone EXCEPT ![w] = z], ZoneGoto(w, "committing"),
               UNCHANGED <<zoneRows, zoneLock, wanted, switchOn>>
        PROVE  ZoneTypeOK' /\ ZoneAtWork'
    <3>1. ZoneTypeOK'
      BY <1>4, <2>2 DEF ZoneTypeOK, WriteZone, ZoneGoto, zoneRows, ZoneLocked
    <3>2. switchOn[w] => ~TakenElsewhere(w)'
      BY <1>4, <2>2 DEF ZoneTypeOK, ZoneAtWork, WriteZone, TakenElsewhere, zoneRows
    <3>3. ZoneAtWork'
      BY <1>4, <2>2, <3>2 DEF ZoneTypeOK, ZoneAtWork, WriteZone, ZoneGoto, TakenElsewhere, zoneRows, ZoneLocked
    <3>. QED BY <3>1, <3>3
  <2>. QED BY <1>4, <2>1, <2>2 DEF WriteZone
<1>5. ASSUME NEW w \in Workers, CommitZone(w) PROVE ZoneTypeOK' /\ ZoneAtWork'
  <2>1. /\ zone[w] \in Zones
        /\ \A v \in Workers \ {w} : zonePc[v] \notin ZoneLocked
    BY <1>5 DEF CommitZone, ZoneAtWork, ZoneLocked
  <2>2. districts' \in [Zones -> SUBSET Districts] /\ active' \subseteq Zones
    BY <1>5, <2>1 DEF CommitZone, ZoneTypeOK
  <2>3. ZoneTypeOK' /\ \A v \in Workers : zonePc'[v] \notin ZoneLocked
    BY <1>5, <2>1, <2>2, ZoneDoneTyped DEF CommitZone, ZoneLocked
  <2>. QED BY <2>3 DEF ZoneAtWork, ZoneLocked
<1>6. ASSUME NEW w \in Workers, AbortZone(w) PROVE ZoneTypeOK' /\ ZoneAtWork'
  BY <1>6, ZoneDoneWork DEF AbortZone
<1>7. ASSUME NEW z \in Zones, DeleteZone(z) PROVE ZoneTypeOK' /\ ZoneAtWork'
  <2>1. \A w \in Workers : zonePc[w] \notin ZoneLocked
    BY <1>7 DEF DeleteZone, ZoneAtWork
  <2>. QED BY <1>7, <2>1 DEF ZoneTypeOK, ZoneAtWork, DeleteZone, zoneReqs, ZoneLocked
<1>8. CASE UNCHANGED zoneVars
  BY <1>8 DEF ZoneTypeOK, ZoneAtWork, TakenElsewhere, zoneVars, zoneRows, zoneReqs
<1>. QED
  BY <1>1, <1>2, <1>3, <1>4, <1>5, <1>6, <1>7, <1>8 DEF ZoneNext

\* Every variable keeps its type, and what a save looked at has not changed when it commits.
THEOREM ZoneTypesCorrect == ZoneSpec => [](ZoneTypeOK /\ ZoneAtWork)
<1>1. ZoneInit => ZoneTypeOK /\ ZoneAtWork
  BY DEF ZoneInit, ZoneTypeOK, ZoneAtWork, ZoneLocked
<1>. QED
  BY <1>1, ZoneTypeStep, PTL DEF ZoneSpec

\* A commit gives no district a second zone that is on.
LEMMA ZoneStep ==
    ZoneTypeOK /\ ZoneAtWork /\ OneZoneEach /\ [ZoneNext]_zoneVars => OneZoneEach'
<1> SUFFICES ASSUME ZoneTypeOK, ZoneAtWork, OneZoneEach, [ZoneNext]_zoneVars PROVE OneZoneEach'
  OBVIOUS
<1>1. CASE UNCHANGED zoneRows
  BY <1>1 DEF OneZoneEach, zoneRows
<1>2. ASSUME NEW w \in Workers, CommitZone(w) PROVE OneZoneEach'
  <2>1. /\ zone[w] \in Zones
        /\ districts' = [districts EXCEPT ![zone[w]] = wanted[w]]
        /\ active' = IF switchOn[w] THEN active \cup {zone[w]} ELSE active \ {zone[w]}
        /\ switchOn[w] => ~TakenElsewhere(w)
    BY <1>2 DEF CommitZone, ZoneAtWork
  <2>2. ASSUME NEW z \in active', NEW y \in active', z # y
        PROVE  districts'[z] \cap districts'[y] = {}
    <3>1. z \in Zones /\ y \in Zones
      BY <2>1, <2>2 DEF ZoneTypeOK
    <3>2. CASE z = zone[w]
      BY <2>1, <2>2, <3>1, <3>2 DEF ZoneTypeOK, TakenElsewhere
    <3>3. CASE y = zone[w]
      BY <2>1, <2>2, <3>1, <3>3 DEF ZoneTypeOK, TakenElsewhere
    <3>4. CASE z # zone[w] /\ y # zone[w]
      BY <2>1, <2>2, <3>1, <3>4 DEF ZoneTypeOK, OneZoneEach
    <3>. QED BY <3>2, <3>3, <3>4
  <2>. QED BY <2>2 DEF OneZoneEach
<1>3. ASSUME NEW z \in Zones, DeleteZone(z) PROVE OneZoneEach'
  BY <1>3 DEF DeleteZone, OneZoneEach, ZoneTypeOK
<1>4. \/ UNCHANGED zoneRows
      \/ \E w \in Workers : CommitZone(w)
      \/ \E z \in Zones : DeleteZone(z)
  BY DEF ZoneNext, SaveZone, LockShippingZones, CheckDistricts, WriteZone, AbortZone, zoneVars
<1>. QED
  BY <1>1, <1>2, <1>3, <1>4

\* A district is in one active zone only, for any number of saves at once.
THEOREM OneZoneAlways == ZoneSpec => []OneZoneEach
<1>1. ZoneInit => OneZoneEach
  BY DEF ZoneInit, OneZoneEach
<1>. QED
  BY <1>1, ZoneStep, ZoneTypesCorrect, PTL DEF ZoneSpec

HIDE ZonesAssumption

-----------------------------------------------------------------------------
(* Provider accounts. *)

ProviderRead == {"writing", "listing", "disabling", "committing"}

(* Past its advisory lock a save is alone with its account, and what it will write is what the
   account still holds, or what was typed. *)
ProviderAlone == \A w \in Workers : providerPc[w] \in ProviderLocked => ProviderFree(w)

KeepsIt(w) ==
    providerPc[w] \in ProviderRead =>
        /\ kept[w] = Merged(w)
        /\ wantOn[w] => kept[w] # None

ProviderAtWork == ProviderAlone /\ \A w \in Workers : KeepsIt(w)

ProviderInv == ProviderTypeOK /\ ProviderAtWork

\* At the start nobody is at work.
LEMMA ProviderInitInv == ProviderInit => ProviderInv
BY ProvidersAssumption DEF ProviderInit, ProviderInv, ProviderTypeOK, ProviderAtWork, ProviderAlone, KeepsIt, ProviderLocked, ProviderRead

\* A save that ends keeps its types.
LEMMA ProviderDoneTyped ==
    ASSUME NEW w \in Workers, ProviderTypeOK, ProviderDone(w)
    PROVE  /\ providerPc' \in [Workers -> {"idle", "locking"} \cup ProviderLocked]
           /\ code' \in [Workers -> Providers \cup {None}]
           /\ typed' \in [Workers -> Keys \cup {None}]
           /\ wantOn' \in [Workers -> BOOLEAN]
           /\ kept' \in [Workers -> Keys \cup {None}]
           /\ listed' \in [Workers -> SUBSET Gateways]
           /\ disabled' \in [Workers -> SUBSET Gateways]
           /\ providerPc'[w] = "idle"
           /\ \A x \in Workers \ {w} :
                /\ providerPc'[x] = providerPc[x] /\ code'[x] = code[x] /\ typed'[x] = typed[x]
                /\ wantOn'[x] = wantOn[x] /\ kept'[x] = kept[x]
           /\ \A x \in Workers : providerPc'[x] # "idle" => code'[x] \in Providers
BY DEF ProviderTypeOK, ProviderDone, ProviderGoto

\* A save that ends leaves the others' work.
LEMMA ProviderDoneQuiet ==
    ASSUME NEW w \in Workers, ProviderInv, ProviderDone(w), UNCHANGED providerRows, late' \in [Workers -> SUBSET Gateways]
    PROVE  ProviderInv'
<1>1. ProviderTypeOK'
  BY ProviderDoneTyped DEF ProviderInv, ProviderTypeOK, providerRows
<1>2. \A x \in Workers : providerPc'[x] \in ProviderLocked => x # w /\ providerPc[x] \in ProviderLocked
  BY ProviderDoneTyped DEF ProviderInv, ProviderLocked
<1>3. ProviderAlone'
  BY <1>2, ProviderDoneTyped DEF ProviderInv, ProviderAtWork, ProviderAlone, ProviderFree, ProviderLocked
<1>4. ASSUME NEW x \in Workers PROVE KeepsIt(x)'
  <2>1. CASE x = w
    BY <2>1, ProviderDoneTyped DEF ProviderInv, KeepsIt, ProviderRead
  <2>2. CASE x # w
    BY <2>2, ProviderDoneTyped DEF ProviderInv, ProviderAtWork, KeepsIt, Merged, providerRows
  <2> QED BY <2>1, <2>2
<1> QED BY <1>1, <1>3, <1>4 DEF ProviderInv, ProviderAtWork

\* A save that starts has read nothing yet.
LEMMA ProviderStartInv ==
    ASSUME ProviderInv, NEW w \in Workers, NEW p \in Providers, NEW k \in Keys \cup {None},
           NEW on \in BOOLEAN, UpdateProvider(w, p, k, on)
    PROVE  ProviderInv'
<1> USE DEF UpdateProvider, ProviderGoto, providerRows, providerWork
<1>1. ProviderTypeOK'
  BY DEF ProviderInv, ProviderTypeOK
<1>2. ProviderAlone'
  BY DEF ProviderInv, ProviderTypeOK, ProviderAtWork, ProviderAlone, ProviderFree, ProviderLocked
<1>3. ASSUME NEW x \in Workers PROVE KeepsIt(x)'
  <2>1. CASE x = w
    BY <2>1 DEF ProviderInv, ProviderTypeOK, KeepsIt, ProviderRead
  <2>2. CASE x # w
    BY <2>2 DEF ProviderInv, ProviderTypeOK, ProviderAtWork, KeepsIt, Merged
  <2> QED BY <2>1, <2>2
<1> QED BY <1>1, <1>2, <1>3 DEF ProviderInv, ProviderAtWork

\* The advisory lock is given to one save of an account.
LEMMA ProviderLockInv ==
    ASSUME ProviderInv, NEW w \in Workers, LockProvider(w)
    PROVE  ProviderInv'
<1> USE DEF LockProvider, ProviderGoto, providerRows, form, providerWork
<1>1. ProviderTypeOK'
  BY DEF ProviderInv, ProviderTypeOK, ProviderLocked
<1>2. ProviderAlone'
  BY DEF ProviderInv, ProviderTypeOK, ProviderAtWork, ProviderAlone, ProviderFree, ProviderLocked
<1>3. ASSUME NEW x \in Workers PROVE KeepsIt(x)'
  BY DEF ProviderInv, ProviderTypeOK, ProviderAtWork, KeepsIt, Merged, ProviderRead
<1> QED BY <1>1, <1>2, <1>3 DEF ProviderInv, ProviderAtWork

\* What a save reads is what the account holds while it has the lock.
LEMMA ProviderReadInv ==
    ASSUME ProviderInv, NEW w \in Workers, ReadAccount(w)
    PROVE  ProviderInv'
<1>1. CASE wantOn[w] /\ Merged(w) = None
  BY <1>1, ProviderDoneQuiet DEF ReadAccount, ProviderInv, ProviderTypeOK
<1>2. CASE ~(wantOn[w] /\ Merged(w) = None)
  <2> USE <1>2 DEF ReadAccount, ProviderGoto, providerRows, form
  <2>0. Merged(w) \in Keys \cup {None}
    BY DEF ProviderInv, ProviderTypeOK, Merged
  <2>1. ProviderTypeOK'
    BY <2>0 DEF ProviderInv, ProviderTypeOK, ProviderLocked
  <2>2. ProviderAlone'
    BY DEF ProviderInv, ProviderTypeOK, ProviderAtWork, ProviderAlone, ProviderFree, ProviderLocked
  <2>3. ASSUME NEW x \in Workers PROVE KeepsIt(x)'
    <3>1. CASE x = w
      BY <3>1 DEF ProviderInv, ProviderTypeOK, KeepsIt, Merged
    <3>2. CASE x # w
      BY <3>2 DEF ProviderInv, ProviderTypeOK, ProviderAtWork, KeepsIt, Merged
    <3> QED BY <3>1, <3>2
  <2> QED BY <2>1, <2>2, <2>3 DEF ProviderInv, ProviderAtWork
<1> QED BY <1>1, <1>2

(* The statements between the read and the commit move no row and no key. *)
LEMMA ProviderMoveInv ==
    ASSUME ProviderInv, NEW w \in Workers, NEW step \in {"listing", "disabling", "committing"},
           providerPc[w] \in ProviderRead, providerPc' = [providerPc EXCEPT ![w] = step],
           UNCHANGED <<enabled, key, code, typed, wantOn, kept>>,
           listed' \in [Workers -> SUBSET Gateways], disabled' \in [Workers -> SUBSET Gateways],
           late' \in [Workers -> SUBSET Gateways]
    PROVE  ProviderInv'
<1>1. ProviderTypeOK'
  BY DEF ProviderInv, ProviderTypeOK, ProviderLocked, ProviderRead
<1>2. ProviderAlone'
  BY DEF ProviderInv, ProviderTypeOK, ProviderAtWork, ProviderAlone, ProviderFree, ProviderLocked, ProviderRead
<1>3. ASSUME NEW x \in Workers PROVE KeepsIt(x)'
  BY DEF ProviderInv, ProviderTypeOK, ProviderAtWork, KeepsIt, Merged, ProviderRead
<1> QED BY <1>1, <1>2, <1>3 DEF ProviderInv, ProviderAtWork

LEMMA ProviderUpsertInv ==
    ASSUME ProviderInv, NEW w \in Workers, UpsertProvider(w)
    PROVE  ProviderInv'
<1>1. PICK step \in {"listing", "disabling", "committing"} : providerPc' = [providerPc EXCEPT ![w] = step]
  BY DEF UpsertProvider, ProviderGoto
<1> QED BY <1>1, ProviderMoveInv DEF UpsertProvider, providerRows, form, providerWork, ProviderRead, ProviderInv, ProviderTypeOK

LEMMA ProviderListInv ==
    ASSUME ProviderInv, NEW w \in Workers, ListGateways(w)
    PROVE  ProviderInv'
<1>1. /\ listed' \in [Workers -> SUBSET Gateways] /\ disabled' \in [Workers -> SUBSET Gateways]
      /\ late' \in [Workers -> SUBSET Gateways]
  BY DEF ListGateways, ProviderInv, ProviderTypeOK
<1> QED BY <1>1, ProviderMoveInv DEF ListGateways, ProviderGoto, providerRows, form, ProviderRead

LEMMA ProviderDisableInv ==
    ASSUME ProviderInv, NEW w \in Workers, DisableGateway(w)
    PROVE  ProviderInv'
<1>1. /\ listed' \in [Workers -> SUBSET Gateways] /\ disabled' \in [Workers -> SUBSET Gateways]
      /\ late' \in [Workers -> SUBSET Gateways]
  BY DEF DisableGateway, ProviderInv, ProviderTypeOK
<1>2. PICK step \in {"listing", "disabling", "committing"} : providerPc' = [providerPc EXCEPT ![w] = step]
  <2>1. CASE UNCHANGED providerPc
    BY <2>1 DEF DisableGateway, ProviderInv, ProviderTypeOK
  <2> QED BY <2>1 DEF DisableGateway, ProviderGoto
<1> QED BY <1>1, <1>2, ProviderMoveInv DEF DisableGateway, providerRows, form, ProviderRead

LEMMA ProviderCommitInv ==
    ASSUME ProviderInv, NEW w \in Workers, CommitProvider(w)
    PROVE  ProviderInv'
<1>c. code[w] \in Providers /\ providerPc[w] \in ProviderRead /\ providerPc[w] \in ProviderLocked /\ ProviderDone(w)
  BY DEF CommitProvider, ProviderInv, ProviderTypeOK, ProviderRead, ProviderLocked
<1>k. /\ kept[w] \in Keys \cup {None}
      /\ wantOn[w] => kept[w] # None
      /\ kept[w] = Merged(w)
  BY <1>c DEF ProviderInv, ProviderTypeOK, ProviderAtWork, KeepsIt
<1>t. key \in [Providers -> Keys \cup {None}] /\ key' = [key EXCEPT ![code[w]] = kept[w]]
  BY DEF CommitProvider, ProviderInv, ProviderTypeOK
<1>1. key' \in [Providers -> Keys \cup {None}]
  BY <1>c, <1>k, <1>t
<1>2. enabled' \subseteq Providers
  BY <1>c DEF CommitProvider, ProviderInv, ProviderTypeOK
<1>3. late' \in [Workers -> SUBSET Gateways]
  BY DEF CommitProvider, ProviderInv, ProviderTypeOK
<1>4. \A p \in enabled' : key'[p] # None
  <2> SUFFICES ASSUME NEW p \in enabled' PROVE key'[p] # None
    OBVIOUS
  <2>0. p \in Providers
    BY <1>2
  <2>1. CASE p = code[w]
    BY <2>0, <2>1, <1>c, <1>k DEF CommitProvider, ProviderInv, ProviderTypeOK
  <2>2. CASE p # code[w]
    BY <2>0, <2>2, <1>c DEF CommitProvider, ProviderInv, ProviderTypeOK
  <2> QED BY <2>1, <2>2
<1>5. ProviderTypeOK'
  BY <1>1, <1>2, <1>3, <1>4, <1>c, ProviderDoneTyped DEF ProviderTypeOK, ProviderInv
<1>6. ProviderAlone'
  BY <1>c, ProviderDoneTyped DEF ProviderInv, ProviderAtWork, ProviderAlone, ProviderFree, ProviderLocked
<1>7. ASSUME NEW x \in Workers PROVE KeepsIt(x)'
  <2>1. CASE x = w \/ providerPc[x] \notin ProviderRead
    BY <2>1, <1>c, ProviderDoneTyped DEF ProviderInv, KeepsIt, ProviderRead
  <2>2. CASE x # w /\ providerPc[x] \in ProviderRead
    <3>1. code[x] # code[w] /\ code[x] \in Providers
      BY <2>2, <1>c DEF ProviderInv, ProviderTypeOK, ProviderAtWork, ProviderAlone, ProviderFree, ProviderLocked, ProviderRead
    <3>2. key'[code[x]] = key[code[x]]
      BY <3>1 DEF CommitProvider, ProviderInv, ProviderTypeOK
    <3> QED BY <2>2, <3>2, <1>c, ProviderDoneTyped DEF ProviderInv, ProviderAtWork, KeepsIt, Merged
  <2> QED BY <2>1, <2>2
<1> QED BY <1>5, <1>6, <1>7 DEF ProviderInv, ProviderAtWork

LEMMA ProviderAbortInv ==
    ASSUME ProviderInv, NEW w \in Workers, AbortProvider(w)
    PROVE  ProviderInv'
BY ProviderDoneQuiet DEF AbortProvider, ProviderInv, ProviderTypeOK

LEMMA ProviderStepInv == ProviderInv /\ [ProviderNext]_providerVars => ProviderInv'
<1> SUFFICES ASSUME ProviderInv, [ProviderNext]_providerVars PROVE ProviderInv'
  OBVIOUS
<1>1. CASE UNCHANGED providerVars
  BY <1>1 DEF providerVars, providerRows, form, providerWork, ProviderInv, ProviderTypeOK, ProviderAtWork, ProviderAlone, KeepsIt, ProviderFree, Merged
<1>2. ASSUME NEW w \in Workers, NEW p \in Providers, NEW k \in Keys \cup {None},
             NEW on \in BOOLEAN, UpdateProvider(w, p, k, on)
      PROVE  ProviderInv'
  BY <1>2, ProviderStartInv
<1>3. ASSUME NEW w \in Workers, LockProvider(w) PROVE ProviderInv'
  BY <1>3, ProviderLockInv
<1>4. ASSUME NEW w \in Workers, ReadAccount(w) PROVE ProviderInv'
  BY <1>4, ProviderReadInv
<1>5. ASSUME NEW w \in Workers, UpsertProvider(w) PROVE ProviderInv'
  BY <1>5, ProviderUpsertInv
<1>6. ASSUME NEW w \in Workers, ListGateways(w) PROVE ProviderInv'
  BY <1>6, ProviderListInv
<1>7. ASSUME NEW w \in Workers, DisableGateway(w) PROVE ProviderInv'
  BY <1>7, ProviderDisableInv
<1>8. ASSUME NEW w \in Workers, CommitProvider(w) PROVE ProviderInv'
  BY <1>8, ProviderCommitInv
<1>9. ASSUME NEW w \in Workers, AbortProvider(w) PROVE ProviderInv'
  BY <1>9, ProviderAbortInv
<1> QED
  BY <1>1, <1>2, <1>3, <1>4, <1>5, <1>6, <1>7, <1>8, <1>9 DEF ProviderNext

LEMMA ProviderAlways == ProviderSpec => []ProviderInv
BY ProviderInitInv, ProviderStepInv, PTL DEF ProviderSpec

\* Every variable keeps its type and an account that is on has its key, whatever saves run at
\* once (UpdateProvider).
THEOREM ProviderTypesCorrect == ProviderSpec => []ProviderTypeOK
<1>1. ProviderInv => ProviderTypeOK
  BY DEF ProviderInv
<1> QED BY <1>1, ProviderAlways, PTL

\* An empty key keeps the saved one (applyProviderInput), however many saves of an account run at
\* once: only a typed key replaces it.
THEOREM KeysStay == ProviderSpec => KeysKept
<1> DEFINE Told(p) == key'[p] # key[p] =>
                        \E w \in Workers : /\ providerPc[w] = "committing" /\ code[w] = p
                                           /\ typed[w] # None /\ key'[p] = typed[w]
<1>1. ASSUME ProviderInv, [ProviderNext]_providerVars, NEW p \in Providers PROVE Told(p)
  <2>1. CASE UNCHANGED key
    BY <2>1
  <2>2. ASSUME NEW w \in Workers, CommitProvider(w) PROVE Told(p)
    <3>1. providerPc[w] = "committing" /\ key' = [key EXCEPT ![code[w]] = kept[w]]
      BY <2>2 DEF CommitProvider
    <3>t. key \in [Providers -> Keys \cup {None}]
      BY <1>1 DEF ProviderInv, ProviderTypeOK
    <3>r. ProviderAtWork /\ providerPc[w] \in ProviderRead /\ providerPc[w] # "idle"
      BY <1>1, <3>1 DEF ProviderInv, ProviderRead
    <3>2. kept[w] = Merged(w) /\ code[w] \in Providers
      BY <1>1, <3>r DEF ProviderInv, ProviderTypeOK, ProviderAtWork, KeepsIt
    <3>3. CASE p # code[w] \/ typed[w] = None
      BY <3>1, <3>t, <3>2, <3>3 DEF Merged
    <3>4. CASE p = code[w] /\ typed[w] # None
      BY <3>1, <3>t, <3>2, <3>4 DEF Merged
    <3> QED BY <3>3, <3>4
  <2>3. ProviderNext => UNCHANGED key \/ \E w \in Workers : CommitProvider(w)
    BY DEF ProviderNext, UpdateProvider, LockProvider, ReadAccount, UpsertProvider, ListGateways,
           DisableGateway, AbortProvider, providerRows
  <2> QED BY <1>1, <2>1, <2>2, <2>3 DEF providerVars, providerRows
<1>2. ProviderInv /\ [ProviderNext]_providerVars => [\A p \in Providers : Told(p)]_providerVars
  BY <1>1
<1> QED BY <1>2, ProviderAlways, PTL DEF ProviderSpec, KeysKept
-----------------------------------------------------------------------------
(* One gateway that sends texts. *)

(* A save that has come to switch the others off has yet to reach the ones on its list, has
   switched off those it left, and any other that is on came on after the list was made. *)
Off(w) ==
    /\ providerPc[w] # "disabling" => listed[w] = {}
    /\ providerPc[w] \in {"listing", "disabling"} => SwitchesOff(w)
    /\ providerPc[w] \in {"disabling", "committing"} /\ SwitchesOff(w) =>
          (enabled \cap Gateways) \ ({code[w]} \cup disabled[w] \cup listed[w]) \subseteq late[w]

OffInv == \A w \in Workers : Off(w)

SameOff(x) ==
    /\ providerPc'[x] = providerPc[x] /\ code'[x] = code[x] /\ wantOn'[x] = wantOn[x]
    /\ listed'[x] = listed[x] /\ disabled'[x] = disabled[x]

\* A save that ends leaves the other gateways as they are.
LEMMA OffDone ==
    ASSUME NEW w \in Workers, ProviderTypeOK, ProviderDone(w)
    PROVE  Off(w)' /\ \A x \in Workers \ {w} : SameOff(x)
BY DEF ProviderTypeOK, ProviderDone, ProviderGoto, Off, SameOff

(* What a save has seen and done stays true while others do anything but commit. *)
LEMMA OffSame ==
    ASSUME NEW x \in Workers, Off(x), SameOff(x), enabled' = enabled,
           providerPc[x] \in {"disabling", "committing"} => late'[x] = late[x]
    PROVE  Off(x)'
BY DEF Off, SameOff, SwitchesOff

\* So does one that starts.
LEMMA OffStart ==
    ASSUME ProviderTypeOK, \A x \in Workers : Off(x), NEW w \in Workers, NEW p \in Providers,
           NEW k \in Keys \cup {None}, NEW on \in BOOLEAN, UpdateProvider(w, p, k, on)
    PROVE  \A x \in Workers : Off(x)'
<1> USE DEF UpdateProvider, ProviderGoto, providerRows, providerWork
<1>1. Off(w)'
  BY DEF ProviderTypeOK, Off
<1>2. ASSUME NEW x \in Workers, x # w PROVE Off(x)'
  <2>1. SameOff(x)
    BY <1>2 DEF ProviderTypeOK, SameOff
  <2> QED BY <2>1, OffSame
<1> QED BY <1>1, <1>2

\* A save that goes on with its gateway has switched off what it must.
LEMMA OffMove ==
    ASSUME ProviderTypeOK, \A x \in Workers : Off(x), NEW w \in Workers,
           LockProvider(w) \/ ReadAccount(w) \/ UpsertProvider(w) \/ ListGateways(w) \/ DisableGateway(w)
    PROVE  \A x \in Workers : Off(x)'
<1>1. ASSUME NEW x \in Workers, x # w PROVE Off(x)'
  <2>1. SameOff(x)
    <3>1. CASE ProviderDone(w)
      BY <1>1, <3>1, OffDone
    <3>2. CASE ~ProviderDone(w)
      BY <1>1, <3>2 DEF LockProvider, ReadAccount, UpsertProvider, ListGateways, DisableGateway, ProviderGoto,
                        form, providerWork, ProviderTypeOK, SameOff
    <3> QED BY <3>1, <3>2
  <2>2. late'[x] = late[x] /\ enabled' = enabled
    BY <1>1 DEF LockProvider, ReadAccount, UpsertProvider, ListGateways, DisableGateway, providerRows,
                providerWork, ProviderTypeOK
  <2> QED BY <2>1, <2>2, OffSame
<1>2. CASE ProviderDone(w)
  BY <1>1, <1>2, OffDone
<1>3. ASSUME ~ProviderDone(w) PROVE Off(w)'
  <2>1. CASE LockProvider(w)
    BY <2>1 DEF LockProvider, ProviderGoto, form, providerWork, ProviderTypeOK, Off
  <2>2. CASE ReadAccount(w)
    BY <1>3, <2>2 DEF ReadAccount, ProviderGoto, ProviderTypeOK, Off
  <2>3. CASE UpsertProvider(w)
    <3>1. UNCHANGED <<form, listed>> /\ listed[w] = {}
      BY <2>3 DEF UpsertProvider, providerWork, Off
    <3>2. \/ SwitchesOff(w) /\ providerPc'[w] = "listing"
          \/ ~SwitchesOff(w) /\ providerPc'[w] = "committing"
      BY <2>3 DEF UpsertProvider, ProviderGoto, ProviderTypeOK
    <3> QED BY <3>1, <3>2 DEF Off, SwitchesOff, form
  <2>4. CASE ListGateways(w)
    <3>1. /\ providerPc'[w] = "disabling" /\ listed'[w] = (enabled \cap Gateways) \ {code[w]}
          /\ UNCHANGED <<enabled, form>> /\ SwitchesOff(w)
      BY <2>4 DEF ListGateways, ProviderGoto, providerRows, ProviderTypeOK, Off
    <3> QED BY <3>1 DEF Off, SwitchesOff, form
  <2>5. CASE DisableGateway(w)
    <3>0. /\ UNCHANGED <<enabled, form, late>> /\ SwitchesOff(w)
          /\ (enabled \cap Gateways) \ ({code[w]} \cup disabled[w] \cup listed[w]) \subseteq late[w]
      BY <2>5 DEF DisableGateway, providerRows, Off
    <3>1. \/ providerPc'[w] = "disabling"
          \/ providerPc'[w] = "committing" /\ listed'[w] = {}
      BY <2>5 DEF DisableGateway, ProviderGoto, ProviderTypeOK
    <3>2. disabled[w] \cup listed[w] = disabled'[w] \cup listed'[w]
      BY <2>5 DEF DisableGateway, ProviderTypeOK
    <3> QED BY <3>0, <3>1, <3>2 DEF Off, SwitchesOff, form
  <2> QED BY <2>1, <2>2, <2>3, <2>4, <2>5
<1> QED BY <1>1, <1>2, <1>3

(* A gateway that another save switches on after the list was made is one of the late ones. *)
LEMMA OffCommit ==
    ASSUME ProviderTypeOK, \A x \in Workers : Off(x), NEW w \in Workers, CommitProvider(w)
    PROVE  \A x \in Workers : Off(x)'
<1>1. Off(w)' /\ \A x \in Workers \ {w} : SameOff(x)
  BY OffDone DEF CommitProvider
<1>2. ASSUME NEW x \in Workers, x # w PROVE Off(x)'
  <2>1. SameOff(x)
    BY <1>1, <1>2
  <2>2. providerPc[x] \in {"disabling", "committing"} =>
            late'[x] = late[x] \cup (Gateways \cap (enabled' \ enabled))
    BY <1>2 DEF CommitProvider
  <2> QED BY <2>1, <2>2 DEF Off, SameOff, SwitchesOff
<1> QED BY <1>1, <1>2

LEMMA OffAbort ==
    ASSUME ProviderTypeOK, \A x \in Workers : Off(x), NEW w \in Workers, AbortProvider(w)
    PROVE  \A x \in Workers : Off(x)'
BY OffDone, OffSame DEF AbortProvider, providerRows

LEMMA OffStep == ProviderInv /\ OffInv /\ [ProviderNext]_providerVars => OffInv'
<1> SUFFICES ASSUME ProviderTypeOK, \A x \in Workers : Off(x), [ProviderNext]_providerVars
             PROVE  \A x \in Workers : Off(x)'
  BY DEF ProviderInv, OffInv
<1>1. CASE UNCHANGED providerVars
  BY <1>1 DEF providerVars, providerRows, form, providerWork, Off, SwitchesOff
<1> QED
  BY <1>1, OffStart, OffMove, OffCommit, OffAbort DEF ProviderNext

\* A gateway saved as on leaves on only those that others switched on while its statement that
\* switches the rest off (DisableProvidersExcept) was already running, however many saves run.
THEOREM OneGateway == ProviderSpec => []OthersOff
<1>1. ProviderInit => OffInv
  BY DEF ProviderInit, OffInv, Off
<1>2. OffInv => OthersOff
  BY DEF OffInv, Off, OthersOff, SwitchesOff
<1> QED
  BY <1>1, <1>2, OffStep, ProviderAlways, PTL DEF ProviderSpec
===============================================================================
