------------------------------- MODULE Zones -------------------------------
(***************************************************************************)
(* Where the shop delivers (httpapi/shipping.go): zones of districts, each *)
(* with its charge.  A district is in one active zone only, which the      *)
(* database does not enforce: saveZone looks before it writes, under a     *)
(* lock on the table.                                                      *)
(***************************************************************************)
EXTENDS Requests, Integers, FiniteSets

CONSTANTS
    Districts,
    Zones     \* rows of shipping_zones: a bound

ASSUME ZonesAssumption == None \notin Zones \cup Workers

VARIABLES
    districts,  \* districts[z]: shipping_zones.districts, {} for no row
    active,     \* zones that are switched on
    zoneLock,   \* the save that has locked the table
    zonePc,     \* zonePc[w]: what save w does next
    zone,       \* zone[w]: the row it writes, None for a new one that has no row yet
    wanted,     \* wanted[w]: the districts it gives it
    switchOn    \* switchOn[w]: whether it is to be active

zoneRows == <<districts, active>>
zoneReqs == <<zonePc, zone, wanted, switchOn>>
zoneVars == <<zoneRows, zoneLock, zoneReqs>>

ZoneLocked == {"checking", "writing", "committing"}

\* Types, and that the table is locked by a save that is past its lock.
ZoneTypeOK ==
    /\ districts \in [Zones -> SUBSET Districts]
    /\ active \subseteq Zones
    /\ zoneLock \in Workers \cup {None}
    /\ zonePc \in [Workers -> {"idle", "locking"} \cup ZoneLocked]
    /\ zone \in [Workers -> Zones \cup {None}]
    /\ wanted \in [Workers -> SUBSET Districts]
    /\ switchOn \in [Workers -> BOOLEAN]
    /\ zoneLock # None => zonePc[zoneLock] \in ZoneLocked

ZoneInit ==
    /\ districts = [z \in Zones |-> {}]
    /\ active = {}
    /\ zoneLock = None
    /\ zonePc = [w \in Workers |-> "idle"]
    /\ zone = [w \in Workers |-> None]
    /\ wanted = [w \in Workers |-> {}]
    /\ switchOn = [w \in Workers |-> FALSE]

ZoneGoto(w, step) == zonePc' = [zonePc EXCEPT ![w] = step]

\* The transaction ends, which gives its lock back.
ZoneDone(w) ==
    /\ ZoneGoto(w, "idle")
    /\ zone' = [zone EXCEPT ![w] = None]
    /\ wanted' = [wanted EXCEPT ![w] = {}]
    /\ switchOn' = [switchOn EXCEPT ![w] = FALSE]
    /\ zoneLock' = IF zoneLock = w THEN None ELSE zoneLock

\* CreateShippingZone (z is None) or UpdateShippingZone, with districts the shop knows.
SaveZone(w, z, ds, on) ==
    /\ zonePc[w] = "idle"
    /\ ds # {}
    /\ z # None => districts[z] # {}
    /\ ZoneGoto(w, "locking")
    /\ zone' = [zone EXCEPT ![w] = z]
    /\ wanted' = [wanted EXCEPT ![w] = ds]
    /\ switchOn' = [switchOn EXCEPT ![w] = on]
    /\ UNCHANGED <<zoneRows, zoneLock>>

\* Mutant: LOCK TABLE ... IN ROW EXCLUSIVE MODE, which saves do not wait for.
ZoneFreeAlways(w) == w \in Workers

\* SHARE ROW EXCLUSIVE: neither another save nor a deletion runs beside it.
ZoneFree(w) == zoneLock = None

LockShippingZones(w) ==
    /\ zonePc[w] = "locking"
    /\ ZoneFree(w)
    /\ zoneLock' = w
    /\ ZoneGoto(w, IF switchOn[w] THEN "checking" ELSE "writing")
    /\ UNCHANGED <<zoneRows, zone, wanted, switchOn>>

\* DistrictsTakenElsewhere.
TakenElsewhere(w) ==
    \E z \in active \ {zone[w]} : districts[z] \cap wanted[w] # {}

\* An active zone is refused a district that another active zone has.
CheckDistricts(w) ==
    /\ zonePc[w] = "checking"
    /\ IF TakenElsewhere(w)
       THEN ZoneDone(w)
       ELSE ZoneGoto(w, "writing") /\ UNCHANGED <<zoneLock, zone, wanted, switchOn>>
    /\ UNCHANGED zoneRows

\* Written for this save only: a new row, or one that has not been deleted meanwhile.
WriteZone(w) ==
    /\ zonePc[w] = "writing"
    /\ \/ \E z \in Zones :
            /\ IF zone[w] = None
               THEN districts[z] = {} /\ \A x \in Workers : zone[x] # z
               ELSE z = zone[w] /\ districts[z] # {}
            /\ zone' = [zone EXCEPT ![w] = z]
            /\ ZoneGoto(w, "committing")
            /\ UNCHANGED <<zoneLock, wanted, switchOn>>
       \/ /\ zone[w] # None /\ districts[zone[w]] = {}
          /\ ZoneDone(w)
    /\ UNCHANGED zoneRows

CommitZone(w) ==
    /\ zonePc[w] = "committing"
    /\ districts' = [districts EXCEPT ![zone[w]] = wanted[w]]
    /\ active' = IF switchOn[w] THEN active \cup {zone[w]} ELSE active \ {zone[w]}
    /\ ZoneDone(w)

\* The client goes away or the server stops.
AbortZone(w) ==
    /\ zonePc[w] # "idle"
    /\ ZoneDone(w)
    /\ UNCHANGED zoneRows

\* DeleteShippingZone waits for a save, whose lock covers the table.
DeleteZone(z) ==
    /\ zoneLock = None
    /\ districts[z] # {}
    /\ districts' = [districts EXCEPT ![z] = {}]
    /\ active' = active \ {z}
    /\ UNCHANGED <<zoneLock, zoneReqs>>

ZoneNext ==
    \/ \E w \in Workers, z \in Zones \cup {None}, ds \in SUBSET Districts, on \in BOOLEAN :
        SaveZone(w, z, ds, on)
    \/ \E w \in Workers :
        LockShippingZones(w) \/ CheckDistricts(w) \/ WriteZone(w) \/ CommitZone(w) \/ AbortZone(w)
    \/ \E z \in Zones : DeleteZone(z)

ZoneSpec == ZoneInit /\ [][ZoneNext]_zoneVars

-----------------------------------------------------------------------------
(* Properties. *)

\* A district is in one active zone only, however many saves run at once, so that every quote
\* and every order for it has one charge (ZoneForDistrict takes any one row).
OneZoneEach ==
    \A z, y \in active : z # y => districts[z] \cap districts[y] = {}
=============================================================================
