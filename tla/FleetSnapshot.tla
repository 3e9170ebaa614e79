--------------------------- MODULE FleetSnapshot ---------------------------
(***************************************************************************)
(* What the hub holds about one device: agent/sync.go (syncOnce) reads the *)
(* machine and pushes, hub/api.go (requireDevice) and hub/sync.go          *)
(* (handleSync) store table after table, repo/fleet.go replaces each one   *)
(* whole, repo/devices.go keeps status and sync level, which a person      *)
(* changes on the pairing page.  The event queue is EventSync's.           *)
(*                                                                         *)
(* A table's content is the version of the machine it was read from, 0 for *)
(* an empty table.  A push the agent no longer waits for is still served.  *)
(***************************************************************************)
EXTENDS Integers, FiniteSets

CONSTANTS
    MaxVersion,   \* bound: versions of the machine
    EmptyAt,      \* versions at which no package is installed
    Slots,        \* bound: pushes in flight at once
    MaxFaults,    \* bound: failures of any kind
    MaxAdmin      \* bound: changes on the pairing page

ASSUME VersionAssumption == MaxVersion \in Nat \ {0} /\ EmptyAt \subseteq 1..MaxVersion
ASSUME FleetBoundsAssumption == MaxFaults \in Nat /\ MaxAdmin \in Nat

Levels == {"findings", "full"}
Tables == {"findings", "packages", "rotation", "quarantine", "credentials"}
Private == {"packages", "credentials"}       \* only at sync_level = full

\* The order handleSync stores them in.
Place == [findings |-> 1, packages |-> 2, rotation |-> 3, quarantine |-> 4, credentials |-> 5]

Idle == [stage |-> "idle", read |-> 0, offers |-> {}, takes |-> {}, todo |-> {}]
Nobody == "nobody"

VARIABLES
    version,      \* of the machine
    agentLevel,   \* sync_level of the agent's config.toml
    waiting,      \* the push whose answer the agent waits for
    push,         \* the requests in flight
    standing,     \* devices.status
    level,        \* devices.sync_level
    clearing,     \* the level was lowered, the inventory's DELETE is next
    table,        \* the fleet_* rows of this device
    seen,         \* the push last_seen_at is from
    faults, admin,
    overlapped,   \* history: two pushes were in flight at once
    unsettled     \* history: the last change to findings did not get to clear the inventory,
                  \* or did while a push admitted at full was being stored

hub == <<standing, level, clearing, table, seen>>
bounds == <<faults, admin>>
history == <<overlapped, unsettled>>
fleetVars == <<version, agentLevel, waiting, push, hub, bounds, history>>

Pushes == [stage : {"idle", "sent", "storing"}, read : 0..MaxVersion,
           offers : SUBSET Tables, takes : SUBSET Tables, todo : SUBSET Tables]

FleetTypeOK ==
    /\ version \in 1..MaxVersion /\ agentLevel \in Levels
    /\ waiting \in Slots \cup {Nobody} /\ push \in [Slots -> Pushes]
    /\ standing \in {"pending", "approved", "revoked"} /\ level \in Levels
    /\ clearing \in BOOLEAN
    /\ table \in [Tables -> 0..MaxVersion]
    /\ seen \in [read : 0..MaxVersion, takes : SUBSET Tables]
    /\ faults \in 0..MaxFaults /\ admin \in 0..MaxAdmin
    /\ overlapped \in BOOLEAN /\ unsettled \in BOOLEAN

\* The level the agent asks for when it enrols seeds the hub's.
FleetInit ==
    /\ version = 1
    /\ agentLevel \in Levels /\ level = agentLevel
    /\ waiting = Nobody /\ push = [s \in Slots |-> Idle]
    /\ standing = "pending" /\ clearing = FALSE
    /\ table = [t \in Tables |-> 0] /\ seen = [read |-> 0, takes |-> {}]
    /\ faults = 0 /\ admin = 0 /\ overlapped = FALSE /\ unsettled = FALSE

Fault == faults < MaxFaults /\ faults' = faults + 1

------------------------------------------------------------------------------
\* The agent.

MachineChanges ==
    /\ version < MaxVersion
    /\ version' = version + 1
    /\ UNCHANGED <<agentLevel, waiting, push, hub, bounds, history>>

\* What describes findings the hub already holds, or will: sent at any level.
AtEitherLevel == {"findings", "rotation", "quarantine"}

\* The inventory, if there is one, and the credential files, looked up afresh.
AtFull == {"credentials"} \cup (IF version \in EmptyAt THEN {} ELSE {"packages"})

\* What a push offers to replace.
Offers == IF agentLevel = "full" THEN AtEitherLevel \cup AtFull ELSE AtEitherLevel

\* What may not have been read, or not in full (SyncableQuarantine's cap).  A
\* push without findings is not sent.
Unread == {{}, {"rotation"}, {"quarantine"}, {"packages"}}

\* What was not read is not offered, and the rest is pushed.
SyncOnce(s) ==
    /\ waiting = Nobody /\ push[s] = Idle
    /\ \E omitted \in Unread :
          /\ IF omitted = {} THEN UNCHANGED faults ELSE Fault
          /\ push' = [push EXCEPT ![s] = [stage |-> "sent", read |-> version,
                                          offers |-> Offers \ omitted, takes |-> {}, todo |-> {}]]
    /\ waiting' = s
    /\ overlapped' = (overlapped \/ \E o \in Slots : push[o] # Idle)
    /\ UNCHANGED <<version, agentLevel, hub, admin, unsettled>>

\* Over, whether or not anybody hears the answer.
End(s) ==
    /\ push' = [push EXCEPT ![s] = Idle]
    /\ waiting' = IF waiting = s THEN Nobody ELSE waiting

\* The HTTP client's timeout.
AgentGivesUp ==
    /\ waiting # Nobody
    /\ Fault
    /\ waiting' = Nobody
    /\ UNCHANGED <<version, agentLevel, push, hub, admin, history>>

------------------------------------------------------------------------------
\* The hub, one push.

\* Mutant: what is private is refused whatever the level.
TakesPublic(p) == p.offers \ Private

\* The hub's record of the level decides, as it was when the push came in.
Takes(p) == {t \in p.offers : t \in Private => level = "full"}

RequireDevice(s) ==
    /\ push[s].stage = "sent"
    /\ IF standing = "approved"
         THEN /\ push' = [push EXCEPT ![s].stage = "storing", ![s].takes = Takes(push[s]),
                                      ![s].todo = Takes(push[s])]
              /\ UNCHANGED waiting
         ELSE End(s)
    /\ UNCHANGED <<version, agentLevel, hub, bounds, history>>

\* Delete and insert in one transaction: a removal has to reach the hub too.
Replaced(t, p) == p.read

\* The next table the push may replace.
Store(s, t) ==
    /\ push[s].stage = "storing" /\ t \in push[s].todo
    /\ \A u \in push[s].todo : Place[t] <= Place[u]
    /\ table' = [table EXCEPT ![t] = Replaced(t, push[s])]
    /\ push' = [push EXCEPT ![s].todo = @ \ {t}]
    /\ UNCHANGED <<version, agentLevel, waiting, standing, level, clearing, seen, bounds, history>>

ReplaceFindings(s) == Store(s, "findings")
ReplacePackages(s) == Store(s, "packages")
ReplaceRotation(s) == Store(s, "rotation")
ReplaceQuarantine(s) == Store(s, "quarantine")
ReplaceCredentials(s) == Store(s, "credentials")

StoreNext(s) ==
    \/ ReplaceFindings(s) \/ ReplacePackages(s) \/ ReplaceRotation(s)
    \/ ReplaceQuarantine(s) \/ ReplaceCredentials(s)

\* Mutant: the device is touched as soon as its push is admitted.
ReadyAtOnce(p) == p.stage = "storing"

\* Touched last, and only when everything is stored.
Ready(p) == p.stage = "storing" /\ p.todo = {}

TouchDevice(s) ==
    /\ Ready(push[s])
    /\ seen' = [read |-> push[s].read, takes |-> push[s].takes]
    /\ End(s)
    /\ UNCHANGED <<version, agentLevel, standing, level, clearing, table, bounds, history>>

\* A request that is lost, a statement that fails (500), a hub that stops.
PushFails(s) ==
    /\ push[s] # Idle
    /\ Fault
    /\ End(s)
    /\ UNCHANGED <<version, agentLevel, hub, admin, history>>

------------------------------------------------------------------------------
\* The pairing page.

Administer == admin < MaxAdmin /\ admin' = admin + 1

ChangeStatus(new) ==
    /\ Administer
    /\ standing' = new
    /\ UNCHANGED <<version, agentLevel, waiting, push, level, clearing, table, seen, faults, history>>

Admitted(t) == \E s \in Slots : push[s].stage = "storing" /\ t \in push[s].todo

\* SetDeviceSyncLevel: two statements, the level and then the inventory.
SetDeviceSyncLevel(new) ==
    /\ Administer /\ ~clearing
    /\ level' = new
    /\ clearing' = (new = "findings")
    /\ UNCHANGED <<version, agentLevel, waiting, push, standing, table, seen, faults, history>>

\* Mutant: the level alone is lowered.
ClearNothing == table

Cleared == [table EXCEPT !["packages"] = 0]

ClearInventory ==
    /\ clearing
    /\ table' = Cleared
    /\ clearing' = FALSE
    /\ unsettled' = \E t \in Private : Admitted(t)
    /\ UNCHANGED <<version, agentLevel, waiting, push, standing, level, seen, bounds, overlapped>>

\* The DELETE fails, or the hub is killed before it: the level stays lowered.
ClearingFails ==
    /\ clearing
    /\ Fault
    /\ clearing' = FALSE
    /\ unsettled' = TRUE
    /\ UNCHANGED <<version, agentLevel, waiting, push, standing, level, table, seen, admin, overlapped>>

------------------------------------------------------------------------------
ServePush(s) == RequireDevice(s) \/ StoreNext(s) \/ TouchDevice(s)

FleetNext ==
    \/ MachineChanges \/ AgentGivesUp \/ ClearInventory \/ ClearingFails
    \/ \E s \in Slots : SyncOnce(s) \/ ServePush(s) \/ PushFails(s)
    \/ \E new \in {"approved", "revoked"} : ChangeStatus(new)
    \/ \E new \in Levels : SetDeviceSyncLevel(new)

\* The sync timer keeps firing, the hub serves what it receives, and a page's
\* second statement follows its first or fails.
FleetSpec ==
    /\ FleetInit /\ [][FleetNext]_fleetVars
    /\ WF_fleetVars(\E s \in Slots : SyncOnce(s))
    /\ \A s \in Slots : WF_fleetVars(ServePush(s))
    /\ WF_fleetVars(ClearInventory \/ ClearingFails)

------------------------------------------------------------------------------
\* hub/sync.go: "last_seen_at is what the fleet page reads to decide a machine
\* is reporting".  While pushes do not overlap, every table the last counted
\* push was to replace holds what it read or something newer; but for an
\* inventory cleared since.
CheckInIsBacked ==
    ~overlapped =>
        \A t \in seen.takes :
            table[t] >= seen.read \/ (t = "packages" /\ table[t] = 0)

\* A device whose last change to findings went through has no inventory on the
\* hub, whatever earlier changes left there, unless a push admitted at full was
\* still being stored at that moment.  A change whose second statement fails
\* leaves the inventory: InventoryWithdrawn.
InventoryAtLevel ==
    level = "findings" /\ ~clearing /\ ~unsettled => table["packages"] = 0

\* repo/devices.go: "Dropping to findings clears what was already collected."
InventoryWithdrawn == level = "findings" /\ ~clearing => table["packages"] = 0

\* hub/sync.go: "Credentials, on exactly the terms the inventory travels on".
CredentialsAtLevel ==
    level = "findings" /\ ~clearing /\ ~unsettled => table["credentials"] = 0

\* Whatever failed, overlapped or arrived late before, once the machine stays
\* as it is an approved device's tables agree with it for good.  (A machine
\* without packages offers no inventory: the hub keeps the old one.)
SnapshotConverges ==
    <>[](standing = "approved" =>
            \A t \in Offers : (t \in Private => level = "full") => table[t] = version)

\* repo/fleet.go, of ReplacePackages: "an uninstall has to be able to reach the
\* hub".  An agent without packages offers none, so the last uninstall does not.
UninstallsArrive ==
    <>[](standing = "approved" /\ level = "full" /\ agentLevel = "full" /\ version \in EmptyAt
            => table["packages"] \in {0, version})
=============================================================================
