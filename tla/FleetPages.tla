----------------------------- MODULE FleetPages -----------------------------
(***************************************************************************)
(* The hub's dashboard over what FleetSnapshot keeps: web/fleet.go,        *)
(* web/rotate.go and the queries of repo/fleet.go behind them.  A page     *)
(* asks the database several questions, one statement each and nothing     *)
(* around them, while pushes are stored and the pairing page is used.      *)
(*                                                                         *)
(* A page of one statement cannot be caught in between and is an operator. *)
(* Of two versions of the machine one may have a package: it is the one    *)
(* searched for, the finding of it is critical malware.                    *)
(***************************************************************************)
EXTENDS FleetSnapshot

CONSTANT Exposed      \* versions of the machine that have the package

ASSUME ExposedAssumption == Exposed \subseteq (1..MaxVersion) \ EmptyAt

VARIABLE view         \* the page being built, of any kind

\* at      the statement the page asks next
\* listed  what its first statement said: inventory on file, an exposure
\* since   history: the report the machine was last seen with when the page was
\*         opened, for each table of the page that report replaced
\* cleared history: the inventory was cleared in between
Unseen == [t \in Tables |-> 0]
Closed == [at |-> "closed", listed |-> FALSE, since |-> Unseen, cleared |-> FALSE]

PageTypeOK ==
    /\ FleetTypeOK
    /\ view \in [at : {"closed", "counts", "hits", "ticks", "credentials"}, listed : BOOLEAN,
                 since : [Tables -> 0..MaxVersion], cleared : BOOLEAN]

Open(next, asked, listed) ==
    /\ view = Closed
    /\ view' = [at |-> next, listed |-> listed, cleared |-> FALSE,
                since |-> [t \in Tables |-> IF t \in asked \cap seen.takes THEN seen.read ELSE 0]]

------------------------------------------------------------------------------
\* The fleet page.  Counts are asked for a device that is approved, as Devices
\* returned it.

HandleFleet == standing = "approved" /\ Open("counts", {"findings"}, FALSE)

FleetFindingCounts == view.at = "counts" /\ view' = Closed

EverReported(at) == at.read # 0

\* The state the page's summary gives a fleet of this one device, whose last
\* report is recent or not.
Summary(state, at, recent, findings) ==
    LET reporting == state = "approved" /\ EverReported(at) /\ recent
    IN  IF reporting /\ findings \in Exposed THEN "needs attention now"
        ELSE IF state = "pending" \/ (state = "approved" /\ ~reporting) THEN "needs a look"
        ELSE "all clear"

------------------------------------------------------------------------------
\* The search page: which machines are searched, then where the package is.

\* Mutant: a device is searched if its level says so.
OnFileByLevel == level = "full"

OnFile == table["packages"] # 0

\* A machine without inventory on file is named as not searched.
InventoryCoverage ==
    standing = "approved" /\ Open("hits", IF OnFile THEN {"packages"} ELSE {}, OnFile)

Found == table["packages"] \in Exposed

SearchPackages == view.at = "hits" /\ view' = Closed

------------------------------------------------------------------------------
\* The rotation page: exposures, what was done about them, and what each
\* machine holds.  It asks whatever the device's status.

FleetMalwareFindings ==
    Open("ticks", {"rotation", "credentials"}, table["findings"] \in Exposed)

FleetRotation ==
    /\ view.at = "ticks"
    /\ view' = [view EXCEPT !.at = "credentials"]

FleetCredentials == view.at = "credentials" /\ view' = Closed

\* Marked on the pages of credentials and of inventory.
Withheld == level # "full"

\* An empty list that is not withheld.
HoldsNone == standing = "approved" /\ ~Withheld /\ table["credentials"] = 0
HasNone == standing = "approved" /\ ~Withheld /\ table["packages"] = 0

\* The quarantine page shows where a package was taken from if the path
\* crossed the wire: the agent's level alone decides.
PathReplicated == table["quarantine"] # 0 /\ agentLevel = "full"

------------------------------------------------------------------------------
PagesInit == FleetInit /\ view = Closed

\* What goes on while a page is built.
Meanwhile ==
    /\ FleetNext
    /\ view' = IF view.at = "hits" /\ OnFile /\ ~OnFile'
                 THEN [view EXCEPT !.cleared = TRUE]
                 ELSE view

Ask ==
    /\ \/ HandleFleet \/ FleetFindingCounts
       \/ InventoryCoverage \/ SearchPackages
       \/ FleetMalwareFindings \/ FleetRotation \/ FleetCredentials
    /\ UNCHANGED fleetVars

PagesNext == Meanwhile \/ Ask

\* FleetSnapshot's fairness; nobody has to look at a page.
PagesSpec ==
    /\ PagesInit /\ [][PagesNext]_<<fleetVars, view>>
    /\ WF_fleetVars(\E s \in Slots : SyncOnce(s))
    /\ \A s \in Slots : WF_fleetVars(ServePush(s))
    /\ WF_fleetVars(ClearInventory \/ ClearingFails)

------------------------------------------------------------------------------
\* The table the page's next statement reads.
Reads == [counts |-> "findings", hits |-> "packages",
          ticks |-> "rotation", credentials |-> "credentials"]

\* hub/sync.go: "last_seen_at is what the fleet page reads to decide a machine
\* is reporting".  While pushes do not overlap, whatever a page shows beside
\* it, asked for statement by statement, is no older than the report it was
\* last seen with: but for an inventory cleared in the meantime.
PageIsBacked ==
    [][ view.at # "closed" /\ view'.at # view.at /\ ~overlapped
        => LET t == Reads[view.at] IN table[t] >= view.since[t] \/ view.cleared ]_<<fleetVars, view>>

\* repo/fleet.go: "A search across three machines that returns nothing, when
\* only one of them ever sent an inventory, is the difference between 'nowhere'
\* and 'we did not look'".  A page that names the machine as searched and shows
\* no hit looked at an inventory without the package.
NowhereMeansLooked ==
    [][ view.at = "hits" /\ view'.at = "closed" /\ view.listed /\ ~Found /\ ~view.cleared
        => table["packages"] \in (1..MaxVersion) \ Exposed ]_<<fleetVars, view>>

------------------------------------------------------------------------------
\* Where the pages part from what is said of them.

\* fleet/protocol.go: "a findings-level agent's empty list would ... render
\* every machine as holding no credentials at all"; web/fleetpages.go: "an empty
\* list is a setting rather than an empty machine".  A list shown as empty, and
\* not as withheld, was reported empty.
EmptyListWasReported ==
    /\ HoldsNone => "credentials" \in seen.takes
    /\ HasNone => "packages" \in seen.takes

\* fleet/protocol.go: "OriginPath is omitted below sync_level = full", on the
\* terms of the inventory, for which "the hub's record of the level is
\* authoritative" (hub/sync.go).
PathsAtLevel == level = "findings" /\ ~clearing => ~PathReplicated

\* web/fleet.go, of the summary: a fleet nobody hears from is not all clear.
AllClearWasHeard ==
    \A recent \in BOOLEAN :
        Summary(standing, seen, recent, table["findings"]) = "all clear"
            => standing = "approved" /\ EverReported(seen)

\* web/rotate.go: zero done and nothing recorded are different claims.  An
\* exposure is shown with the ticks of the same report, or later ones.
TicksOfTheExposure ==
    [][ view.at = "ticks" /\ view'.at = "credentials" /\ view.listed /\ ~overlapped
        => table["rotation"] >= table["findings"] ]_<<fleetVars, view>>

\* A search that finds nothing looked at the inventory as of the machine's last
\* report, "last_seen_at" being all a page says of its age.
NowhereIsNow ==
    [][ view.at = "hits" /\ view'.at = "closed" /\ view.listed /\ ~Found
        /\ ~view.cleared /\ ~overlapped
        => table["packages"] >= seen.read ]_<<fleetVars, view>>
=============================================================================
