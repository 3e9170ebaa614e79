---------------------------- MODULE ScriptGuard ----------------------------
(***************************************************************************)
(* The script guard: cli/scripts.go, scriptguard/scriptguard.go and        *)
(* repo/scripts.go.  npm runs the install scripts of what it unpacks       *)
(* unless ignore-scripts is set; `pkgwatch enable-script-guard` sets it in *)
(* the user's npm config.  An allowance is a row of script_allowlist and   *)
(* one `npm rebuild` of that package with the setting overridden.          *)
(*                                                                         *)
(* Commands run in any terminal, each a sequence of npm calls and          *)
(* statements between which others run, npm installs and people edit their *)
(* configs.  Any step may fail or be killed, and an install script may     *)
(* never come to an end, or outlive the npm that started it.               *)
(*                                                                         *)
(* Every package here declares install scripts.  What the commands print   *)
(* is left out, and with it what they read only to print it.               *)
(***************************************************************************)
EXTENDS Naturals, FiniteSets

CONSTANTS
    Packages,   \* npm packages with install scripts
    Projects,   \* directories npm is run in
    Terminals,  \* where commands are typed
    KillFrees,  \* killing npm closes the pipes its output is read from
    MaxEdits    \* bound: commands, failures, and what people and npm do

ASSUME ScriptAssumption == KillFrees \in BOOLEAN /\ MaxEdits \in Nat

VARIABLES
    userrc,     \* ignore-scripts in the user's npm config
    projectrc,  \* project -> ignore-scripts in what overrides that: its .npmrc, the environment
    allowlist,  \* script_allowlist: package -> no row, or one with or without revoked_at
    tree,       \* project -> package -> how it is unpacked there
    cmd,        \* terminal -> the step its command is at, its package and project
    strays,     \* rebuilds that go on with no command waiting for them
    edits

npm  == <<userrc, projectrc, tree>>
guardVars == <<npm, allowlist, cmd, strays, edits>>

Settings == {"unset", "true", "false"}
Rest     == [at |-> "idle", pkgs |-> {}, dirs |-> {}]

GuardTypeOK ==
    /\ userrc \in Settings /\ projectrc \in [Projects -> Settings]
    /\ allowlist \in [Packages -> {"none", "active", "revoked"}]
    /\ tree \in [Projects -> [Packages -> {"absent", "unbuilt", "built"}]]
    /\ cmd \in [Terminals -> [at : {"idle", "set", "print", "delete", "noted", "building"},
                              pkgs : SUBSET Packages, dirs : SUBSET Projects]]
    /\ strays \subseteq Projects \X Packages
    /\ edits \in 0..MaxEdits

GuardInit ==
    /\ userrc \in Settings /\ projectrc \in [Projects -> {"unset", "false"}]
    /\ allowlist = [p \in Packages |-> "none"]
    /\ tree = [d \in Projects |-> [p \in Packages |-> "absent"]]
    /\ cmd = [t \in Terminals |-> Rest] /\ strays = {} /\ edits = 0

Edit        == edits < MaxEdits /\ edits' = edits + 1
Goto(t, at) == cmd' = [cmd EXCEPT ![t].at = at]
Ends(t)     == cmd' = [cmd EXCEPT ![t] = Rest]
Active(p)   == allowlist[p] = "active"
Running(t)  == cmd[t].dirs \X cmd[t].pkgs

------------------------------------------------------------------------------
\* npm.

\* What npm goes by in a project, and what `npm config get` says there.
Effective(d) ==
    LET said == IF projectrc[d] = "unset" THEN userrc ELSE projectrc[d]
    IN  IF said = "unset" THEN "false" ELSE said

\* `npm install` of a package that is not there, or of another version of it.
NpmInstall(d, p) ==
    /\ Edit
    /\ tree' = [tree EXCEPT ![d][p] = IF Effective(d) = "true" THEN "unbuilt" ELSE "built"]
    /\ UNCHANGED <<userrc, projectrc, allowlist, cmd, strays>>

\* A person sets or removes the setting, for themselves or for a project.
EditConfig ==
    /\ Edit
    /\ \/ userrc' \in Settings \ {userrc} /\ UNCHANGED projectrc
       \/ /\ \E d \in Projects : \E v \in Settings \ {projectrc[d]} :
                projectrc' = [projectrc EXCEPT ![d] = v]
          /\ UNCHANGED userrc
    /\ UNCHANGED <<allowlist, tree, cmd, strays>>

\* What a rebuild leaves: the package is built where it is unpacked, and a name
\* that is not unpacked there is not missed.
BuiltIn(done) ==
    [d \in Projects |-> [p \in Packages |->
        IF <<d, p>> \in done /\ tree[d][p] = "unbuilt" THEN "built" ELSE tree[d][p]]]

\* A script that outlived its npm comes to an end.
StrayEnds(s) ==
    /\ strays' = strays \ {s}
    /\ tree' = BuiltIn({s})
    /\ UNCHANGED <<userrc, projectrc, allowlist, cmd, edits>>

------------------------------------------------------------------------------
\* enable-script-guard.

\* The database opens and Status can be read; failing that nothing happens.
EnableGuard(t) ==
    /\ Edit
    /\ cmd[t].at = "idle"
    /\ Goto(t, "set")
    /\ UNCHANGED <<npm, allowlist, strays>>

\* scriptguard.Enable.
Enable(t) ==
    /\ cmd[t].at = "set"
    /\ userrc' = "true"
    /\ Goto(t, "print")
    /\ UNCHANGED <<projectrc, tree, allowlist, strays, edits>>

\* The packages with scripts that no allowance covers are read and named.
PrintNeeding(t) ==
    /\ cmd[t].at = "print"
    /\ Ends(t)
    /\ UNCHANGED <<npm, allowlist, strays, edits>>

\* --off asks nothing but npm.  Of the three values Status reads only the user's
\* setting decides, the others are printed; where it does not set the guard the
\* command says so and ends.
DisableGuard(t) ==
    /\ Edit
    /\ cmd[t].at = "idle" /\ userrc = "true"
    /\ Goto(t, "delete")
    /\ UNCHANGED <<npm, allowlist, strays>>

\* scriptguard.Disable: the setting is deleted, not set to false.
Disable(t) ==
    /\ cmd[t].at = "delete"
    /\ userrc' = "unset"
    /\ Ends(t)
    /\ UNCHANGED <<projectrc, tree, allowlist, strays, edits>>

------------------------------------------------------------------------------
\* allow-scripts.

Noted(t, p, d) == cmd' = [cmd EXCEPT ![t] = [at |-> "noted", pkgs |-> {p}, dirs |-> {d}]]

\* Mutant: the row could not be written, and the package is built all the same.
BuildAnyway(t, p, d) == Noted(t, p, d)

\* The row could not be written: the command ends.
NotRecorded(t, p, d) == cmd' = cmd

\* The decision comes first.  AllowScripts is an upsert that clears revoked_at.
Allow(t, p, d) ==
    /\ Edit
    /\ cmd[t].at = "idle"
    /\ \/ allowlist' = [allowlist EXCEPT ![p] = "active"] /\ Noted(t, p, d)
       \/ allowlist' = allowlist /\ NotRecorded(t, p, d)
    /\ UNCHANGED <<npm, strays>>

\* Status and PackagesWithScripts add notes; then Run starts npm rebuild with
\* the setting overridden.
StartRebuild(t) ==
    /\ cmd[t].at = "noted"
    /\ Goto(t, "building")
    /\ UNCHANGED <<npm, allowlist, strays, edits>>

\* npm rebuild ends.
Rebuilt(t) ==
    /\ cmd[t].at = "building"
    /\ tree' = BuiltIn(Running(t))
    /\ Ends(t)
    /\ UNCHANGED <<userrc, projectrc, allowlist, strays, edits>>

\* Mutant: the rebuild has no deadline.
WithoutDeadline(t) == FALSE

\* RunTimeout is over and npm is killed.  CombinedOutput returns when nothing
\* holds the other end of its pipes any more.
GivesUp(t) == cmd[t].at = "building" /\ KillFrees

\* Run returns an error: the allowance stands.  The script may still be running.
RunFails(t) ==
    /\ GivesUp(t)
    /\ Ends(t)
    /\ strays' \in {strays, strays \cup Running(t)}
    /\ UNCHANGED <<npm, allowlist, edits>>

\* allow-scripts --revoke: one statement, WHERE revoked_at IS NULL.
RevokeScripts(p) ==
    /\ Edit
    /\ Active(p)
    /\ allowlist' = [allowlist EXCEPT ![p] = "revoked"]
    /\ UNCHANGED <<npm, cmd, strays>>

------------------------------------------------------------------------------
\* A command is killed, or one of its npm calls or statements fails.
CommandFails(t) ==
    /\ Edit
    /\ cmd[t].at # "idle"
    /\ Ends(t)
    /\ \/ strays' = strays
       \/ cmd[t].at = "building" /\ strays' = strays \cup Running(t)
    /\ UNCHANGED <<npm, allowlist>>

\* What a command does without anybody's help.
Proceeds(t) ==
    Enable(t) \/ PrintNeeding(t) \/ Disable(t) \/ StartRebuild(t) \/ RunFails(t)

GuardNext ==
    \/ \E t \in Terminals :
         \/ Proceeds(t) \/ Rebuilt(t)
         \/ EnableGuard(t) \/ DisableGuard(t) \/ CommandFails(t)
         \/ \E p \in Packages, d \in Projects : Allow(t, p, d)
    \/ \E d \in Projects, p \in Packages : NpmInstall(d, p)
    \/ \E p \in Packages : RevokeScripts(p)
    \/ \E s \in strays : StrayEnds(s)
    \/ EditConfig

GuardSpec == GuardInit /\ [][GuardNext]_guardVars

\* A command goes on by itself, and its deadline passes.  Nothing makes an
\* install script come to an end: Rebuilt and StrayEnds are not fair.
FairSpec == GuardSpec /\ \A t \in Terminals : WF_guardVars(Proceeds(t))

------------------------------------------------------------------------------
\* Properties.

\* Where ignore-scripts is in force, a package that came up unbuilt has its
\* scripts run only after a decision to allow it is on file, whichever command
\* failed, was killed or was overtaken on the way (cli/scripts.go:219-264): no
\* code runs that is recorded later or never.
RunsOnlyWhatWasAllowed ==
    [][\A d \in Projects, p \in Packages :
          tree[d][p] = "unbuilt" /\ tree'[d][p] = "built" /\ Effective(d) = "true"
              => allowlist[p] # "none"]_guardVars

\* A command that was started ends, also when the install script it runs waits
\* for ever (scriptguard/scriptguard.go:105-111, 141-150).
CommandsEnd == \A t \in Terminals : cmd[t].at # "idle" ~> cmd[t].at = "idle"

\* Of the guard: "install scripts are now off for every npm run as this user"
\* (cli/scripts.go:69).
OffForEveryRun ==
    \A t \in Terminals : cmd[t].at = "print" => \A d \in Projects : Effective(d) = "true"

\* "allowing a package and then upgrading it must not silently re-block its
\* build" (cli/scripts.go:204-206; also repo/scripts.go:14-16).
UpgradeStaysBuilt ==
    [][\A d \in Projects, p \in Packages :
          Active(p) /\ tree[d][p] = "built" => tree'[d][p] = "built"]_guardVars

\* Of a revoked package: it "may no longer run install scripts"
\* (cli/scripts.go:213).
NotAfterRevoke ==
    [][\A d \in Projects, p \in Packages :
          tree[d][p] = "unbuilt" /\ tree'[d][p] = "built" /\ Effective(d) = "true"
              => Active(p)]_guardVars
=============================================================================
