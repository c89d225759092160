----------------------------- MODULE Unionvisor -----------------------------
(***************************************************************************)
(* Unionvisor, which runs uniond and replaces its binary when the chain    *)
(* upgrades (unionvisor/src), under the systemd unit that starts it again  *)
(* whenever it ends (unionvisor.nix: init --allow-dirty, then run).        *)
(*                                                                         *)
(* The node is external.  It halts at the height of the next upgrade and   *)
(* says so in upgrade-info.json, which it truncates and then writes; a     *)
(* binary that knows the upgrade applies it to the home directory instead. *)
(* A crash ends unionvisor and the node, at any point.                     *)
(***************************************************************************)
EXTENDS Integers

CONSTANTS
  Last,        \* versions are 1 .. Last, each one upgrade after the other
  Bundle,      \* the versions whose binaries the bundle has
  Fallback,    \* its fallback_version, which the chain started with
  MaxRetries,  \* how often read_upgrade_info reads again
  MaxFaults    \* bound: crashes, failed backups and swaps, torn writes, exits

ASSUME VersionAssumption ==
  /\ Last \in Nat /\ Bundle \subseteq 1..Last /\ Fallback \in Bundle
  /\ MaxRetries \in Nat /\ MaxFaults \in Nat

NoLink == 0
Torn == -1

VARIABLES
  link,     \* the version the symlink points to
  home,     \* the version whose state is in the home directory
  backup,   \* the version whose home the backup has all of, or Torn
  file,     \* upgrade-info.json
  node,     \* the child: its version and where it is
  visor,    \* unionvisor: where it is, and its variables
  faults, linkLost  \* faults so far; whether one left no link

vars == <<link, home, backup, file, node, visor, faults, linkLost>>

NoNode == [version |-> 0, at |-> "none"]

running(version) == [version |-> version, at |-> "running"]

(* current is the FileReader's, upgrade the one that is under way; tries   *)
(* and consumed belong to the file that is being read.                     *)
visorAt(at, current, upgrade) ==
  [at |-> at, current |-> current, upgrade |-> upgrade, tries |-> 0, consumed |-> FALSE]

Down == visorAt("down", 0, 0)

Init ==
  /\ link = Fallback /\ home = Fallback /\ backup = 0
  /\ file = [content |-> "absent", name |-> 0]
  /\ node = NoNode /\ visor = Down
  /\ faults = 0 /\ linkLost = FALSE

(* run_and_upgrade returns an error: the Supervisor is dropped, and its    *)
(* child killed.                                                           *)
returnError == visor' = Down /\ node' = NoNode

-----------------------------------------------------------------------------
(* The node (external) *)

(* The chain is at the height of an upgrade the binary does not know.      *)
reachUpgrade ==
  /\ node.at = "running" /\ node.version <= home /\ home < Last
  /\ file' = [content |-> "empty", name |-> home + 1]
  /\ node' = [node EXCEPT !.at = "truncated"]
  /\ UNCHANGED <<link, home, backup, visor, faults, linkLost>>

(* The file is written in two goes, and can be read between them.          *)
writePart ==
  /\ faults < MaxFaults /\ faults' = faults + 1
  /\ node.at = "truncated"
  /\ file' = [file EXCEPT !.content = "partial"]
  /\ node' = [node EXCEPT !.at = "writing"]
  /\ UNCHANGED <<link, home, backup, visor, linkLost>>

writeRest ==
  /\ node.at \in {"truncated", "writing"}
  /\ file' = [file EXCEPT !.content = "complete"]
  /\ node' = [node EXCEPT !.at = "halted"]
  /\ UNCHANGED <<link, home, backup, visor, faults, linkLost>>

applyUpgrade ==
  /\ node.at = "running" /\ node.version = home + 1 /\ file.name = node.version
  /\ home' = node.version
  /\ UNCHANGED <<link, backup, file, node, visor, faults, linkLost>>

exitNode ==
  /\ faults < MaxFaults /\ faults' = faults + 1
  /\ node.at \notin {"none", "exited"}
  /\ node' = [node EXCEPT !.at = "exited"]
  /\ UNCHANGED <<link, home, backup, file, visor, linkLost>>

-----------------------------------------------------------------------------
(* Unionvisor *)

(* Mutants: a start without init; init links the fallback version whatever *)
(* there is.                                                               *)
start_noInit ==
  /\ visor.at = "down" /\ link # NoLink
  /\ node' = running(link)
  /\ visor' = visorAt("polling", 0, 0)
  /\ UNCHANGED <<link, home, backup, file, faults, linkLost>>
start_fallback ==
  /\ visor.at = "down"
  /\ link' = Fallback
  /\ node' = running(link')
  /\ visor' = visorAt("polling", 0, 0)
  /\ UNCHANGED <<home, backup, file, faults, linkLost>>

(* systemd starts it: init makes the fallback link if there is none, run   *)
(* spawns what the link points to.                                         *)
start ==
  /\ visor.at = "down"
  /\ link' = IF link = NoLink THEN Fallback ELSE link
  /\ node' = running(link')
  /\ visor' = visorAt("polling", 0, 0)
  /\ UNCHANGED <<home, backup, file, faults, linkLost>>

(* The loop of run_and_upgrade: whether the node has ended, and whether    *)
(* there is a file.                                                        *)
poll ==
  /\ visor.at = "polling"
  /\ \/ node.at = "exited" /\ returnError
     \/ /\ node.at # "exited" /\ file.content # "absent"
        /\ visor' = [visor EXCEPT !.at = "reading", !.tries = 0, !.consumed = FALSE]
        /\ UNCHANGED node
  /\ UNCHANGED <<link, home, backup, file, faults, linkLost>>

(* The file could not be parsed.  It stays open: the next read begins      *)
(* where this one ended.                                                   *)
readAgain ==
  \/ visor.tries = MaxRetries /\ returnError
  \/ /\ visor.tries < MaxRetries
     /\ visor' = [visor EXCEPT !.tries = @ + 1,
                               !.consumed = @ \/ file.content # "empty"]
     /\ UNCHANGED node

(* Mutant: what is already running is not compared.                        *)
upgradeTo_stale(name) ==
  \/ visor.current = name /\ visor' = visorAt("polling", name, 0) /\ UNCHANGED node
  \/ visor.current # name /\ name \notin Bundle /\ returnError
  \/ /\ visor.current # name /\ name \in Bundle
     /\ visor' = visorAt("killed", name, name)
     /\ node' = NoNode

(* The upgrade called name is signalled: nothing is done if it was seen    *)
(* before or is running already, else the node is killed.                  *)
upgradeTo(name) ==
  \/ /\ visor.current = name \/ link = name
     /\ visor' = visorAt("polling", name, 0) /\ UNCHANGED node
  \/ visor.current # name /\ link # name /\ name \notin Bundle /\ returnError
  \/ /\ visor.current # name /\ link # name /\ name \in Bundle
     /\ visor' = visorAt("killed", name, name)
     /\ node' = NoNode

(* read_upgrade_info, and poll with what it returns.                       *)
read ==
  /\ visor.at = "reading"
  /\ IF file.content = "complete" /\ ~visor.consumed THEN upgradeTo(file.name)
                                                     ELSE readAgain
  /\ UNCHANGED <<link, home, backup, file, faults, linkLost>>

(* The home directory is copied over the last backup: a file of the same   *)
(* name is overwritten, and one that only an older home had stays.  backup *)
(* says which home there is a complete copy of, not that there is nothing  *)
(* else.                                                                   *)
beginBackup ==
  /\ visor.at = "killed"
  /\ backup' = Torn
  /\ visor' = [visor EXCEPT !.at = "copying"]
  /\ UNCHANGED <<link, home, file, node, faults, linkLost>>

(* Mutant: an error of the copy is ignored.                                *)
endBackup_failed ==
  /\ visor.at = "copying"
  /\ visor' = [visor EXCEPT !.at = "backedUp"]
  /\ UNCHANGED <<link, home, backup, file, node, faults, linkLost>>

endBackup ==
  /\ visor.at = "copying"
  /\ backup' = home
  /\ visor' = [visor EXCEPT !.at = "backedUp"]
  /\ UNCHANGED <<link, home, file, node, faults, linkLost>>

failBackup ==
  /\ faults < MaxFaults /\ faults' = faults + 1
  /\ visor.at = "copying"
  /\ returnError
  /\ UNCHANGED <<link, home, backup, file, linkLost>>

(* Symlinker::swap: the old link is removed, then the new one made.        *)
removeLink ==
  /\ visor.at = "backedUp"
  /\ link' = NoLink
  /\ visor' = [visor EXCEPT !.at = "swapping"]
  /\ UNCHANGED <<home, backup, file, node, faults, linkLost>>

makeLink ==
  /\ visor.at = "swapping"
  /\ link' = visor.upgrade
  /\ visor' = [visor EXCEPT !.at = "swapped"]
  /\ UNCHANGED <<home, backup, file, node, faults, linkLost>>

(* Either half may fail.  When the second does, there is no link left.     *)
failSwap ==
  /\ faults < MaxFaults /\ faults' = faults + 1
  /\ visor.at \in {"backedUp", "swapping"}
  /\ returnError
  /\ linkLost' = (linkLost \/ link = NoLink)
  /\ UNCHANGED <<link, home, backup, file>>

spawn ==
  /\ visor.at = "swapped"
  /\ node' = running(link)
  /\ visor' = visorAt("polling", visor.current, 0)
  /\ UNCHANGED <<link, home, backup, file, faults, linkLost>>

crash ==
  /\ faults < MaxFaults /\ faults' = faults + 1
  /\ visor.at # "down"
  /\ visor' = Down /\ node' = NoNode
  /\ linkLost' = (linkLost \/ link = NoLink)
  /\ UNCHANGED <<link, home, backup, file>>

Node == reachUpgrade \/ writePart \/ writeRest \/ applyUpgrade

Visor == start \/ poll \/ read \/ beginBackup \/ endBackup \/ removeLink \/ makeLink \/ spawn

Next == Node \/ Visor \/ exitNode \/ failBackup \/ failSwap \/ crash

(* systemd restarts unionvisor always, and unionvisor is a loop; the node  *)
(* may be killed before it gets to its next step, but not each time.       *)
Fairness ==
  /\ WF_vars(Visor)
  /\ SF_vars(reachUpgrade) /\ SF_vars(writeRest) /\ SF_vars(applyUpgrade)

Spec == Init /\ [][Next]_vars /\ Fairness

-----------------------------------------------------------------------------
(* Properties *)

(* A new binary changes the home directory only when there is a complete   *)
(* copy of what the old one left, whatever failed on the way: run_and_     *)
(* upgrade kills the node, lets Supervisor::backup "Backup the current     *)
(* uniond home directory", and "Either way we exit the node" when that     *)
(* fails.                                                                  *)
BackedUpBeforeUpgrade == [][home' # home => backup = home]_vars

(* A binary older than its home directory is only ever started as the      *)
(* fallback, after a crash between the two halves of Symlinker::swap or a  *)
(* failure of the second.                                                  *)
OldBinaryOnlyAfterLostLink ==
  node.version \in 1..(home - 1) => node.version = Fallback /\ linkLost

(* A node is only killed for the upgrade its home directory waits for,     *)
(* though upgrade-info.json stays there after an upgrade and every restart *)
(* reads it again.                                                         *)
OnlyDueUpgrades == [][visor'.at = "killed" /\ visor.at # "killed" => visor'.upgrade = home + 1]_vars

(* Once the node has begun to signal an upgrade the bundle has a binary    *)
(* for, the upgrade takes place: no torn read, restart or crash stops it.  *)
UpgradesHappen == \A v \in Bundle : file.name = v ~> home >= v

=============================================================================
