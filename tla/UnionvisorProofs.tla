-------------------------- MODULE UnionvisorProofs --------------------------
(***************************************************************************)
(* Proofs about Unionvisor, for any bundle and number of versions, any     *)
(* number of reads and any number of faults.                               *)
(***************************************************************************)
EXTENDS Unionvisor, TLAPS

(* Where the supervisor is while the node runs, and while it upgrades.     *)
Supervising == {"polling", "reading"}
Upgrading == {"killed", "copying", "backedUp", "swapping", "swapped"}

VisorState ==
  [at : {"down"} \cup Supervising \cup Upgrading, current : Nat, upgrade : Nat,
   tries : Nat, consumed : BOOLEAN]

TypeOK ==
  /\ link \in Nat /\ home \in Nat /\ backup \in Int /\ linkLost \in BOOLEAN
  /\ file \in [content : {"absent", "empty", "partial", "complete"}, name : Nat]
  /\ node \in [version : Nat, at : {"none", "running", "truncated", "writing", "halted", "exited"}]
  /\ visor \in VisorState
  /\ home >= Fallback

(* The link names the binary of the home directory or of the next upgrade, *)
(* or is the fallback after it was lost.  There is none only while it is   *)
(* swapped, or after a crash or a failure.                                 *)
LinkKnown ==
  /\ link \in {NoLink, home, home + 1} \/ (link = Fallback /\ linkLost)
  /\ link = NoLink => visor.at = "swapping" \/ (visor.at = "down" /\ linkLost)

(* What runs is what the link names: the link only changes when nothing    *)
(* does.                                                                   *)
NodeRunsLink ==
  /\ node.at = "none" <=> visor.at \notin Supervising
  /\ node.version = IF node.at = "none" THEN 0 ELSE link

(* The upgrade file is of the upgrade that is due or of the last one, and  *)
(* in that case the link is the one that upgrade left.                     *)
FileCurrent ==
  /\ file.content # "absent" => file.name \in {home, home + 1}
  /\ node.at \in {"truncated", "writing"} => file.content # "absent"
  /\ link = home \/ file.name = home + 1

(* What is under way is the upgrade that is due.                           *)
UpgradeDue ==
  /\ visor.at \in Upgrading => visor.upgrade = home + 1 /\ file.name = home + 1
  /\ visor.at \in {"killed", "copying", "backedUp"} => link # home + 1
  /\ visor.at = "swapped" => link = home + 1

(* From the copy on until the new binary has changed it, the backup is the *)
(* home directory.                                                         *)
BackupKept ==
  visor.at \in {"backedUp", "swapping", "swapped"} \/ link = home + 1 => backup = home

(* The inductive invariant.                                                *)
IInv ==
  /\ TypeOK
  /\ LinkKnown
  /\ NodeRunsLink
  /\ FileCurrent
  /\ UpgradeDue
  /\ BackupKept

-----------------------------------------------------------------------------
(* Versions are positive, and the bundle has only versions.                *)
LEMMA Versions ==
  /\ Fallback \in Nat /\ Fallback >= 1
  /\ \A name \in Bundle : name \in Nat
BY VersionAssumption

(* The chain starts with the fallback version.                             *)
LEMMA InitInv == Init => IInv
<1> SUFFICES ASSUME Init
             PROVE  IInv
  OBVIOUS
<1>1. TypeOK
  <2>1. file \in [content : {"absent", "empty", "partial", "complete"}, name : Nat]
    BY DEF Init
  <2>2. node \in [version : Nat, at : {"none", "running", "truncated", "writing", "halted", "exited"}]
    BY DEF Init, NoNode
  <2>3. visor \in VisorState
    BY DEF Init, Down, visorAt, VisorState
  <2>4. link \in Nat /\ home \in Nat /\ backup \in Int /\ home >= Fallback
    BY Versions DEF Init
  <2>5. linkLost \in BOOLEAN
    BY DEF Init
  <2> QED
    BY <2>1, <2>2, <2>3, <2>4, <2>5 DEF TypeOK
<1>2. LinkKnown /\ FileCurrent
  BY Versions DEF Init, LinkKnown, FileCurrent, NoNode, NoLink
<1>3. NodeRunsLink
  BY DEF Init, NodeRunsLink, NoNode, Down, visorAt, Supervising
<1>4. UpgradeDue /\ BackupKept
  BY Versions DEF Init, UpgradeDue, BackupKept, Down, visorAt, Upgrading
<1> QED
  BY <1>1, <1>2, <1>3, <1>4 DEF IInv

(* Reading again changes nothing but the count and the position.           *)
LEMMA ReadAgainKeeps ==
  ASSUME visor \in VisorState, NEW something,
         visor' = [visor EXCEPT !.tries = @ + 1, !.consumed = @ \/ something]
  PROVE  visor' \in VisorState /\ visor'.at = visor.at /\ visor'.upgrade = visor.upgrade
<1>1. PICK consumed \in BOOLEAN :
        visor' = [visor EXCEPT !.tries = @ + 1, !.consumed = consumed]
  OBVIOUS
<1>2. visor' = [at |-> visor.at, current |-> visor.current, upgrade |-> visor.upgrade,
                tries |-> visor.tries + 1, consumed |-> consumed]
  BY <1>1 DEF VisorState
<1>3. /\ visor.at \in {"down"} \cup Supervising \cup Upgrading
      /\ visor.current \in Nat /\ visor.upgrade \in Nat /\ visor.tries + 1 \in Nat
  BY DEF VisorState
<1> QED
  BY <1>2, <1>3 DEF VisorState

(* Every step preserves the invariant.                                     *)
LEMMA NextInv ==
  ASSUME IInv, [Next]_vars
  PROVE  IInv'
<1> USE Versions DEF IInv, TypeOK, LinkKnown, NodeRunsLink, FileCurrent, UpgradeDue, BackupKept,
                     NoLink, NoNode, Down, Torn, visorAt, Supervising, Upgrading, VisorState
<1>1. CASE reachUpgrade
  BY <1>1 DEF reachUpgrade
<1>2. CASE writePart
  BY <1>2 DEF writePart
<1>3. CASE writeRest
  BY <1>3 DEF writeRest
<1>4. CASE applyUpgrade
  BY <1>4 DEF applyUpgrade
<1>5. CASE exitNode
  BY <1>5 DEF exitNode
<1>6. CASE start
  BY <1>6 DEF start, running
<1>7. CASE poll
  <2>1. CASE returnError
    BY <1>7, <2>1 DEF poll, returnError
  <2>2. CASE /\ visor' = [visor EXCEPT !.at = "reading", !.tries = 0, !.consumed = FALSE]
             /\ UNCHANGED node
    BY <1>7, <2>2 DEF poll
  <2> QED
    BY <1>7, <2>1, <2>2 DEF poll
<1>8. CASE read
  <2>1. UNCHANGED <<link, home, backup, file, faults, linkLost>> /\ visor.at = "reading"
    BY <1>8 DEF read
  <2>2. CASE returnError
    BY <2>1, <2>2 DEF returnError
  <2>3. CASE /\ visor' = [visor EXCEPT !.tries = @ + 1,
                                       !.consumed = @ \/ file.content # "empty"]
             /\ UNCHANGED node
    <3>1. visor' \in VisorState /\ visor'.at = visor.at /\ visor'.upgrade = visor.upgrade
      BY <2>3, ReadAgainKeeps DEF VisorState
    <3> QED
      BY <2>1, <2>3, <3>1
  <2>4. CASE visor' = visorAt("polling", file.name, 0) /\ UNCHANGED node
    BY <2>1, <2>4
  <2>5. CASE /\ link # file.name /\ file.content = "complete"
             /\ visor' = visorAt("killed", file.name, file.name)
             /\ node' = NoNode
    BY <2>1, <2>5
  <2> QED
    BY <1>8, <2>2, <2>3, <2>4, <2>5 DEF read, upgradeTo, readAgain
<1>9. CASE beginBackup
  BY <1>9 DEF beginBackup
<1>10. CASE endBackup
  BY <1>10 DEF endBackup
<1>11. CASE failBackup
  BY <1>11 DEF failBackup, returnError
<1>12. CASE removeLink
  BY <1>12 DEF removeLink
<1>13. CASE makeLink
  BY <1>13 DEF makeLink
<1>14. CASE spawn
  BY <1>14 DEF spawn, running
<1>15. CASE crash
  BY <1>15 DEF crash
<1>16. CASE failSwap
  BY <1>16 DEF failSwap, returnError
<1>17. CASE UNCHANGED vars
  BY <1>17 DEF vars
<1> QED
  BY <1>1, <1>2, <1>3, <1>4, <1>5, <1>6, <1>7, <1>8, <1>9, <1>10, <1>11, <1>12, <1>13, <1>14, <1>15, <1>16, <1>17 DEF Next, Node, Visor

(* The inductive invariant holds in every state of the supervisor.         *)
THEOREM InvariantHolds == Spec => []IInv
BY InitInv, NextInv, PTL DEF Spec

(* A binary older than the home directory only runs as the fallback after  *)
(* the link was lost.                                                      *)
THEOREM OldBinaryNeedsLostLink == Spec => []OldBinaryOnlyAfterLostLink
<1>1. IInv => OldBinaryOnlyAfterLostLink
  BY Versions DEF IInv, TypeOK, LinkKnown, NodeRunsLink, NoLink, OldBinaryOnlyAfterLostLink
<1> QED
  BY <1>1, InvariantHolds, PTL

(* The home directory changes only under a new binary, and what it was is  *)
(* in the backup.                                                          *)
THEOREM UpgradesAreBackedUp == Spec => BackedUpBeforeUpgrade
<1>1. ASSUME IInv, [Next]_vars
      PROVE  [home' # home => backup = home]_vars
  <2>1. CASE applyUpgrade
    BY <1>1, <2>1 DEF applyUpgrade, IInv, NodeRunsLink, BackupKept
  <2>2. CASE ~applyUpgrade
    BY <1>1, <2>2 DEF Next, Node, Visor, vars, reachUpgrade, writePart, writeRest, exitNode, start,
       poll, read, beginBackup, endBackup, failBackup, removeLink, makeLink, failSwap, spawn, crash
  <2> QED
    BY <2>1, <2>2
<1> QED
  BY <1>1, InvariantHolds, PTL DEF Spec, BackedUpBeforeUpgrade

(* A node is only killed for the upgrade that is due: one that is done is  *)
(* what the link names.                                                    *)
THEOREM UpgradesAreDue == Spec => OnlyDueUpgrades
<1>1. ASSUME IInv, [Next]_vars
      PROVE  [visor'.at = "killed" /\ visor.at # "killed" => visor'.upgrade = home + 1]_vars
  <2> SUFFICES ASSUME Next, visor'.at = "killed", visor.at # "killed"
               PROVE  visor'.upgrade = home + 1
    BY <1>1
  <2>1. IInv' /\ visor'.upgrade = home' + 1
    BY <1>1, NextInv DEF IInv, UpgradeDue, Upgrading
  <2>2. CASE applyUpgrade
    BY <2>2 DEF applyUpgrade
  <2>3. CASE ~applyUpgrade
    BY <2>1, <2>3 DEF Next, Node, Visor, reachUpgrade, writePart, writeRest, exitNode, start,
       poll, read, beginBackup, endBackup, failBackup, removeLink, makeLink, failSwap, spawn, crash
  <2> QED
    BY <2>2, <2>3
<1> QED
  BY <1>1, InvariantHolds, PTL DEF Spec, OnlyDueUpgrades

=============================================================================
