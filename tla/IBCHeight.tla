----------------------------- MODULE IBCHeight -----------------------------
(***************************************************************************)
(* Heights of the IBC client protocol (core/02-client/IBCHeight.sol): a    *)
(* revision number and a height inside the revision, ordered               *)
(* lexicographically.                                                      *)
(***************************************************************************)
EXTENDS Naturals

Height == [revision_number : Nat, revision_height : Nat]

zero == [revision_number |-> 0, revision_height |-> 0]

isZero(self) == self.revision_number = 0 /\ self.revision_height = 0

gte(self, other) ==
  \/ self.revision_number > other.revision_number
  \/ /\ self.revision_number = other.revision_number
     /\ self.revision_height >= other.revision_height

=============================================================================
