---------------------------- MODULE ModelAssets ----------------------------
(***************************************************************************)
(* The assets that change reports (ChangeReports) and IDS checks           *)
(* (IdsChecks) are made from, as those two see them: a row, and the        *)
(* element store and source file in the asset's directory.  The delete     *)
(* route, which takes all of it away, is in Coordination.                  *)
(***************************************************************************)
EXTENDS Naturals, FiniteSets

CONSTANTS
    Assets,
    MaxMishaps    \* bound: statements that fail and clients that disconnect

ASSUME MishapsAssumption == MaxMishaps \in Nat

VARIABLES
    live,       \* assets with a row
    onDisk,     \* assets whose store and source are on the disk
    mishaps     \* how many calls failed or were cut short

assetVars == <<live, onDisk>>

Fails == mishaps < MaxMishaps /\ mishaps' = mishaps + 1
Works == UNCHANGED mishaps

InitAssets == live = Assets /\ onDisk = Assets /\ mishaps = 0

=============================================================================
