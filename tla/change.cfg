\* Patches of up to three removed and two added lines, with a cap of two.
SPECIFICATION Spec
CONSTANTS
  Lines <- MCLines
  MaxPatchLines = 2
  MaxRemoved = 3
  MaxAdded = 2
INVARIANTS
  CleanIsAccounted
  ExactWhenTextsDiffer
  OrderOnlyWithholds
CHECK_DEADLOCK FALSE
