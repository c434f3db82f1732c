\* The contract file, replaced at any time, and the process that loads it.
SPECIFICATION StartupSpec
CONSTANTS
  OwnSuffixed = {"self: localization contract", "other: localization contract"}
  StatusName = "self: localization contract"
  Modes = {"shadow", "active"}
  Documents <- AllDocuments
INVARIANTS
  ContractAsAssumed
  FingerprintMatches
  ApprovalsEarned
  TransformFramesAgree
  NoSelfDependence
