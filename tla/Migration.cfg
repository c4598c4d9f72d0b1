SPECIFICATION MigrationSpec
CONSTANTS
  Sources <- MCSources
  RequiredTiers = {"practical"}
  SampleClasses = {"symbol", "impact"}
  SampleSize = {2}
  MaxRevision = 2
INVARIANTS OnlyProvenMigrates BridgeTraced
CHECK_DEADLOCK FALSE
