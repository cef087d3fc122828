SPECIFICATION Spec
CONSTANTS
  Inputs <- MCInputs
  MaxPathBytes = 11
  MaxOperations = 3
  MaxHeaderBytes = 12
INVARIANTS
  TypeOK
  JoinKeepsPath
  ProviderReadsMatchedSegments
  AllowedAsListed
  ConfigurationCanonical
  HeadersEndOrPass
