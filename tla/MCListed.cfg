SPECIFICATION Spec
CONSTANTS
  Configs <- MCConfigs
  Offers <- MCPlainOffers
  BadSchemas <- MCBadSchemas
CHECK_DEADLOCK FALSE
INVARIANT CallableAsListed
