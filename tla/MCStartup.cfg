SPECIFICATION Spec
CONSTANTS
  Configs <- MCConfigs
  Offers <- MCOffers
  BadSchemas <- MCBadSchemas
CHECK_DEADLOCK FALSE
INVARIANTS RoutesTrue FirstKeepsName MapsAgree
