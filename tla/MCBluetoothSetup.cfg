CONSTANTS
  MaxServices = 3
  MaxVendorUuids = 2
  MaxAdvertised = 2
SPECIFICATION SetupSpec
INVARIANT CharacteristicsStayHome
\* The sequence ends.
CHECK_DEADLOCK FALSE
