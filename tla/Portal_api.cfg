SPECIFICATION PortalSpec
CONSTANTS
  Requests = {"r1", "r2"}
  Users = {"u1", "u2"}
  NoUser = "nobody"
  DevUser = "dev"
  NoRole = "none"
  Starts <- MCStarts
  Routes <- MCRoutes
  RolesOf <- MCRolesOf
  Public = {"login"}
  MaxFaults = 1
  Wards = {"w1", "w2"}
  Rows <- MCRows
  MaxMinute = 1
  MaxAssemblies = 1
  Sizes <- MCSizes
  DefaultLimit = 3
  MaxLimit = 4
  Limits <- MCLimits
  MaxRepeats = 1
INVARIANTS
  PortalTypeOK
  StrangersBecomeCitizens
  HandlersAreEntitled
  PapersAgree
  LinksServeWhatWasAsked
  ReadyRowsAreTrue
  CrawlIsComplete
  VerdictsSurvive
PROPERTIES
  AccessSpec
  ErrandsEnd
CHECK_DEADLOCK FALSE
