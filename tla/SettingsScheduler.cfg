SPECIFICATION Spec
CONSTANTS
  Sections <- MCSections
  Rank <- MCRank
  Automations <- MCAutomations
  Texts <- MCTexts
  Literals <- MCLiterals
  Environments <- MCEnvironments
  Truthy <- MCTruthy
  Zones <- MCZones
  Hours <- MCHours
  Crontabs <- MCCrontabs
  utc = utc
  six = six
  daily = daily
  blank = blank
  Placeholder = Placeholder
  Empty = Empty
  Broken = Broken
  Unread = Unread
  Null = Null
INVARIANTS
  TypeOK
  InForceIsOnDisk
  ScheduleInForce
  AcceptedSettingsBoot
PROPERTY
  FiredAsServed
