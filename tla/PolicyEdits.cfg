SPECIFICATION Spec
CONSTANTS
  Score <- MCScore
  Salary <- MCSalary
  Amount <- MCAmount
  Currency <- MCCurrency
  Years <- MCYears
  Limit <- MCLimit
  Thresholds <- MCThresholds
  Configured <- MCConfigured
INVARIANTS
  TypeOK
  GuardrailsOnlyTighten
  UnknownIsNeverQueued
PROPERTY
  StricterPolicyNeverLoosens
