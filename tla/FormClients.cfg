SPECIFICATION FairSpec
CONSTANTS
  Pages <- MCPages
  Says <- MCSays
  NoText = "none"
  FieldN <- MCFieldN
  Profile <- MCProfile
  Threshold = 70
  Modes = {"manual", "hybrid", "automatic"}
  MinConfidence = 50
  AnswerKeys <- MCAnswerKeys
  Browser = {b1, b2}
  NoBrowser = NoBrowser
  SensitiveTexts <- MCSensitive
INVARIANTS
  TypeOK
  OnlyVouchedOrAnswered
  ValuesInPlace
  HybridLeavesNoGaps
  NoBrowserLeftBehind
PROPERTY
  FormsGetToTheGate
