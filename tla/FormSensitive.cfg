SPECIFICATION Spec
CONSTANTS
  Pages <- SurveyPages
  Says <- MCSays
  NoText = "none"
  FieldN <- MCFieldN
  Profile <- MCProfile
  Threshold = 70
  Modes = {"manual", "hybrid", "automatic"}
  MinConfidence = 40
  AnswerKeys <- SurveyAnswers
  Browser = {b1}
  NoBrowser = NoBrowser
  SensitiveTexts <- MCSensitive
INVARIANT
  SensitiveLeftToHuman
