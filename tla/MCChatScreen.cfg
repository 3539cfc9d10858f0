\* The process ends, and with it the steps: no deadlock.
SPECIFICATION FairSpec
CONSTANTS
  Size = 2
  Height = 1
  WelcomeLines = 1
  HelpLines = 3
  Ids = 3
  Events <- SomeEvents
  Inputs <- SomeInputs
  Nothing = Nothing
CHECK_DEADLOCK FALSE
INVARIANTS
  TypeOK
  HistoryRight
  ScreenCurrent
  OverrunNeedsBoth
  ShortTextsFit
  HandlerUsesLive
PROPERTY
  InterruptEnds
