SPECIFICATION LiveSpec
CONSTANTS
  Fps = 2
  SlowTime = 3
  MaxLate = 0
  FlashTicks = 1
  MaxTabs = 3
  MaxHeight = 12
  MaxText = 7
  MaxSince = 2
INVARIANT FlashEndsOnScreen
CHECK_DEADLOCK FALSE
