SPECIFICATION MCSpec
CONSTANTS
  Fps = 2
  SlowTime = 3
  MaxLate = 0
  FlashTicks = 1
  MaxTabs = 3
  MaxHeight = 13
  MaxText = 7
  MaxSince = 2
INVARIANTS StatusesAreDrawn StaleIsFollowedUp NeedIsTimed RailGivesWay ActionsLand LinesFitNow
PROPERTIES TicksAreSecondsApart
CHECK_DEADLOCK FALSE
