SPECIFICATION FairSpec
CONSTANTS
  empty = empty
  q1 = q1
  NoMsg = empty
  Messages <- MCMessages
  GraceTicks = 2
  TaskIds <- MCNoTasks
  MaxTasks = 1
  Panes <- MCTwoPanes
  Sent <- MCSent
  MaxTracked = 1
PROPERTIES SilenceClears WaitIsTheQuestionsOwn
