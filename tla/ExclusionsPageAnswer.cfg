\* One server and one write.
CONSTANTS
  Hosts = {"s1"}
  ReasonTexts = {"a"}
  MaxExCalls = 1
SPECIFICATION ExclusionsSpec
INVARIANT
  AnswerIsShown
CHECK_DEADLOCK FALSE
