SPECIFICATION Spec
CONSTANTS
  Scenarios = {"semantic", "semantic_short", "windows", "separators", "page_text"}
  NotUsed = NotUsed
INVARIANTS
  TextIsKept
CHECK_DEADLOCK FALSE
