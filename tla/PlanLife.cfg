CONSTANTS
  Backends = {"deterministic", "llm"}
  Intents <- SomeIntents
  Replies <- SomeReplies
  Submitted <- SomeSubmitted
  MaxRepairs = 2
  Trusts = {0, 2, 3, 4}
  Available = {0, 1, 3}
  Limit = 1
  Threshold = 2
  None = None
  Unreadable = Unreadable
SPECIFICATION PlanningSpec
INVARIANTS PlanningTypeOK AnnouncedIsUsable NothingIsMissing
PROPERTIES SignedForWhatItMoves DraftEnds
