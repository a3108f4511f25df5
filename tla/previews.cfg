SPECIFICATION LiveSpec
CHECK_DEADLOCK FALSE
CONSTANTS
  Links = {"page", "other", "picture", "refused"}
  Refused = {"refused"}
  Pictures = {"picture"}
  MaxQueue = 2
  MaxCache = 2
  MaxHops = 2
  MaxAsked = 4
INVARIANTS PreviewsInv
PROPERTIES CardsWanted WantedEnds
