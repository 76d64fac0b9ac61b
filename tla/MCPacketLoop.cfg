SPECIFICATION FairSpec
CONSTANTS
  Compiled = {"boringtun", "neptun", "gotatun"}
  MaxContents = 6
CHECK_DEADLOCK FALSE
INVARIANT PacketsKeptApart
PROPERTIES StatsCatchUp LivesAsAssumed
