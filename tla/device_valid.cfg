SPECIFICATION MCSpec
CONSTANTS
  g1 = g1
  g2 = g2
  Goroutines = {g1, g2}
  Types = {"NEWUSER", "other", "another"}
  Unknown = {"other", "another"}
  Paths = {"", "/run/netns/x"}
  NoPath = ""
  Nobody = Nobody
  Groups <- MCGroups
  Names <- MCNames
  FileNames <- MCNames
  Lists <- MCLists
  Roots <- MCRoots
  Chars <- MCChars
  Strings <- MCStrings
CHECK_DEADLOCK FALSE
INVARIANT ValidIsSubset
