SPECIFICATION FairSpec
CONSTANTS
  NoPath = NoPath
  Absent = Absent
  Malformed = Malformed
  DefaultPatterns = {"usb"}
  DefaultSocket = "/run/s"
  ExpandHome <- MCExpandHome
  Trimmed <- MCTrimmed
  AdapterNames = {"/dev/cu.usb", "/dev/tty.usb"}
  Unrelated = {"/dev/cu.other"}
  Preferred = {"cu.usb"}
  MatchedBy <- MCMatchedBy
  Rank <- MCRank
  Base <- MCBase
  Wired = 2
  Files <- MCFiles
  FlagSets <- MCFlagSets
INVARIANTS RoundTrip BadHostStaysInFlags PicksBest OnlyMatching ConfiguredPort
PROPERTIES FindsAdapter InactiveUnlessTaken
