SPECIFICATION Spec
CONSTANTS
  MaxOthers = 2
  Requests <- MCRequests
  Contents <- MCContents
  Paths = {"p", "q"}
  Repositories <- MCRepositories
  Edits <- MCEdits
  MaxEdits = 1
  Ids = {"a", "a@q", "b"}
  Servers <- MCServers
  Asks <- MCAsks
  KeyOf <- MCKeyOf
  MaxChanges = 1
  Windows = {0, 4096, 20000, 70000}
  Requested = {0, 3911, 3912, 32768}
  Wholes <- MCTexts
  Diffs <- MCTexts
  MaxPasses = 2
  Replies <- MCReplies
  OwnNotes <- MCOwnNotes
  Letters = {"data", "x", "[DONE]", "CR", "LF"}
  MaxLength = 6
  Blocks <- MCBlocks
  MaxBlocks = 3
  Drafts <- MCDrafts
INVARIANTS ChunksDontMatter ReadingIsTrue ConfigIsHonoured DiscoveryIsSound PromiseIsKept RoomIsLeft RequestIsAdmitted NothingConcealed AgreementIsTrue
CHECK_DEADLOCK FALSE
