SPECIFICATION Spec
CONSTANTS
  file1 = file1
  file2 = file2
  codex1 = codex1
  codex2 = codex2
  work = work
  private = private
  codex = codex
  mini = mini
  Files <- TwoFiles
  Stamps = {1, 2}
  Kinds = {"good", "garbage", "undecodable", "undated"}
  NoFile = NoFile
  Unknown = Unknown
  MaxVersions = 3
  MaxStarts = 2
  Processes <- TwoProcesses
  Home <- HomeOfItsOwn
  Accounts <- TwoAccounts
  NoAccount = NoAccount
  Limits <- AllLimits
  NoLimit = NoLimit
  NoEvent = NoEvent
  MaxTime = 2
  MaxLogins = 1
  MaxCached = 1
SYMMETRY Alike
INVARIANTS TypeOK AnswerWasRight AccountsApart NothingOlder
