SPECIFICATION AnswersSpec
CONSTANTS
  PathQuestions <- MCPathQuestions
  GlobQuestions <- MCGlobQuestions
  LineToQuestions <- MCLineToQuestions
  WalkQuestions <- MCWalkQuestions
  RestoreQuestions <- MCRestoreQuestions
  ExtractQuestions <- MCExtractQuestions
  LineQuestions <- MCLineQuestions
  FileQuestions <- MCFileQuestions
  CompareQuestions <- MCCompareQuestions
  FindQuestions <- MCFindQuestions
  BucketQuestions <- MCBucketQuestions
  SettingsQuestions <- MCSettingsQuestions
  SetupQuestions <- MCSetupQuestions
  SignInQuestions <- MCSignInQuestions
  IdentityQuestions <- MCIdentityQuestions
  ErrorQuestions <- MCErrorQuestions
  DerQuestions <- MCDerQuestions
  InstantQuestions <- MCInstantQuestions
  ListingQuestions <- MCListingQuestions
  ClockQuestions <- MCClockQuestions
  MarkerQuestions <- MCMarkerQuestions
  LockQuestions <- MCLockQuestions
  ConfigQuestions <- MCConfigQuestions
  SuggestionQuestions <- MCSuggestionQuestions
  Canonical = {"s", "t", "old"}
  Minutes = {1, 2, 3}
  Pids <- MCPids
INVARIANTS NamesMeanPlaces WalkAccountsForAll PlanIsOfTheNamed ReaderTakesOnlyWhole HistoryIsTold BucketIsToldTrue SettingsAreMeant SignInIsTold
