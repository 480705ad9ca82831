SPECIFICATION AnswersSpec
CONSTANTS
  PathQuestions <- NoQuestions
  GlobQuestions <- NoQuestions
  LineToQuestions <- NoQuestions
  WalkQuestions <- NoQuestions
  RestoreQuestions <- NoQuestions
  ExtractQuestions <- NoQuestions
  LineQuestions <- NoQuestions
  FileQuestions <- NoQuestions
  CompareQuestions <- MCCompareQuestions
  FindQuestions <- NoQuestions
  BucketQuestions <- NoQuestions
  SettingsQuestions <- NoQuestions
  SetupQuestions <- NoQuestions
  SignInQuestions <- NoQuestions
  IdentityQuestions <- NoQuestions
  ErrorQuestions <- NoQuestions
  DerQuestions <- NoQuestions
  InstantQuestions <- NoQuestions
  ListingQuestions <- NoQuestions
  ClockQuestions <- NoQuestions
  MarkerQuestions <- NoQuestions
  LockQuestions <- NoQuestions
  ConfigQuestions <- MCConfigQuestions
  SuggestionQuestions <- NoQuestions
  Canonical = {"s", "t", "old"}
  Minutes = {1, 2, 3}
  Pids <- MCPids
INVARIANTS MovesAreOfTheGone DirsAreKept
