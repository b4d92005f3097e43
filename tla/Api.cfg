CONSTANTS
  Requests = {1, 2, 3}
  Creators = {1, 2}
  Given = {2}
  MaxAborts = 1
  Users = {"ann", "bob", "eve"}
  Admins = {"ann", "bob"}
  Newcomer = "eve"
  AdminRequests = {1, 2}
  CliUsers = {"eve"}
  MaxCli = 1
  Attempts = {1, 2, 3}
  MaxFailures = 2
  Window = 2
  LockFor = 2
  MaxPasswords = 2
  MaxFaults = 1
  Lexemes = {"value", "and", "not", "<", "-", "foo", "(", ")"}
  MaxLength = 5
SPECIFICATION ApiSpec
CHECK_DEADLOCK FALSE
INVARIANTS HistoryWhole AcceptedIsStored OldBaseRefused SessionProved GrammarExact
PROPERTIES EveryRequestAnswered AdminLostOnlyByCrossing LockDeserved
