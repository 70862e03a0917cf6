SPECIFICATION Spec
CONSTANTS
  Writers = {1, 2, 3}
  Ids = {1, 2, 3, 4, 5}
  Fingerprints = {"f", "g"}
  Calls <- MCCalls
  RaceAttempts = 2
  MaxRetries = 1
  Users = {"ann", "bob", "cid", "dee"}
  Teams = {"a", "b"}
  Projects = {"p", "q"}
  Tokens = {"x", "y"}
  Batches <- MCBatches
INVARIANTS ReferencesHold GrantedOnce
PROPERTIES ActsAtomically RolesGuarded EveryCallAnswered
CHECK_DEADLOCK FALSE
