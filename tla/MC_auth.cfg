SPECIFICATION Spec
CONSTANTS
  Users = {"bruce"}
  Strangers = {"eddie"}
  NonceLife = 2
  MaxTime = 4
INVARIANT
  ChallengeAnswered
