SPECIFICATION Spec
CONSTANTS
  Requests = {r1, r2}
  PostRewards = {post}
  StreakRewards = {streak}
  Wallets = {w, v}
  OnboardingWallet = w
  PostWallet = v
  StreakWallet = w
  MaxLoads = 2
  MaxFaults = 2
CHECK_DEADLOCK FALSE
INVARIANTS TypeOK OneSpendPerWallet QueuesMove
PROPERTY PayoutsAsPromised
