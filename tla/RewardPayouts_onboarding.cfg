SPECIFICATION Spec
CONSTANTS
  Requests = {r1, r2}
  PostRewards = {}
  StreakRewards = {}
  Wallets = {w, v}
  OnboardingWallet = w
  PostWallet = v
  StreakWallet = w
  MaxLoads = 3
  MaxFaults = 0
CHECK_DEADLOCK FALSE
INVARIANT OnboardingPaidOnce
