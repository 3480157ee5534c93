---------------------------- MODULE MCRewardPayouts ----------------------------
EXTENDS RewardPayouts
=============================================================================
