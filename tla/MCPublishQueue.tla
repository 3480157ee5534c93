---------------------------- MODULE MCPublishQueue ----------------------------
EXTENDS PublishQueue
=============================================================================
