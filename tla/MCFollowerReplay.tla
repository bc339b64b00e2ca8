-------------------------- MODULE MCFollowerReplay --------------------------
EXTENDS FollowerReplay
=============================================================================
