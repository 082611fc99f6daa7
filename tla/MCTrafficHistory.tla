-------------------------- MODULE MCTrafficHistory --------------------------
EXTENDS TrafficHistory, TLC

MCSymmetry == Permutations(Req)
=============================================================================
