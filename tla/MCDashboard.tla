---------------------------- MODULE MCDashboard ----------------------------
EXTENDS Dashboard, TLC

MCVhostPort == [http |-> 80, https |-> 0]
MCSymmetry == Permutations(Session) \cup Permutations(Name) \cup Permutations(Req)
=============================================================================
