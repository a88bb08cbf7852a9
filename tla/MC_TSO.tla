------------------------------ MODULE MC_TSO --------------------------------
EXTENDS TSO, TLC

CONSTANTS s1, s2, c1, c2

MCServers == {s1, s2}
MCClients == {c1, c2}
MCOneClient == {c1}
MCTimes == {0, 4, 6}
MCSymmetry == Permutations(MCServers) \cup Permutations(MCClients)
=============================================================================
