------------------------------- MODULE MCRelay --------------------------------
EXTENDS Relay, TLC

Symmetry == Permutations(Socks) \cup Permutations(Pins)
===============================================================================
