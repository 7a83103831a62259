------------------------------- MODULE MCTsh -------------------------------
EXTENDS Tsh, TLC

Symmetry == Permutations(Pids)

=============================================================================
