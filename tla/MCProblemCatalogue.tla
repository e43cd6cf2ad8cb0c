------------------------- MODULE MCProblemCatalogue -------------------------
EXTENDS ProblemCatalogue, TLC
Symmetry == Permutations(Importers)
====
