----------------------------- MODULE MCBenchmark -----------------------------
EXTENDS Benchmark, TLC

Symmetry == Permutations(Cases) \cup Permutations(Paths) \cup Permutations(Bounds)
=============================================================================
