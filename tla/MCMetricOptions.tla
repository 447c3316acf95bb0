--------------------------- MODULE MCMetricOptions ---------------------------
EXTENDS MetricOptions, TLC
Symmetry == Permutations(Metrics)
Behind == -1
=============================================================================
