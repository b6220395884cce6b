----------------------- MODULE MCReportingProjections -----------------------
EXTENDS ReportingProjections, TLC
CONSTANTS r1, r2, r3, w1, w2

MCSymmetry == Permutations({r1, r2}) \cup Permutations({w1, w2})
=============================================================================
