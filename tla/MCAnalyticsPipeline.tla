------------------------- MODULE MCAnalyticsPipeline -------------------------
EXTENDS AnalyticsPipeline, TLC

CONSTANTS s1, s2, h1, h2, h3

\* h1 and h2 are requests to s1, h3 one to s2.
OneHost == [h \in Handlers |-> s1]
TwoHosts == [h \in Handlers |-> IF h = h3 THEN s2 ELSE s1]
HandlerSymmetry == Permutations(Handlers)
=============================================================================
