--------------------------- MODULE MCRouteLedger ---------------------------
EXTENDS AggregateValidator

\* Every way in which the pointers of three versions can be set.
ASSUME TreeRulesAgree == RulesAgree(3)
=============================================================================
