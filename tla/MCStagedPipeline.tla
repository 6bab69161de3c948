-------------------------- MODULE MCStagedPipeline --------------------------
EXTENDS StagedPipeline

\* The last candidate is the most important one.
MCRank == [c \in 1..MaxCandidates |-> (c + 1) % MaxCandidates]
=============================================================================
