---------------------------- MODULE MCBatchMiner ----------------------------
(***************************************************************************)
(* A batch of three papers.  The first two are one URL under two paper ids *)
(* (one cache key, two run directories), the third is another paper.       *)
(* MCPair...: a batch of the first two alone.                              *)
(***************************************************************************)
EXTENDS BatchMiner

CONSTANTS k1, k2

MCKeyOf == <<k1, k1, k2>>
MCIdentity == <<1, 2, 3>>
MCPairKeyOf == <<k1, k1>>
MCPairIdentity == <<1, 2>>
=============================================================================
