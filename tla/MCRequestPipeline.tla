------------------------- MODULE MCRequestPipeline -------------------------
(* RequestPipeline on small instances: two commands that share a URL and   *)
(* differ in their query, a read and an upload.                            *)
EXTENDS RequestPipeline

CONSTANTS c1, c2, list, repay, approve, scan

UrlOf(q) == IF q \in {repay, approve} THEN "transactions" ELSE q
=============================================================================
