--------------------------- MODULE MCBatchExport ---------------------------
(* Three documents, the second one large: of three threads two convert them. *)
EXTENDS BatchExport

LargeSecond == [j \in Jobs |-> IF j = 1 THEN 5 ELSE IF j = 0 THEN NoSize ELSE 1]
=============================================================================
