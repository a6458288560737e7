--------------------------- MODULE MCProcessWatch ---------------------------
(* ProcessWatch on a few processes and numbers.                              *)
EXTENDS ProcessWatch
=============================================================================
