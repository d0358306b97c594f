----------------------------- MODULE MCNfePipeline -----------------------------
(* Two customers, of whom the first buys. *)
EXTENDS NfePipeline

FirstBuys == [s \in Sales |-> 1]
================================================================================
