---------------------------- MODULE MCIngestQueue ----------------------------
(* IngestQueue for TLC. *)
EXTENDS IngestQueue

CONSTANTS a, b, c, x, y

TwoContents == a :> x @@ b :> y
WithTrifle  == a :> x @@ b :> y @@ c :> y
=============================================================================
