---------------------------- MODULE MCLayerSource ----------------------------
(***************************************************************************)
(* Base images and faults for TLC: an image of schema 1, one with a layer  *)
(* that is not compressed, and one whose checksums are not compared.       *)
(***************************************************************************)
EXTENDS LayerSource

MCImages ==
    {[schemaV1 |-> TRUE, gzipped |-> Layers, validated |-> TRUE],
     [schemaV1 |-> FALSE, gzipped |-> Layers \ {1}, validated |-> TRUE],
     [schemaV1 |-> FALSE, gzipped |-> Layers, validated |-> FALSE]}

AllFaults == MainSteps \cup DownloadSteps \cup {"content"}
=============================================================================
