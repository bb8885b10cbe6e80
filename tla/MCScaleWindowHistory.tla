------------------------ MODULE MCScaleWindowHistory ------------------------
(***************************************************************************)
(* The instances of MCScaleWindow, with history.                           *)
(***************************************************************************)
EXTENDS ScaleWindowHistory, MCScaleWindow
=============================================================================
