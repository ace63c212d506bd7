-------------------------- MODULE MCPythonObservation --------------------------
(* PythonObservation for TLC. *)
EXTENDS PythonObservation
================================================================================
