-------------------------- MODULE MCExporterProcess --------------------------
(* Instance of ExporterProcess for TLC: one peer that olcSyncrepl names. *)
EXTENDS ExporterProcess
=============================================================================
