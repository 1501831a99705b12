--------------------------- MODULE MCDownloadGate ---------------------------
(* Instances of the download gate for TLC. *)
EXTENDS DownloadGate

==============================================================================
