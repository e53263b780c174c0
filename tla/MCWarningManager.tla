--------------------------- MODULE MCWarningManager ---------------------------
(* Instances of WarningManager: what the client reports beside the camera. *)
EXTENDS WarningManager

\* One light report and one of each weight that locks quickly.
Mixed == {"tab_switch", "virtual_camera", "recording_extension"}
=============================================================================
