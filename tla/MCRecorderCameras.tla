-------------------------- MODULE MCRecorderCameras --------------------------
(* Instances of RecorderCameras.                                           *)
EXTENDS RecorderCameras
=============================================================================
