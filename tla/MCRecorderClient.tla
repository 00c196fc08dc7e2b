-------------------------- MODULE MCRecorderClient --------------------------
(***************************************************************************)
(* Small instances of RecorderClient: one camera, two sessions, a video    *)
(* and an audio track, one buffer a track, and these uses of the client.   *)
(***************************************************************************)
EXTENDS RecorderClient

MCSessionIds == 1..2
MCVideoTracks == {1}
MCAudioTracks == {100}

Recording == {"Connect", "Disconnect", "CreateSession", "DeleteSession", "StartSession",
              "StopSession", "CreateVideoTrack", "DeleteVideoTrack"}
Plain == [cmds |-> Recording, calls |-> 10, dies |-> FALSE, refuses |-> {}, notices |-> FALSE,
          remap |-> FALSE, metas |-> {0, 2}, devices |-> {2}]

MCUses ==
  {\* two rounds of one recording, or two sessions
   [Plain EXCEPT !.calls = 12],
   \* the service dies and comes back
   [Plain EXCEPT !.calls = 8, !.dies = TRUE],
   \* audio
   [Plain EXCEPT !.cmds = (Recording \ {"CreateVideoTrack", "DeleteVideoTrack"})
                            \cup {"CreateAudioTrack", "DeleteAudioTrack", "SetAudioTrackParam"},
                 !.calls = 9],
   \* the service refuses
   [Plain EXCEPT !.calls = 7, !.refuses = {"Connect", "CreateSession", "DeleteVideoTrack",
                                           "DeleteSession"}],
   \* buffers are replaced
   [Plain EXCEPT !.calls = 7, !.remap = TRUE],
   \* images and the camera's own calls
   [Plain EXCEPT !.cmds = {"Connect", "Disconnect", "StartCamera", "StopCamera", "CaptureImage",
                           "ConfigImageCapture", "CancelCaptureImage", "SetCameraParam",
                           "GetCameraParam", "GetDefaultCaptureParam",
                           "GetCameraCharacteristics"},
                 !.calls = 6, !.dies = TRUE],
   \* as much metadata as its counter counts, and more, and some that is refused
   [Plain EXCEPT !.cmds = {"Connect", "StartCamera", "CaptureImage", "SetCameraParam"},
                 !.calls = 4, !.dies = TRUE, !.metas = {1, 255, 256},
                 !.refuses = {"CaptureImage", "SetCameraParam"}],
   \* as many devices as the array has, and one more
   [Plain EXCEPT !.cmds = {"Connect", "CreateSession", "CreateAudioTrack", "DeleteAudioTrack"},
                 !.calls = 4, !.devices = {0, 10, 11}],
   \* everything else, and notices
   [Plain EXCEPT !.cmds = {"Connect", "CreateSession", "CreateVideoTrackExtra", "PauseSession",
                           "ResumeSession", "SetVideoTrackParam", "StartCamera"},
                 !.calls = 5, !.notices = TRUE]}
=============================================================================
