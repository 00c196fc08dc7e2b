------------------------- MODULE MCRecorderSessions -------------------------
(***************************************************************************)
(* The maps of RecorderImpl, for TLC: sessions and tracks                  *)
(* (RecorderSessions), and cameras (RecorderCameras).  A track does not    *)
(* look at who owns its camera, so a behaviour is one of the sessions or   *)
(* one of the cameras.  The tracks are two kinds of track in one session,  *)
(* or one kind in two sessions.                                            *)
(***************************************************************************)
EXTENDS RecorderSessions, RecorderCameras, TLC

VARIABLE part

Layout(f, g) == (1 :> f) @@ (2 :> g)
MCLayouts == {Layout("avc", "aac"), Layout("yuv", "pcm"), Layout("rgb", "avc"), 1 :> "pcm"}
MCBound(f) == IF DOMAIN f = {1} THEN 2 ELSE 1

OfSessions(A) == part = "sessions" /\ A /\ UNCHANGED <<part, cameraVars>>
OfCameras(A) == part = "cameras" /\ A /\ UNCHANGED <<part, vars>>
all == <<part, vars, cameraVars>>

RecorderInit ==
  /\ part \in {"sessions", "cameras"} /\ Init /\ CamerasInit
  /\ part = "cameras" => kind = (1 :> "pcm")
RecorderNext == OfSessions(Next) \/ OfCameras(CamerasNext)

\* Threads run.  A session's mutex is wanted by at most two threads, the call of its client
\* and the cleanup, so that whoever waits for it gets it.  The cleanup of a dead client is
\* not overtaken for ever at stop_camera_lock_: whoever has it gives it up.
CallThread(c) ==
  OfSessions(~crashed /\ Step(<<c, "call">>)) \/ OfCameras(Thread(<<c, "call">>))
DeathThread(c) ==
  \/ OfSessions(~crashed /\ (CleanUp(c) \/ CleanUpStep(c) \/ Step(<<c, "death">>)))
  \/ OfCameras(\/ Thread(<<c, "death">>) \/ CleanUpSessions(c) \/ CopyCameras(c)
               \/ CleanUpDone(c) \/ \E k \in Cameras : CleanUpCamera(c, k))
RecorderSpec ==
  /\ RecorderInit /\ [][RecorderNext]_all
  /\ \A c \in Clients : /\ WF_all(CallThread(c)) /\ WF_all(DeathThread(c))
                       /\ SF_all(OfCameras(Stop(<<c, "death">>)))

\* Every call on sessions and tracks returns, and every cleanup of a dead client ends,
\* that of its sessions and that of its cameras, although StartSession of a paused
\* session calls ResumeSession with the session's mutex held, the cleanup waits for the
\* mutex of a call in progress, and waits for stop_camera_lock_ with the lock_ held
\* that every call needs (DeRegisterClient, StopCamera).
RecorderReturns ==
  \A c \in Clients :
    ~Quiet(c) \/ "dead" \in {life[c], user[c]}
      ~> ((Quiet(c) /\ life[c] # "dead") \/ crashed) /\ user[c] # "dead"
=============================================================================
