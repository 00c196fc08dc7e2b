--------------------------- MODULE MCCameraContext ---------------------------
(***************************************************************************)
(* The two implementations of CameraContext, for TLC: a behaviour is one   *)
(* of CameraContext (HAL version 3: two tracks, each image mode, the HAL's *)
(* faults, few frames and calls) or of CameraContextHal1 (two tracks that  *)
(* start and stop, three of them with undefined behaviour taking its       *)
(* outcomes, pictures, modes with HALs that lack a scene).                 *)
(***************************************************************************)
EXTENDS CameraContext

CONSTANTS Hal1Uses, Fds

VARIABLES part,
          use, camera, streams_params_, consumers_, ports_, producer, memory, frames,
          entering, todo, running, settings, snap, params, budget, events, failures

H == INSTANCE CameraContextHal1 WITH calls <- budget, aborted <- failures

hal1Vars == <<use, camera, streams_params_, consumers_, ports_, producer, memory,
              frames, entering, todo, running, settings, snap, params, budget, events, failures>>

Use(n, tracks, modes, sizes, images, faults) ==
  [calls |-> n, tracks |-> tracks, modes |-> modes, sizes |-> sizes,
   images |-> images, faults |-> faults]

MCScenarios ==
  {Use(6, {1, 2}, {}, {}, {}, {"error"}),
   Use(5, {1}, {"kVideo"}, {1}, {1}, {"refuse"}),
   Use(5, {1}, {"kContinuous", "kStill"}, {1, 2}, {1}, {}),
   Use(5, {}, {"kStillPlusRaw", "kStill"}, {1}, {2}, {}),
   Use(5, {1}, {"kZsl", "kStill"}, {1}, {1}, {})}

M == INSTANCE Hal1Modes
AllNames == [key \in M!Keys |-> {M!Table(key)[i][1] : i \in DOMAIN M!Table(key)}]
Hal1(kind, tracks, n, undefined, scenes) ==
  [kind |-> kind, tracks |-> tracks, calls |-> n, undefined |-> undefined,
   supported |-> [AllNames EXCEPT !["scene-mode"] = scenes, !["exposure-lock"] = {"true"},
                                 !["whitebalance-lock"] = {"true"}]]
Scenes == AllNames["scene-mode"]

MCHal1Uses ==
  {Hal1("streams", {1, 2}, 7, FALSE, Scenes), Hal1("streams", {1, 2, 3}, 6, TRUE, Scenes),
   Hal1("pictures", {}, 4, FALSE, Scenes),
   Hal1("modes", {}, 2, FALSE, (Scenes \ {"sunset"}) \cup {"flowers"}),
   Hal1("modes", {}, 2, FALSE, Scenes \ {"steadyphoto"})}
MCFds == [kPreview |-> {1, 2}, kVideo |-> {3}]

OfHal3(A) == part = "hal3" /\ A /\ UNCHANGED <<part, hal1Vars>>
OfHal1(A) == part = "hal1" /\ A /\ UNCHANGED <<part, vars>>

FirstScenario == CHOOSE s \in Scenarios : TRUE
FirstUse == CHOOSE u \in Hal1Uses : u.kind = "streams"
ContextInit ==
  /\ part \in {"hal3", "hal1"} /\ Init /\ H!Hal1Init
  /\ part = "hal1" => scenario = FirstScenario
  /\ part = "hal3" => use = FirstUse

ContextNext == OfHal3(Next) \/ OfHal1(H!Hal1Next)
ContextSpec == ContextInit /\ [][ContextNext]_<<part, vars, hal1Vars>>

\* With a HAL of the first version a started track is on one started port, its
\* consumer connected to that port alone, whatever was stopped and moved around
\* it (StartStream, StopStream, StreamCallback); the images listed are those a
\* client holds (SnapshotCallback, ReturnAllImageCaptureBuffers); and a mode that was advertised
\* and set is read back, under a name the HAL supports (SetCameraParam,
\* GetCameraParam).
Hal1Serves == H!Hal1StreamsFed /\ H!Hal1ImagesServed /\ H!Hal1ModesKept
=============================================================================
