---------------------------- MODULE MCAudioTrack ----------------------------
(***************************************************************************)
(* The audio tracks explored by TLC: a raw one that is started twice, one  *)
(* that is paused, one where something fails, and the same for an encoded  *)
(* one; an encoder with one output buffer or with two.                     *)
(***************************************************************************)
EXTENDS AudioTrack

Two == <<"p1", "p2">>
Use(kind, pcm, out, starts, pauses, faults) ==
  [kind |-> kind, pcm |-> pcm, out |-> out, starts |-> starts, pauses |-> pauses,
   faults |-> faults]
MCUses ==
  {Use("raw", Two, <<>>, 2, 0, 0), Use("raw", <<"p1">>, <<>>, 1, 1, 0),
   Use("raw", Two, <<>>, 1, 0, 1),
   Use("encoded", Two, <<"o1">>, 2, 0, 0), Use("encoded", Two, <<"o1">>, 1, 1, 0),
   Use("encoded", Two, <<"o1">>, 1, 0, 1), Use("encoded", Two, <<"o1", "o2">>, 1, 0, 0)}

\* The threads, the component and the control thread go on, and the application
\* returns its buffers.  A thread that missed a wake-up sleeps on.
AudioSpec ==
  /\ AudioInit /\ [][AudioNext]_audioVars
  /\ WF_audioVars(failed = "no" /\ PulseThread)
  /\ WF_audioVars(failed = "no" /\ RawThread)
  /\ WF_audioVars(failed = "no" /\ DeliverInput)
  /\ WF_audioVars(failed = "no" /\ DeliverOutput)
  /\ WF_audioVars(failed = "no" /\ Component)
  /\ WF_audioVars(failed = "no" /\ Stop)
  /\ WF_audioVars(failed = "no" /\ ReturnTrackBuffer)
=============================================================================
