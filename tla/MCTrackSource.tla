--------------------------- MODULE MCTrackSource ---------------------------
(***************************************************************************)
(* What a video track is made of, for TLC.  A behaviour is one of          *)
(*   "track": TrackSource, with two buffers that are alike and a track of  *)
(*            each kind;                                                   *)
(*   "rate":  FrameRateController, with a camera that is slower, faster    *)
(*            and late by half an interval;                                *)
(*   "scale": CameraRescaler, with two buffers on either side;             *)
(*   "codec": CodecConfig, with each kind of codec and its options.        *)
(***************************************************************************)
EXTENDS FrameRateController, CameraRescaler, TLC

CONSTANTS Buffers, Tracks, Rescaled, MaxRepeats, Inputs, CodecUses, InCount, OutCount,
          Extra

VARIABLES part,
  format, rescaler_, port_, frcOn, connected, enable_frame_repeat_, repeats, setter,
  upstream, buffers_, buffer_map_, stream_buffer_map_,
  frames_received_, encoding, buffers_map_, buffer_list_, linked, dead, num_consumers_,
  stopping, is_paused_, eos_acked_, is_idle_, feeder, input, component, control, starts,
  aborted, conduct, astray,
  job, omx, hdr, hdrSize, slice_mode_encoding_, list, calls, step, refusals, broke

T == INSTANCE TrackSource WITH active_ <- frcOn, camera <- feeder, is_stop_ <- stopping,
     frame_repeat_enabled_ <- repeats
C == INSTANCE CodecConfig

trackVars == <<format, rescaler_, port_, frcOn, connected, enable_frame_repeat_, repeats,
               setter, upstream, buffers_, buffer_map_, stream_buffer_map_,
               frames_received_, encoding, buffers_map_, buffer_list_,
               linked, dead, num_consumers_, stopping, is_paused_, eos_acked_, is_idle_,
               feeder, input, component, control, starts, aborted, conduct,
               astray>>
codecVars == <<job, omx, hdr, hdrSize, slice_mode_encoding_, list, calls, step, refusals,
               broke>>
allVars == <<part, trackVars, frcVars, rescalerVars, codecVars>>

Alike == Permutations(Buffers)

Track(f, n, r) == [format |-> f, starts |-> n, repeats |-> r]
MCTracks == {Track("AVC", 2, FALSE), Track("AVC", 1, TRUE), Track("NV12", 2, FALSE),
             Track("RDI16", 2, FALSE)}

Codec(type, coding, on) ==
  [type |-> type, build |-> {"aud", "ratecontrol"}, format |-> coding, on |-> on, profile |-> "main", level |-> <<4, 2>>,
   vqzip |-> <<"main", <<4, 2>>>>, cabac |-> TRUE, fps |-> 30, interval |-> 1, size |-> "hd",
   small |-> "vga", bitrate |-> 8000, rc |-> "variable", channels |-> 2, aac |-> "MP4FF",
   law |-> "a", count |-> [in |-> 4, out |-> 4], min |-> [in |-> 2, out |-> 2],
   rounds |-> FALSE, refusals |-> 1, restarts |-> TRUE, ask |-> <<"idr", 5>>, told |-> FALSE]

Options == {"sar", "initqp", "vqzip", "slice", "ltr"}
MCCodecUses ==
  {[Codec("videoEnc", "AVC", on) EXCEPT !.rc = rc] :
     on \in SUBSET Options, rc \in {"disable", "variable"}}
  \cup {[Codec("videoEnc", "AVC", {}) EXCEPT !.level = l, !.profile = p, !.interval = 0] :
     l \in {<<1, 0>>, <<3, 1>>, <<5, 2>>}, p \in {"baseline", "high"}}
  \cup {[Codec("videoEnc", "HEVC", on) EXCEPT !.level = l] :
     on \in {{"ibprange", "hier"}, {"vqzip"}, {"hal1"}}, l \in {<<5, 0>>, <<5, 1>>}}
  \cup {[Codec("videoEnc", f, {"lpm", "qprange", "initqp"}) EXCEPT
          !.build = b, !.rc = rc, !.level = <<4, 0>>] : f \in {"AVC", "HEVC"},
     b \in {{}, {"lpm", "qprange"}, {"lpm", "qprange", "ratecontrol"}},
     rc \in {"maxBitrate", "constant"}}
  \cup {[Codec("videoEnc", "AVC", {"vqzip"}) EXCEPT !.vqzip = <<"high", <<4, 2>>>>],
        [Codec("videoEnc", "AVC", {}) EXCEPT !.rounds = TRUE],
        [Codec("videoEnc", "AVC", {"prepend", "aud"}) EXCEPT !.min = [in |-> 12, out |-> 8],
                !.count = [in |-> 12, out |-> 8], !.ask = <<"bitrate", 9>>],
        Codec("videoEnc", "JPEG", {})}
  \cup {[Codec("videoEnc", "AVC", {}) EXCEPT !.ask = <<kind, 1>>] :
          kind \in {"framerate", "insertIdr", "markLtr", "useLtr", "operatingRate",
                    "frameRepeat", "unknown"}}
  \cup {Codec("videoDec", f, on) : f \in {"AVC", "HEVC"},
          on \in SUBSET {"downscale", "vqzip", "thumbnail"}}
  \cup {[Codec("videoDec", "AVC", {}) EXCEPT !.rounds = TRUE]}
  \cup {[Codec("audioEnc", f, {"wide"}) EXCEPT !.rounds = r] :
          f \in {"AAC", "AMR", "G711"}, r \in BOOLEAN}
  \cup {[Codec("audioEnc", "MPEGH", on) EXCEPT !.channels = 4, !.bitrate = b] :
          on \in {{}, {"mpegh"}}, b \in {307200, 307201}}
  \cup {[Codec("audioEnc", "AAC", {}) EXCEPT !.channels = 3],
        [Codec("audioEnc", "AAC", {}) EXCEPT !.count = [in |-> 11, out |-> 4]],
        [Codec("audioEnc", "G711", {}) EXCEPT !.law = "none"], Codec("audioDec", "MPEGH", {})}
  \cup {[Codec("audioDec", f, {}) EXCEPT !.aac = "Raw"] : f \in {"AAC", "G711"}}
  \cup {[Codec("audioDec", "AMR", on) EXCEPT !.bitrate = b, !.refusals = 0] :
          on \in {{}, {"wide"}}, b \in {0, 4750, 4751, 6600, 12200, 23050, 23051, 30000}}

OfTrack(A) == part = "track" /\ A /\ UNCHANGED <<part, frcVars, rescalerVars, codecVars>>
OfRate(A) == part = "rate" /\ A /\ UNCHANGED <<part, trackVars, rescalerVars, codecVars>>
OfScale(A) == part = "scale" /\ A /\ UNCHANGED <<part, trackVars, frcVars, codecVars>>
OfCodec(A) == part = "codec" /\ A /\ UNCHANGED <<part, trackVars, frcVars, rescalerVars>>

\* The parts that a behaviour is not of start in one fixed state.
PartsInit ==
  /\ part \in {"track", "rate", "scale", "codec"}
  /\ T!TrackInit /\ FrcInit /\ RescalerInit /\ C!CodecInit
  /\ part # "track" => format = "AVC" /\ setter = "none"
  /\ part # "rate" => output_frame_interval_ = CHOOSE i \in Intervals : TRUE
  /\ part # "codec" =>
       job = (CHOOSE u \in CodecUses : TRUE) /\ hdr = [x \in C!Ports |-> 0]

PartsNext ==
  \/ OfTrack(T!TrackNext) \/ OfRate(FrcNext) \/ OfScale(RescalerNext)
  \/ OfCodec(C!CodecNext)
PartsSpec == PartsInit /\ [][PartsNext]_allVars

\* What the encoder, the client or a linked track reads is not with the camera, and
\* what is not with the camera is with one of them (OnFrameAvailable,
\* ReturnBufferToProducer).
BuffersCirculate == T!BuffersCirculate

\* A track that was stopped holds no frame (StopTrack, NotifyPortEvent).
StoppedHoldsNothing == T!StoppedHoldsNothing

\* The assertions of TrackSource fail only in the situations its property names.
AssertionsHold == T!AssertionsHold

\* The arrays of buffer headers of an AVCodec are as long as its component's
\* ports, and StartCodec has a buffer for each (AllocateBuffer).
HeadersMatchPorts == C!HeadersMatchPorts

=============================================================================
