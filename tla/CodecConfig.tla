---------------------------- MODULE CodecConfig ----------------------------
(***************************************************************************)
(* How an AVCodec (qmmf_avcodec.cc) is set up before its first buffer:     *)
(* ConfigureCodec chooses the component and walks the settings of one of   *)
(* four kinds of codec, a failing call of the component ending the walk;   *)
(* AllocateBuffer agrees on the number of buffers of each port and makes   *)
(* the arrays of buffer headers that StartCodec fills; TrackEncoder::Init  *)
(* (video) and AudioTrackEncoder::Start (audio) make these calls in order  *)
(* and undo them when one fails.                                           *)
(*                                                                         *)
(* A configuration is the sequence of calls it makes, computed from the    *)
(* parameters; one action takes one call.  The component is external: it   *)
(* keeps what it is given, or refuses a call.                              *)
(***************************************************************************)
EXTENDS Integers, Sequences, FiniteSets, TLC

CONSTANTS
  CodecUses,    \* what the codec is created for (MCTrackSource lists some)
  InCount,      \* AVCODEC_IN_BUF_COUNT
  OutCount,     \* AVCODEC_OUT_BUF_COUNT
  Extra         \* extra_output_buffers_

VARIABLES
  job,          \* the parameters and the component of this codec
  omx,          \* the component: its state, its settings, its buffer counts
  hdr,          \* in_buff_hdr_, out_buff_hdr_: the length of the array, 0 for
                \* a null pointer, Stale for the uninitialised member
  hdrSize,      \* in_buff_hdr_size_, out_buff_hdr_size_
  slice_mode_encoding_,
  list,         \* how many buffers RegisterOutputBuffers was given
  calls,        \* the calls the running configuration has yet to make
  step,         \* where the caller is
  refusals,     \* how many calls the component may still refuse
  broke         \* the assertion that failed, or what else ended the process

cfgVars == <<job, omx, hdr, hdrSize, slice_mode_encoding_, list, calls, step,
             refusals, broke>>

Stale == -1
Ports == {"in", "out"}
Video(p) == p.type \in {"videoEnc", "videoDec"}

CodecInit ==
  /\ job \in CodecUses
  /\ omx = [state |-> "none", set |-> <<>>, count |-> job.count]
  /\ hdr \in [Ports -> {0, Stale}] /\ hdrSize = [x \in Ports |-> Stale]
  /\ slice_mode_encoding_ = FALSE /\ list = 0 /\ calls = <<>>
  /\ step = "new" /\ refusals = job.refusals /\ broke = "no"

-----------------------------------------------------------------------------
\* The calls of a configuration.

Get(index) == <<"get", index>>
Set(index, value) == <<"set", index, value>>
Require(condition) == <<"require", condition>>      \* return an error unless
On(p, option, then) == IF option \in p.on THEN then ELSE <<>>

\* What the preprocessor leaves in: "lpm", "qprange" and "aud" are there unless the
\* build says DISABLE_VID_LPM, DISABLE_VID_QP_RANGE (CMake builds say both) or
\* DISABLE_VID_AU_DELIMITER, "ratecontrol" unless ENCODER_MAX_BITRATE_NOT_SUPPORTED.
Built(p, option, then) == IF option \in p.build THEN then ELSE <<>>

\* QmmftoOmxLevel, from major and minor to ten times the level: for HEVC the
\* component is told 4.1 where 5.1 is asked, and OmxtoQmmfLevel reads it back so.
AvcLevels ==
  (<<1, 0>> :> 10) @@ (<<1, 3>> :> 13) @@ (<<2, 0>> :> 20) @@ (<<2, 1>> :> 21)
  @@ (<<2, 2>> :> 22) @@ (<<3, 0>> :> 30) @@ (<<3, 1>> :> 31) @@ (<<3, 2>> :> 32)
  @@ (<<4, 0>> :> 40) @@ (<<4, 1>> :> 41) @@ (<<4, 2>> :> 42) @@ (<<5, 0>> :> 50)
  @@ (<<5, 1>> :> 51) @@ (<<5, 2>> :> 52)
HevcLevels ==
  (<<3, 0>> :> 30) @@ (<<4, 0>> :> 40) @@ (<<5, 0>> :> 50) @@ (<<5, 1>> :> 41)
  @@ (<<5, 2>> :> 52)
QmmftoOmxLevel(p) == IF p.format = "AVC" THEN AvcLevels ELSE HevcLevels

OmxtoQmmfLevel ==
  (10 :> <<1, 0>>) @@ (13 :> <<1, 3>>) @@ (20 :> <<2, 0>>) @@ (21 :> <<2, 1>>)
  @@ (22 :> <<2, 2>>) @@ (30 :> <<3, 0>>) @@ (31 :> <<3, 1>>) @@ (32 :> <<3, 2>>)
  @@ (40 :> <<4, 0>>) @@ (41 :> <<4, 1>>) @@ (42 :> <<4, 2>>) @@ (50 :> <<5, 0>>)
  @@ (51 :> <<5, 1>>) @@ (52 :> <<5, 2>>)

QmmftoOmxProfile(p) ==
  IF p.format = "AVC"
  THEN ("baseline" :> "AVCBaseline") @@ ("main" :> "AVCMain") @@ ("high" :> "AVCHigh")
  ELSE ("main" :> "HEVCMain")

OmxtoQmmfProfile(format) ==
  IF format = "AVC"
  THEN ("AVCBaseline" :> "baseline") @@ ("AVCMain" :> "main") @@ ("AVCHigh" :> "high")
  ELSE ("HEVCMain" :> "main")

\* The P frames between two I frames.
PFrames(p) == IF p.interval = 0 THEN 0 ELSE p.fps * p.interval - 1
IntraPeriod(p) == <<Get("IntraPeriod"), Set("IntraPeriod", PFrames(p))>>

\* A baseline stream of I frames only says so; the other profiles do not.
AvcType(p) ==
  LET base == p.profile = "baseline" IN
  [profile |-> QmmftoOmxProfile(p)[p.profile], level |-> QmmftoOmxLevel(p)[p.level],
   pframes |-> PFrames(p), refs |-> IF base THEN 1 ELSE 2,
   types |-> IF base /\ PFrames(p) = 0 THEN {"I"} ELSE {"I", "P"},
   cabac |-> IF "vqzip" \in p.on THEN p.cabac ELSE ~base,
   sliced |-> "slice" \in p.on]

\* The slice delivery mode is the last call: its failure is logged, and returned.
SetupAVCEncoderParameters(p) ==
  <<Get("Avc")>>
  \o On(p, "vqzip", <<Require(p.vqzip = <<p.profile, p.level>>), Set("VqzipSei", TRUE)>>)
  \o On(p, "slice", <<<<"slice">>>>)
  \o IntraPeriod(p)
  \o <<Set("Avc", AvcType(p))>>
  \o On(p, "slice", <<Set("SliceDelivery", TRUE)>>)

SetupHEVCEncoderParameters(p) ==
  <<Get("Hevc"), Set("Hevc", [profile |-> QmmftoOmxProfile(p)[p.profile],
                              level |-> QmmftoOmxLevel(p)[p.level]])>>
  \o IntraPeriod(p)
  \o <<Require("vqzip" \notin p.on)>>

ConfigureSAR(p) == On(p, "sar", <<Set("AspectRatio", TRUE)>>)

\* The output port of an encoder is placed in memory; a refusal is an assertion.
SetPortParams(p, port) ==
  <<Get(port), Set(port, <<p.size, p.fps>>)>>
  \o IF port = "out" /\ p.type = "videoEnc" THEN <<<<"must", "PortDefn", "SMI">>>> ELSE <<>>

\* A build for a component without a maximum bit rate switches the rate control off
\* where one is asked, and otherwise leaves the component its own, whatever is asked.
MaxBitrate == {"maxBitrate", "maxBitrateSkip"}
ControlRate(p) == IF "ratecontrol" \in p.build THEN p.rc
                  ELSE IF p.rc \in MaxBitrate THEN "disable" ELSE "own"

ConfigureBitrate(p) ==
  <<Require("vqzip" \in p.on => p.rc = "disable"), Get("Bitrate"),
    Set("Bitrate", <<p.bitrate, ControlRate(p)>>)>>

\* The sequence headers; built for HAL1, the encoder knows NV12 and NV21 only, and
\* FromVideoToQmmfFormat gives neither for AVC and HEVC.
EncoderHeaders(p) ==
  On(p, "hal1", <<Require(FALSE)>>)
  \o ConfigureSAR(p)
  \o <<Set("SequenceHeader", "prepend" \in p.on)>>
  \o Built(p, "aud", <<Set("AUDelimiter", "aud" \in p.on)>>)
  \o <<Set("VuiTiming", TRUE)>>

EncoderPorts(p) ==
  SetPortParams(p, "in") \o SetPortParams(p, "out")
  \o Built(p, "lpm", On(p, "lpm", <<Set("PerfMode", 2)>>))

EncoderFormat(p) ==
  IF p.format = "AVC" THEN SetupAVCEncoderParameters(p) ELSE SetupHEVCEncoderParameters(p)


\* The first quantiser is an initial value under rate control, else the value.
EncoderInitQp(p) ==
  On(p, "initqp",
     IF p.rc = "disable" THEN <<Set("Quantization", TRUE)>> ELSE <<Set("InitialQp", TRUE)>>)

EncoderQpRanges(p) ==
  Built(p, "qprange", On(p, "qprange", <<Get("QpRange"), Set("QpRange", TRUE)>>))
  \o On(p, "ibprange", <<Get("IbpQpRange"), Set("IbpQpRange", TRUE)>>)

EncoderLayers(p) ==
  On(p, "ltr", <<Get("LtrCount"), Set("LtrCount", TRUE)>>)
  \o On(p, "hier", <<Get("Hierarchical"), Set("Hierarchical", TRUE)>>)

ConfigureVideoEncoder(p) ==
  EncoderHeaders(p) \o EncoderPorts(p) \o EncoderFormat(p) \o EncoderInitQp(p)
  \o EncoderQpRanges(p) \o EncoderLayers(p) \o ConfigureBitrate(p)

DecoderOptions(p) ==
  <<Set("PortDefn", "OneFrame"), Set("ForceUncompressed", TRUE), Set("PortFormat", "NV12"),
    Require(~({"downscale", "vqzip"} \subseteq p.on))>>
  \o On(p, "downscale", <<Set("DownScalar", TRUE)>>)
  \o On(p, "vqzip", <<Set("VqzipSei", TRUE)>>)
  \o On(p, "thumbnail", <<Set("SyncFrameDecoding", TRUE)>>)

\* The size of each port is set and the number of buffers it then has, read.
DecoderPorts(p) ==
  <<Get("in"), Set("in", <<p.size, p.fps>>), Get("in"), <<"size", "in">>,
    Get("out"), Set("out", IF "downscale" \in p.on THEN p.small ELSE p.size),
    Get("out"), <<"size", "out">>>>

ConfigureVideoDecoder(p) ==
  DecoderOptions(p) \o DecoderPorts(p) \o <<Set("PictureOrder", "display")>>

\* pickModeFromBitRate: the band mode, counted from 0.
pickModeFromBitRate(wide, bps) ==
  LET limits == IF wide THEN {6600, 8850, 12650, 14250, 15850, 18250, 19850, 23050}
                ELSE {4750, 5150, 5900, 6700, 7400, 7950, 10200}
  IN Cardinality({l \in limits : bps > l})

AacType(p) == [channels |-> p.channels, bitrate |-> p.bitrate, format |-> p.aac]

\* The number of input buffers of an audio encoder is fixed (FixCount).
AudioEncoderPorts(p) ==
  <<Require(p.format = "MPEGH" => p.channels = 4 /\ p.bitrate \in {307200, 393216, 524288}),
    Get("Init"), Get("in"), <<"count">>, <<"size", "in">>, Set("PcmIn", p.channels),
    Get("out"), <<"size", "out">>>>

AudioEncoderFormat(p) ==
  CASE p.format = "AAC" -> <<Require(p.channels \in {1, 2}),
                             Require(p.aac \in {"ADTS", "Raw", "MP4FF"}),
                             Set("Aac", AacType(p))>>
    [] p.format = "AMR" -> <<Set("Amr", IF "wide" \in p.on THEN 8 ELSE 7)>>
    [] p.format = "G711" -> <<Set("PcmIn", p.channels)>>
    [] OTHER -> On(p, "mpegh", <<Set("Mpegh", p.bitrate \div 1024)>>)
                \o <<Require("mpegh" \in p.on)>>

ConfigureAudioEncoder(p) == AudioEncoderPorts(p) \o AudioEncoderFormat(p)

AudioDecoderPorts(p) ==
  <<Get("Init"), Get("in"), <<"size", "in">>, Get("out"), <<"size", "out">>>>

AudioDecoderFormat(p) ==
  CASE p.format = "AAC" -> <<Require(p.channels \in {1, 2}),
                             Require(p.aac \in {"ADTS", "Raw"}), Set("Aac", AacType(p))>>
    [] p.format = "AMR" -> <<Set("Amr", pickModeFromBitRate("wide" \in p.on, p.bitrate))>>
    [] OTHER -> <<Set("G711", p.channels)>>

ConfigureAudioDecoder(p) ==
  AudioDecoderPorts(p) \o AudioDecoderFormat(p)
  \o <<Get("out"), Set("out", "PCM"), Get("PcmOut"), Set("PcmOut", p.channels)>>

\* The component a codec is created with follows the format of the parameters; the
\* mime type only says which parameters are read.
ComponentExists(p) ==
  CASE Video(p) -> p.format \in {"AVC", "HEVC"}
    [] p.format = "G711" -> p.law \in {"a", "mu"}
    [] OTHER -> p.format \in {"AAC", "AMR"} \/ (p.type = "audioEnc" /\ p.format = "MPEGH")

CallsOf(p) ==
  CASE p.type = "videoEnc" -> ConfigureVideoEncoder(p)
    [] p.type = "videoDec" -> ConfigureVideoDecoder(p)
    [] p.type = "audioEnc" -> ConfigureAudioEncoder(p)
    [] OTHER -> ConfigureAudioDecoder(p)

-----------------------------------------------------------------------------
\* The component.

Write(index, value) == omx' = [omx EXCEPT !.set = (index :> value) @@ @]

\* A component takes the number of buffers it is given, or one that rounds does not.
Granted(n) == IF job.rounds /\ n % 2 = 1 THEN n + 1 ELSE n

Refuse == refusals > 0 /\ refusals' = refusals - 1
Accept == UNCHANGED refusals

Abort(place) == broke' = place /\ step' = "aborted" /\ calls' = <<>>

\* An error leaves the codec as it is.  TrackEncoder::Init asserts all its steps but
\* the last; StartCodec goes on when a restarted decoder is not reconfigured.
Fail ==
  IF job.type = "videoEnc" /\ step # "out" THEN Abort("Init")
  ELSE /\ step' = IF step = "restart" THEN "ready" ELSE "failed"
       /\ calls' = <<>> /\ UNCHANGED broke

CreateHandle ==
  /\ step = "new"
  /\ \/ /\ ComponentExists(job) /\ Accept
        /\ omx' = [omx EXCEPT !.state = "loaded"]
        /\ calls' = CallsOf(job) /\ step' = "configure" /\ UNCHANGED broke
     \/ /\ Refuse \/ (~ComponentExists(job) /\ Accept)
        /\ Fail /\ UNCHANGED omx
  /\ UNCHANGED <<job, hdr, hdrSize, slice_mode_encoding_, list>>

-----------------------------------------------------------------------------
\* One call of a configuration.

Configuring(kind) == step \in {"configure", "restart"} /\ calls # <<>> /\ calls[1][1] = kind
Arg(n) == calls[1][n]
Proceed == calls' = Tail(calls) /\ UNCHANGED <<step, broke>>

GetParameter ==
  /\ Configuring("get")
  /\ \/ Accept /\ Proceed
     \/ Refuse /\ Fail
  /\ UNCHANGED <<job, omx, hdr, hdrSize, slice_mode_encoding_, list>>

SetParameter ==
  /\ Configuring("set")
  /\ \/ Accept /\ Write(Arg(2), Arg(3)) /\ Proceed
     \/ Refuse /\ Fail /\ UNCHANGED omx
  /\ UNCHANGED <<job, hdr, hdrSize, slice_mode_encoding_, list>>

PlaceOutputPort ==
  /\ Configuring("must")
  /\ \/ Accept /\ Write(Arg(2), Arg(3)) /\ Proceed
     \/ Refuse /\ Abort("SetPortParams") /\ UNCHANGED omx
  /\ UNCHANGED <<job, hdr, hdrSize, slice_mode_encoding_, list>>

Validate ==
  /\ Configuring("require")
  /\ \/ Arg(2) /\ Proceed
     \/ ~Arg(2) /\ Fail
  /\ UNCHANGED <<job, omx, hdr, hdrSize, slice_mode_encoding_, list, refusals>>

EnableSlices ==
  /\ Configuring("slice")
  /\ slice_mode_encoding_' = TRUE /\ Proceed
  /\ UNCHANGED <<job, omx, hdr, hdrSize, list, refusals>>

TakeSize ==
  /\ Configuring("size")
  /\ hdrSize' = [hdrSize EXCEPT ![Arg(2)] = omx.count[Arg(2)]]
  /\ Proceed
  /\ UNCHANGED <<job, omx, hdr, slice_mode_encoding_, list, refusals>>

\* The input buffers of an audio encoder: set unless they already are as many, then
\* read back and compared.
FixCount ==
  /\ Configuring("count")
  /\ \/ /\ omx.count["in"] = InCount /\ Accept /\ Proceed /\ UNCHANGED omx
     \/ /\ omx.count["in"] # InCount /\ Accept
        /\ omx' = [omx EXCEPT !.count["in"] = Granted(InCount)]
        /\ IF Granted(InCount) = InCount THEN Proceed ELSE Fail
     \/ /\ omx.count["in"] # InCount /\ Refuse /\ Fail /\ UNCHANGED omx
  /\ UNCHANGED <<job, hdr, hdrSize, slice_mode_encoding_, list>>

\* ConfigureCodec asks for Idle, which the component enters when it has its buffers.
ConfigureEnds ==
  /\ step \in {"configure", "restart"} /\ calls = <<>>
  /\ \/ /\ step = "configure" /\ Accept /\ omx' = [omx EXCEPT !.state = "toIdle"]
        /\ step' = "in" /\ UNCHANGED <<calls, broke>>
     \/ /\ step = "configure" /\ Refuse /\ Fail /\ UNCHANGED omx
     \/ /\ step = "restart" /\ step' = "ready" /\ UNCHANGED <<omx, refusals, calls,
                                                              broke>>
  /\ UNCHANGED <<job, hdr, hdrSize, slice_mode_encoding_, list>>

-----------------------------------------------------------------------------
\* AllocateBuffer, whose own count hides the one it is given.

Most(a, b) == IF a > b THEN a ELSE b

ExtraOutput(port) ==
  job.type = "videoDec" /\ port = "out" /\ "thumbnail" \notin job.on

BufCount(port) ==
  LET actual == omx.count[port] IN
  CASE job.type = "videoEnc" ->
         Most(IF port = "in" THEN InCount
              ELSE IF slice_mode_encoding_ THEN actual ELSE OutCount, job.min[port])
    [] ExtraOutput(port) -> actual + Extra
    [] OTHER -> actual

\* Slip: the size of a decoder's array stays the one of its configuration.
OldSize(port) ==
  [hdrSize EXCEPT ![port] = IF job.type = "videoEnc" THEN BufCount(port) ELSE @]

\* The size that is kept beside the array: an encoder's from here, a decoder's with
\* the extra buffers, the others' since their configuration.
NewSize(port) ==
  [hdrSize EXCEPT ![port] =
     IF job.type = "videoEnc" \/ ExtraOutput(port) THEN BufCount(port) ELSE @]

\* The output buffers of TrackEncoder are allocated and registered between the two ports.
AfterPort(port) ==
  CASE port = "out" -> "ready"
    [] job.type = "videoEnc" -> "buffers"
    [] OTHER -> "out"
MetaMode(port) == <<job.type, port>> \in {<<"videoEnc", "in">>, <<"videoDec", "out">>}

AllocateBuffer(port) ==
  LET n == BufCount(port) IN
  /\ step = port
  /\ \/ /\ Refuse /\ Fail
        /\ hdrSize' \in {hdrSize} \cup IF ExtraOutput(port) THEN {NewSize(port)} ELSE {}
        /\ UNCHANGED <<omx, hdr>>
     \/ /\ Accept
        /\ LET got == IF n = omx.count[port] THEN n ELSE Granted(n) IN
           /\ omx' = [omx EXCEPT !.count[port] = got]
           /\ hdrSize' = NewSize(port)
           /\ IF job.type = "videoEnc" /\ got # n
              THEN Abort("AllocateBuffer") /\ UNCHANGED hdr
              ELSE /\ hdr' = [hdr EXCEPT ![port] = got]
                   /\ step' = IF MetaMode(port) THEN "meta" ELSE AfterPort(port)
                   /\ UNCHANGED <<calls, broke>>
  /\ UNCHANGED <<job, slice_mode_encoding_, list>>

\* A failure frees the output's array when there is one, else the input's: the output
\* pointer may never have been set.
MetaBufferMode ==
  LET port == IF job.type = "videoEnc" THEN "in" ELSE "out" IN
  /\ step = "meta"
  /\ \/ Accept /\ Write("MetaMode", port) /\ step' = AfterPort(port) /\ UNCHANGED <<hdr,
                                                                                    calls,
                                                                                    broke>>
     \/ /\ Refuse /\ UNCHANGED omx
        /\ IF hdr["out"] = Stale THEN Abort("garbage") /\ UNCHANGED hdr
           ELSE /\ Fail
                /\ hdr' = [hdr EXCEPT ![IF hdr["out"] # 0 THEN "out" ELSE "in"] = 0]
  /\ UNCHANGED <<job, hdrSize, slice_mode_encoding_, list>>

\* RegisterOutputBuffers of an encoder: one entry of outputpParam_enc_ for each buffer.
RegisterOutputBuffers(n) == list' = n

\* AllocOutputPortBufs, then RegisterOutputBuffers: as many buffers as AllocateBuffer
\* will ask for, unless the component needs more.
AllocOutputPortBufs ==
  /\ step = "buffers"
  /\ \/ /\ Accept /\ step' = "out" /\ UNCHANGED <<calls, broke>>
        /\ RegisterOutputBuffers(IF job.format = "AVC" /\ "slice" \in job.on
                                 THEN omx.count["out"] ELSE OutCount)
     \/ Refuse /\ Fail /\ UNCHANGED list
  /\ UNCHANGED <<job, omx, hdr, hdrSize, slice_mode_encoding_>>

-----------------------------------------------------------------------------
\* A codec in use, and the end of one that could not be set up.

\* StartCodec on a decoder that was stopped configures it again with the parameters
\* it kept, and ignores the result.
Restart ==
  /\ step = "ready" /\ job.type = "videoDec" /\ job.restarts
  /\ job' = [job EXCEPT !.restarts = FALSE]
  /\ calls' = ConfigureVideoDecoder(job) /\ step' = "restart"
  /\ UNCHANGED <<omx, hdr, hdrSize, slice_mode_encoding_, list, refusals, broke>>

\* SetParameters, one kind: SetTrackEncoderParams asserts that the component agrees and
\* that the kind is one of these.  Frame repetition is no setting of the component.
ParamIndex ==
  ("bitrate" :> "ConfigBitrate") @@ ("framerate" :> "ConfigFramerate")
  @@ ("insertIdr" :> "VopRefresh") @@ ("idr" :> "IntraPeriod") @@ ("markLtr" :> "LtrMark")
  @@ ("useLtr" :> "LtrUse") @@ ("operatingRate" :> "OperatingRate")

SetParameters ==
  LET kind == job.ask[1] IN
  /\ step = "ready" /\ job.type = "videoEnc" /\ ~job.told
  /\ job' = [job EXCEPT !.told = TRUE]
  /\ \/ /\ kind \in DOMAIN ParamIndex /\ Accept /\ Write(ParamIndex[kind], job.ask[2])
        /\ UNCHANGED <<step, broke, calls>>
     \/ /\ kind = "frameRepeat" /\ Accept /\ UNCHANGED <<omx, step, broke, calls>>
     \/ /\ \/ kind \in DOMAIN ParamIndex /\ Refuse
           \/ kind \notin DOMAIN ParamIndex \cup {"frameRepeat"} /\ Accept
        /\ Abort("SetTrackEncoderParams") /\ UNCHANGED omx
  /\ UNCHANGED <<hdr, hdrSize, slice_mode_encoding_, list>>

\* GetParameters(kVQZipInfo), for AVC only: the component tells its profile and level.
GetParameters ==
  [profile |-> OmxtoQmmfProfile("AVC")[omx.set["Avc"].profile],
   level |-> OmxtoQmmfLevel[omx.set["Avc"].level], cabac |-> omx.set["Avc"].cabac]

\* The caller gives up: AudioTrackEncoder::Start releases the headers first unless
\* ConfigureCodec failed; the destructor deletes both arrays if they are not null.
GiveUp ==
  /\ step = "failed"
  /\ IF Stale \in {hdr[x] : x \in Ports} THEN Abort("garbage") /\ UNCHANGED <<omx,
                                                                              hdr>>
     ELSE /\ omx' = [omx EXCEPT !.state = "none"] /\ hdr' = [x \in Ports |-> 0]
          /\ step' = "gone" /\ UNCHANGED <<calls, broke>>
  /\ UNCHANGED <<job, hdrSize, slice_mode_encoding_, list, refusals>>

CodecNext ==
  \/ CreateHandle \/ GetParameter \/ SetParameter \/ PlaceOutputPort \/ Validate
  \/ EnableSlices \/ TakeSize \/ FixCount \/ ConfigureEnds
  \/ (\E port \in Ports : AllocateBuffer(port)) \/ MetaBufferMode \/ AllocOutputPortBufs
  \/ Restart \/ SetParameters \/ GiveUp

CodecSpec == CodecInit /\ [][CodecNext]_cfgVars

-----------------------------------------------------------------------------
\* When StartCodec fills them, the arrays of buffer headers are as long as the ports
\* of the component have buffers, and so are the sizes by which StopCodec frees them;
\* an encoder has a buffer for every header of its output port.  Excepted are a
\* component that changes the number it is given (a decoder keeps its own), and one
\* that needs more output buffers than AllocOutputPortBufs allocates.
HeadersMatchPorts ==
  step = "ready" =>
    /\ ~(job.rounds /\ job.type = "videoDec") =>
         \A x \in Ports : hdr[x] = omx.count[x] /\ hdrSize[x] = omx.count[x]
    /\ job.type = "videoEnc" /\ job.min["out"] <= OutCount => list >= omx.count["out"]

Has(index) == index \in DOMAIN omx.set
EncoderOptions ==
  ("sar" :> "AspectRatio") @@ ("lpm" :> "PerfMode") @@ ("qprange" :> "QpRange")
  @@ ("ibprange" :> "IbpQpRange") @@ ("ltr" :> "LtrCount") @@ ("hier" :> "Hierarchical")
  @@ ("vqzip" :> "VqzipSei")

Offered == job.on \ ({"lpm", "qprange"} \ job.build)
Told(index) == omx.set[index]
Level == Told(IF job.format = "AVC" THEN "Avc" ELSE "Hevc").level

VideoEncoderAsAsked ==
  /\ \A o \in DOMAIN EncoderOptions : Has(EncoderOptions[o]) <=> o \in Offered
  /\ Told("SequenceHeader") <=> "prepend" \in job.on
  /\ IF "ratecontrol" \in job.build
       THEN /\ Told("Bitrate") = <<job.bitrate, job.rc>>
            /\ Has("InitialQp") <=> "initqp" \in job.on /\ Told("Bitrate")[2] # "disable"
            /\ Has("Quantization") <=> "initqp" \in job.on /\ Told("Bitrate")[2] = "disable"
            /\ "vqzip" \in job.on => job.format = "AVC" /\ Told("Bitrate")[2] = "disable"
       ELSE Told("Bitrate")[2] \notin MaxBitrate
  /\ Told("in") = Told("out")
  /\ Told("IntraPeriod") =
       IF job.told /\ job.ask[1] = "idr" THEN job.ask[2] ELSE PFrames(job)
  /\ <<job.format, job.level>> # <<"HEVC", <<5, 1>>>> =>
       Level = 10 * job.level[1] + job.level[2]
  /\ job.format = "AVC" =>
       /\ GetParameters.profile = job.profile /\ GetParameters.level = job.level
       /\ Has("SliceDelivery") <=> slice_mode_encoding_
  /\ job.format = "HEVC" =>
       OmxtoQmmfProfile("HEVC")[Told("Hevc").profile] = job.profile

VideoDecoderAsAsked ==
  /\ Told("in")[1] = job.size
  /\ Told("out") = IF "downscale" \in job.on THEN job.small ELSE job.size
  /\ Has("DownScalar") <=> "downscale" \in job.on
  /\ Has("VqzipSei") <=> "vqzip" \in job.on
  /\ Has("SyncFrameDecoding") <=> "thumbnail" \in job.on
  /\ Told("PictureOrder") = "display"

\* The bit rates of the AMR modes, slowest first.
AmrRates ==
  IF "wide" \in job.on
  THEN <<6600, 8850, 12650, 14250, 15850, 18250, 19850, 23050, 23850>>
  ELSE <<4750, 5150, 5900, 6700, 7400, 7950, 10200, 12200>>
AmrAsAsked ==
  LET mode == omx.set["Amr"] + 1 IN
  /\ mode \in DOMAIN AmrRates
  /\ mode > 1 => AmrRates[mode - 1] < job.bitrate
  /\ AmrRates[mode] < job.bitrate => mode = Len(AmrRates)

=============================================================================
