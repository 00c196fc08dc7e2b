--------------------------- MODULE RecorderBinder ---------------------------
(***************************************************************************)
(* What crosses the binder between a recorder client and the service.  For *)
(* each command, BpRecorderService writes a parcel and RecorderService::   *)
(* onTransact reads it; for each callback, BpRecorderServiceCallback       *)
(* writes and BnRecorderServiceCallback::onTransact reads.                 *)
(*                                                                         *)
(* A parcel is a sequence of typed items.  Items carry no name: a reader   *)
(* gets what stands at the place it has come to.  The arguments are        *)
(* records with the names of the interface, IRecorderService.  The four    *)
(* bytes of an integer, a float, a Boolean or an enumerator are a "word";  *)
(* a "sized" item is a blob that follows its own size.                     *)
(***************************************************************************)
EXTENDS Integers, Sequences

Junk == "junk"      \* read at the wrong place, or never written
MaxInDevices == 10  \* MAX_AUDIO_INPUT_DEVICES

Items(kind, values) == [i \in DOMAIN values |-> <<kind, values[i]>>]
Words(values) == Items("word", values)
Sized(value) == Items("sized", <<value>>)
Concat(parcels) ==
  LET upTo[k \in 0..Len(parcels)] == IF k = 0 THEN <<>> ELSE upTo[k - 1] \o parcels[k]
  IN upTo[Len(parcels)]

\* Parcel::read of an item: external, as the code uses it.
At(p, i, kind) == IF i \in DOMAIN p /\ p[i][1] = kind THEN p[i][2] ELSE Junk
Word(p, i) == At(p, i, "word")
ReadList(p, first, n, kind) == [i \in 1..n |-> At(p, first + i - 1, kind)]

\* Parcel::readInt32 of a reply that never came gives 0, which is NO_ERROR.
ReadStatus(reply, i) == IF i \in DOMAIN reply THEN reply[i] ELSE 0

-----------------------------------------------------------------------------
(* BpRecorderService.                                                      *)

SessionCommands ==
  {"DeleteSession", "StartSession", "StopSession", "PauseSession", "ResumeSession"}

WriteSession(cmd, a) ==
  CASE cmd = "Connect" -> Items("binder", <<a.service_cb>>)
    [] cmd \in {"Disconnect", "CreateSession"} -> Words(<<a.client_id>>)
    [] cmd = "StartCamera" ->
         Words(<<a.client_id, a.camera_id, a.frame_rate, IF a.enable_result_cb THEN 1 ELSE 0>>)
           \o Sized(a.extra_param)
    [] cmd = "StopCamera" -> Words(<<a.client_id, a.camera_id>>)
    [] cmd = "StopSession" -> Words(<<a.client_id, a.session_id, IF a.do_flush THEN 1 ELSE 0>>)
    [] OTHER -> Words(<<a.client_id, a.session_id>>)

\* AACParamsInternal to MPEGHParamsInternal: the fields of each format.
CodecFields(format) ==
  CASE format = "kAAC" -> <<"format", "mode", "frame_length", "bit_rate">>
    [] format = "kAMR" -> <<"isWAMR", "bit_rate">>
    [] format = "kG711" -> <<"mode", "bit_rate">>
    [] format = "kMPEGH" -> <<"bit_rate">>
    [] OTHER -> <<>>

\* AudioTrackCreateParamInternal::ToParcel.
WriteAudioParam(m) ==
  Words(<<Len(m.in_devices)>> \o m.in_devices \o <<m.sample_rate, m.channels, m.bit_depth>>)
    \o Items("string", <<m.profile>>) \o Words(<<m.format>> \o m.codec_params)
    \o Words(<<m.out_device, m.flags>>)

WriteTrack(cmd, a) ==
  Words(<<a.client_id, a.session_id, a.track_id>>)
    \o CASE cmd = "CreateAudioTrack" -> WriteAudioParam(a.param)
         [] cmd = "CreateVideoTrack" -> Sized(a.param)
         [] cmd = "CreateVideoTrackExtra" -> Sized(a.param) \o Sized(a.extra_param)
         [] OTHER -> <<>>

\* BnBuffer as a record.  ToParcel without file descriptors, and as a blob.
BnBufferWords(b) == Words(<<b.ion_fd, b.ion_meta_fd, b.size, b.buffer_id, b.flag>>)
IsVideoId(track) == track < 100

WriteReturnTrackBuffer(a) ==
  Words(<<a.client_id, a.session_id, a.track_id, Len(a.buffers)>>)
    \o IF IsVideoId(a.track_id) THEN Items("sized", a.buffers)
       ELSE Concat([i \in DOMAIN a.buffers |-> BnBufferWords(a.buffers[i])])

\* SetAudioTrackParam and SetVideoTrackParam.
WriteTrackParam(a) ==
  Words(<<a.client_id, a.session_id, a.track_id, a.type>>) \o Sized(a.param)

\* CaptureImage counts the metadata it writes with 8 bits: the loop only ends
\* if such a counter gets to their number.
Packed(cmd, a) == cmd = "CaptureImage" => \E i \in 0..255 : ~(i < Len(a.meta))

WriteImage(cmd, a) ==
  Words(<<a.client_id, a.camera_id>>)
    \o CASE cmd = "CaptureImage" ->
              Words(<<a.num_images, Len(a.meta)>>) \o Items("metadata", a.meta)
         [] cmd = "ConfigImageCapture" -> Sized(a.param) \o Sized(a.config)
         [] cmd = "ReturnImageCaptureBuffer" -> Words(<<a.buffer_id>>)
         [] OTHER -> <<>>

WriteCameraParam(cmd, a) ==
  CASE cmd = "GetVendorTagDescriptor" -> <<>>
    [] cmd = "SetCameraParam" ->
         Words(<<a.client_id, a.camera_id>>) \o Items("metadata", <<a.meta>>)
    [] OTHER -> Words(<<a.client_id, a.camera_id>>)

TrackCommands == {"CreateAudioTrack", "CreateVideoTrack", "CreateVideoTrackExtra",
                  "DeleteAudioTrack", "DeleteVideoTrack"}
TrackParamCommands == {"SetAudioTrackParam", "SetVideoTrackParam"}
ImageCommands == {"CaptureImage", "ConfigImageCapture", "CancelCaptureImage",
                  "ReturnImageCaptureBuffer"}
ParamCommands == {"SetCameraParam", "GetCameraParam", "GetDefaultCaptureParam",
                  "GetCameraCharacteristics", "GetVendorTagDescriptor"}

Write(cmd, a) ==
  CASE cmd \in TrackCommands -> WriteTrack(cmd, a)
    [] cmd \in TrackParamCommands -> WriteTrackParam(a)
    [] cmd \in ImageCommands -> WriteImage(cmd, a)
    [] cmd \in ParamCommands -> WriteCameraParam(cmd, a)
    [] cmd = "ReturnTrackBuffer" -> WriteReturnTrackBuffer(a)
    [] OTHER -> WriteSession(cmd, a)

-----------------------------------------------------------------------------
(* RecorderService::onTransact.                                            *)

Client(p) == [client_id |-> Word(p, 1)]
Camera(p) == [client_id |-> Word(p, 1), camera_id |-> Word(p, 2)]
Track(p) == [client_id |-> Word(p, 1), session_id |-> Word(p, 2), track_id |-> Word(p, 3)]

\* r with the fields of s as well.
With(r, s) == [f \in DOMAIN r \cup DOMAIN s |-> IF f \in DOMAIN s THEN s[f] ELSE r[f]]

\* Slip: the flush flag of StopSession is not read.
ReadsNoFlush(cmd, p) ==
  CASE cmd = "Connect" -> [service_cb |-> At(p, 1, "binder")]
    [] cmd \in {"Disconnect", "CreateSession"} -> Client(p)
    [] cmd = "StopSession" ->
         [client_id |-> Word(p, 1), session_id |-> Word(p, 2), do_flush |-> FALSE]
    [] OTHER -> [client_id |-> Word(p, 1), session_id |-> Word(p, 2)]

ReadSession(cmd, p) ==
  CASE cmd = "Connect" -> [service_cb |-> At(p, 1, "binder")]
    [] cmd \in {"Disconnect", "CreateSession"} -> Client(p)
    [] cmd = "StartCamera" ->
         With(Camera(p), [frame_rate |-> Word(p, 3), enable_result_cb |-> Word(p, 4) = 1,
                          extra_param |-> At(p, 5, "sized")])
    [] cmd = "StopCamera" -> Camera(p)
    [] cmd = "StopSession" ->
         [client_id |-> Word(p, 1), session_id |-> Word(p, 2), do_flush |-> Word(p, 3) # 0]
    [] OTHER -> [client_id |-> Word(p, 1), session_id |-> Word(p, 2)]

\* AudioTrackCreateParamInternal::FromParcel, from place i on.  The devices
\* beyond the size of the array are left unread, and taken for what follows.
ReadAudioParam(p, i) ==
  LET num == Word(p, i)
      in_devices_num == IF num > MaxInDevices THEN MaxInDevices ELSE num
      j == i + 1 + in_devices_num
      format == Word(p, j + 4)
      fields == Len(CodecFields(format)) IN
  [in_devices |-> ReadList(p, i + 1, in_devices_num, "word"), sample_rate |-> Word(p, j),
   channels |-> Word(p, j + 1), bit_depth |-> Word(p, j + 2),
   profile |-> At(p, j + 3, "string"), format |-> format,
   codec_params |-> ReadList(p, j + 5, fields, "word"),
   out_device |-> Word(p, j + 5 + fields), flags |-> Word(p, j + 6 + fields)]

ReadTrack(cmd, p) ==
  With(Track(p),
       CASE cmd = "CreateAudioTrack" -> [param |-> ReadAudioParam(p, 4)]
         [] cmd = "CreateVideoTrack" -> [param |-> At(p, 4, "sized")]
         [] cmd = "CreateVideoTrackExtra" ->
              [param |-> At(p, 4, "sized"), extra_param |-> At(p, 5, "sized")]
         [] OTHER -> <<>>)

ReadReturnTrackBuffer(p) ==
  With(Track(p),
       [buffers |->
          IF IsVideoId(Word(p, 3)) THEN ReadList(p, 5, Word(p, 4), "sized")
          ELSE [k \in 1..Word(p, 4) |->
                  LET i == 5 * k IN
                  [ion_fd |-> Word(p, i), ion_meta_fd |-> Word(p, i + 1),
                   size |-> Word(p, i + 2), buffer_id |-> Word(p, i + 3),
                   flag |-> Word(p, i + 4)]]])

ReadTrackParam(p) == With(Track(p), [type |-> Word(p, 4), param |-> At(p, 5, "sized")])

ReadImage(cmd, p) ==
  With(Camera(p),
       CASE cmd = "CaptureImage" ->
              [num_images |-> Word(p, 3), meta |-> ReadList(p, 5, Word(p, 4), "metadata")]
         [] cmd = "ConfigImageCapture" ->
              [param |-> At(p, 3, "sized"), config |-> At(p, 4, "sized")]
         [] cmd = "ReturnImageCaptureBuffer" -> [buffer_id |-> Word(p, 3)]
         [] OTHER -> <<>>)

ReadCameraParam(cmd, p) ==
  CASE cmd = "GetVendorTagDescriptor" -> <<>>
    [] cmd = "SetCameraParam" -> With(Camera(p), [meta |-> At(p, 3, "metadata")])
    [] OTHER -> Camera(p)

\* The metadata a command brings.  Metadata that is empty is read as none, and
\* then onTransact returns before it calls anything.
Metadata(cmd, a) ==
  CASE cmd = "CaptureImage" -> {a.meta[i] : i \in DOMAIN a.meta}
    [] cmd = "SetCameraParam" -> {a.meta}
    [] OTHER -> {}
Unread(cmd, a) == "empty" \in Metadata(cmd, a)

Read(cmd, p) ==
  CASE cmd \in TrackCommands -> ReadTrack(cmd, p)
    [] cmd \in TrackParamCommands -> ReadTrackParam(p)
    [] cmd \in ImageCommands -> ReadImage(cmd, p)
    [] cmd \in ParamCommands -> ReadCameraParam(cmd, p)
    [] cmd = "ReturnTrackBuffer" -> ReadReturnTrackBuffer(p)
    [] OTHER -> ReadSession(cmd, p)

-----------------------------------------------------------------------------
(* The callbacks.  A message m is a record of the interface's arguments;   *)
(* its buffers are BnBuffers.  The video proxy adds, for each buffer,      *)
(* whether the client has it already: isMapped, a sequence of Booleans.    *)

HasMetaFd(b) == b.ion_meta_fd > 0

WriteVideoBuffer(b, ismapped) ==
  Words(<<IF ismapped THEN 1 ELSE 0>>)
    \o (IF ismapped THEN <<>>
        ELSE Items("fd", <<b.ion_fd>>) \o Words(<<IF HasMetaFd(b) THEN 1 ELSE 0>>)
               \o (IF HasMetaFd(b) THEN Items("fd", <<b.ion_meta_fd>>) ELSE <<>>))
    \o Sized(b)

WriteVideoTrackData(m, isMapped) ==
  Words(<<m.session_id, m.track_id, Len(m.buffers)>>)
    \o Concat([i \in DOMAIN m.buffers |-> WriteVideoBuffer(m.buffers[i], isMapped[i])])
    \o Words(<<Len(m.metas)>>) \o Items("sized", m.metas)

\* BnBuffer::ToParcel with file descriptors.
WriteAudioBuffer(b) ==
  (IF b.ion_meta_fd = -1 THEN Words(<<1>>) \o Items("fd", <<b.ion_fd>>)
   ELSE Words(<<2>>) \o Items("fd", <<b.ion_fd, b.ion_meta_fd>>))
    \o Words(<<b.size, b.buffer_id, b.flag>>)

WriteAudioTrackData(m) ==
  Words(<<m.session_id, m.track_id, Len(m.buffers)>>)
    \o Concat([i \in DOMAIN m.buffers |-> WriteAudioBuffer(m.buffers[i])])

WriteSnapshotData(m) ==
  Words(<<m.camera_id, m.count>>) \o Items("fd", <<m.buffer.ion_fd, m.buffer.ion_meta_fd>>)
    \o Sized(m.buffer) \o Sized(m.meta)

\* NotifyRecorderEvent, NotifyAudioTrackEvent and NotifyCameraResult.
WriteNotice(m) ==
  CASE m.call = "RecorderEvent" ->
         Words(<<m.event_type>>) \o (IF m.data = "none" THEN Words(<<0>>) ELSE Sized(m.data))
    [] m.call = "AudioTrackEvent" -> Words(<<m.session_id, m.track_id, m.event_type>>)
    [] m.call = "CameraResult" -> Words(<<m.camera_id>>) \o Items("metadata", <<m.result>>)

\* A buffer of which only the index came has no descriptor: -1.
ReadVideoBuffer(p, i) ==
  LET ismapped == Word(p, i) # 0
      hasmetafd == ~ismapped /\ Word(p, i + 2) = 1
      j == CASE ismapped -> i + 1 [] hasmetafd -> i + 4 [] OTHER -> i + 3
      fd == IF ismapped THEN -1 ELSE At(p, i + 1, "fd")
      metafd == IF hasmetafd THEN At(p, i + 3, "fd") ELSE -1 IN
  [at |-> j + 1,
   b |-> [At(p, j, "sized") EXCEPT !.ion_fd = fd, !.ion_meta_fd = metafd]]

ReadAudioBuffer(p, i) ==
  LET one == Word(p, i) = 1
      j == IF one THEN i + 2 ELSE i + 3 IN
  [at |-> j + 3,
   b |-> [ion_fd |-> At(p, i + 1, "fd"), ion_meta_fd |-> IF one THEN -1 ELSE At(p, i + 2, "fd"),
          size |-> Word(p, j), buffer_id |-> Word(p, j + 1), flag |-> Word(p, j + 2)]]

\* The stub reads n buffers one after the other: st is the place it has come to
\* and the buffers so far.
ReadBuffers(p, first, n, media) ==
  LET read(i) == IF media = "video" THEN ReadVideoBuffer(p, i) ELSE ReadAudioBuffer(p, i)
      st[k \in 0..n] ==
        IF k = 0 THEN [at |-> first, got |-> <<>>]
        ELSE LET r == read(st[k - 1].at) IN [at |-> r.at, got |-> Append(st[k - 1].got, r.b)]
  IN st[n]

ReadVideoTrackData(p) ==
  LET st == ReadBuffers(p, 4, Word(p, 3), "video") IN
  [call |-> "VideoTrackData", session_id |-> Word(p, 1), track_id |-> Word(p, 2),
   buffers |-> st.got, metas |-> ReadList(p, st.at + 1, Word(p, st.at), "sized")]

\* The metadata of audio buffers is not packed.
ReadAudioTrackData(p) ==
  [call |-> "AudioTrackData", session_id |-> Word(p, 1), track_id |-> Word(p, 2),
   buffers |-> ReadBuffers(p, 4, Word(p, 3), "audio").got, metas |-> <<>>]

ReadSnapshotData(p) ==
  [call |-> "SnapshotData", camera_id |-> Word(p, 1), count |-> Word(p, 2),
   buffer |-> [At(p, 5, "sized") EXCEPT !.ion_fd = At(p, 3, "fd"),
                                        !.ion_meta_fd = At(p, 4, "fd")],
   meta |-> At(p, 6, "sized")]

ReadNotice(call, p) ==
  CASE call = "RecorderEvent" ->
         [call |-> call, event_type |-> Word(p, 1),
          data |-> IF p[2][1] = "word" THEN "none" ELSE At(p, 2, "sized")]
    [] call = "AudioTrackEvent" ->
         [call |-> call, session_id |-> Word(p, 1), track_id |-> Word(p, 2),
          event_type |-> Word(p, 3)]
    [] call = "CameraResult" ->
         [call |-> call, camera_id |-> Word(p, 1), result |-> At(p, 2, "metadata")]

\* Both sides of a callback; isMapped matters to video data alone.
WriteCallback(m, isMapped) ==
  CASE m.call = "VideoTrackData" -> WriteVideoTrackData(m, isMapped)
    [] m.call = "AudioTrackData" -> WriteAudioTrackData(m)
    [] m.call = "SnapshotData" -> WriteSnapshotData(m)
    [] OTHER -> WriteNotice(m)

ReadCallback(call, p) ==
  CASE call = "VideoTrackData" -> ReadVideoTrackData(p)
    [] call = "AudioTrackData" -> ReadAudioTrackData(p)
    [] call = "SnapshotData" -> ReadSnapshotData(p)
    [] OTHER -> ReadNotice(call, p)
=============================================================================
