-------------------------- MODULE RescaledTrack_proofs ------------------------
(***************************************************************************)
(* What the frames of a rescaled track pass through.  FrameRateController  *)
(* keeps the rate of its track for every frame rate and every sequence of  *)
(* timestamps of the camera; CameraRescaler keeps its frames and its pool, *)
(* whatever their number, in every order of the threads that meet there.   *)
(***************************************************************************)
EXTENDS FrameRateController, CameraRescaler, FiniteSetTheorems, TLAPS

(* FrameRateController.                                                    *)

Positive == Nat \ {0}

Flags ==
  /\ active_ \in BOOLEAN /\ frame_repeat_enabled_ \in BOOLEAN
  /\ skipped \in BOOLEAN /\ steady \in BOOLEAN /\ tie \in BOOLEAN

FrcType ==
  /\ output_frame_interval_ \in Positive
  /\ expected_output_ts_ \in Nat /\ input_frame_interval_ \in Nat
  /\ previous_input_ts_ \in Nat /\ now \in Nat
  /\ at \in {"idle", "test"}
  /\ base \in Nat /\ due \in Nat /\ adjusted \in Nat

\* The expected time is what was due less the adjustments, which are small.
Balance ==
  /\ expected_output_ts_ = base + due - adjusted
  /\ 100 * adjusted <= due

\* Outside the repeat loop the expected time is at most one and a half
\* intervals ahead.
Ahead ==
  (at = "idle" \/ ~frame_repeat_enabled_) /\ due > 0 =>
    2 * expected_output_ts_ <= 2 * previous_input_ts_ + 3 * output_frame_interval_

\* The same, strictly, in a track that repeats and has a slow camera.
AheadSteady ==
  steady /\ ~tie /\ frame_repeat_enabled_ /\ expected_output_ts_ # 0 =>
    IF at = "idle"
    THEN 2 * expected_output_ts_ < 2 * now + 3 * output_frame_interval_
    ELSE 2 * expected_output_ts_ < 2 * now + output_frame_interval_

\* The timestamps that OnFrameAvailable keeps.
Stamps ==
  /\ previous_input_ts_ # 0 => previous_input_ts_ = now
  /\ (previous_input_ts_ = 0) <=> (expected_output_ts_ = 0)
  /\ ~active_ => previous_input_ts_ = 0
  /\ at = "test" =>
       /\ previous_input_ts_ # 0
       /\ input_frame_interval_ = 0 => expected_output_ts_ = now
  /\ at = "test" => ~skipped

FrcInv == Flags /\ FrcType /\ Balance /\ Ahead /\ AheadSteady /\ Stamps /\ SkipsOnlyAhead

-----------------------------------------------------------------------------
\* What std::llround gives for half an interval and for a hundredth of one.
LEMMA RoundHalf ==
  ASSUME NEW n \in Positive
  PROVE  /\ Round(n, FRC_THRESHOLD) \in Positive
         /\ 2 * Round(n, FRC_THRESHOLD) >= n /\ 2 * Round(n, FRC_THRESHOLD) <= n + 1
<1>1. /\ (2 * n + 2) \div 4 \in Int
      /\ 4 * ((2 * n + 2) \div 4) <= 2 * n + 2
      /\ 2 * n + 2 < 4 * ((2 * n + 2) \div 4) + 4
  BY DEF Positive
<1>2. Round(n, FRC_THRESHOLD) = (2 * n + 2) \div 4
  BY DEF Round, FRC_THRESHOLD
<1>. QED  BY <1>1, <1>2 DEF Positive

LEMMA RoundHundredth ==
  ASSUME NEW n \in Positive
  PROVE  /\ Round(n, FRC_TS_DELTA) \in Int
         /\ 100 * Round(n, FRC_TS_DELTA) <= n + 50
<1>1. /\ (2 * n + 100) \div 200 \in Int
      /\ 200 * ((2 * n + 100) \div 200) <= 2 * n + 100
  BY DEF Positive
<1>2. Round(n, FRC_TS_DELTA) = (2 * n + 100) \div 200
  BY DEF Round, FRC_TS_DELTA
<1>. QED  BY <1>1, <1>2 DEF Positive

\* The adjustment for an early frame is less than a hundredth of an interval.
LEMMA EarlyBySmall ==
  ASSUME FrcType
  PROVE  /\ EarlyBy \in Nat /\ 100 * EarlyBy <= output_frame_interval_
         /\ EarlyBy > 0 => EarlyBy = expected_output_ts_ - now
<1>1. Round(output_frame_interval_, FRC_TS_DELTA) \in Int
      /\ 100 * Round(output_frame_interval_, FRC_TS_DELTA) <= output_frame_interval_ + 50
  BY RoundHundredth DEF FrcType
<1>. DEFINE r == Round(output_frame_interval_, FRC_TS_DELTA)
<1>2. EarlyBy = IF expected_output_ts_ - now > 0 /\ expected_output_ts_ - now < r
                THEN expected_output_ts_ - now ELSE 0
  BY DEF EarlyBy
<1>3. r \in Int /\ 100 * r <= output_frame_interval_ + 50
  BY <1>1
<1>. HIDE DEF r
<1>. QED  BY <1>2, <1>3 DEF FrcType, Positive

-----------------------------------------------------------------------------
LEMMA FrcInitially == Intervals \subseteq Positive /\ FrcInit => FrcInv
<1>. SUFFICES ASSUME Intervals \subseteq Positive, FrcInit PROVE FrcInv
  OBVIOUS
<1>1. Flags  BY Zenon DEF FrcInit, Flags
<1>2. FrcType  BY DEF FrcInit, FrcType
<1>3. Balance /\ Ahead  BY <1>2 DEF FrcInit, Balance, Ahead
<1>4. AheadSteady  BY Zenon DEF FrcInit, AheadSteady
<1>5. Stamps  BY DEF FrcInit, Stamps
<1>6. SkipsOnlyAhead  BY Zenon DEF FrcInit, SkipsOnlyAhead
<1>. QED  BY <1>1, <1>2, <1>3, <1>4, <1>5, <1>6 DEF FrcInv

-----------------------------------------------------------------------------
(* One lemma per action.                                                   *)

LEMMA ClockResetKeeps ==
  ASSUME FrcInv, NEW on \in BOOLEAN, ClockReset(on) PROVE FrcInv'
<1>1. Flags'  BY Zenon DEF FrcInv, Flags, ClockReset
<1>2. FrcType'  BY DEF FrcInv, FrcType, ClockReset
<1>3. Balance' /\ Ahead'  BY <1>2 DEF ClockReset, Balance, Ahead
<1>4. AheadSteady'  BY Zenon DEF ClockReset, AheadSteady
<1>5. Stamps'  BY DEF ClockReset, Stamps
<1>6. SkipsOnlyAhead'  BY Zenon DEF ClockReset, SkipsOnlyAhead
<1>. QED  BY <1>1, <1>2, <1>3, <1>4, <1>5, <1>6 DEF FrcInv

LEMMA SetFrameRateKeeps ==
  ASSUME Intervals \subseteq Positive, FrcInv, NEW i \in Intervals, SetFrameRate(i)
  PROVE  FrcInv'
<1>1. Flags'  BY Zenon DEF FrcInv, Flags, SetFrameRate
<1>2. FrcType'  BY DEF FrcInv, FrcType, SetFrameRate, clock
<1>3. Balance' /\ Ahead'  BY <1>2 DEF SetFrameRate, clock, FrcType, Balance, Ahead
<1>4. AheadSteady'  BY Zenon DEF SetFrameRate, AheadSteady
<1>5. Stamps'  BY Zenon DEF FrcInv, SetFrameRate, clock, Stamps
<1>6. SkipsOnlyAhead'  BY Zenon DEF SetFrameRate, SkipsOnlyAhead
<1>. QED  BY <1>1, <1>2, <1>3, <1>4, <1>5, <1>6 DEF FrcInv

LEMMA EnableFrameRepeatKeeps ==
  ASSUME FrcInv, NEW on \in BOOLEAN, EnableFrameRepeat(on)
  PROVE  FrcInv'
<1>1. Flags'  BY Zenon DEF FrcInv, Flags, EnableFrameRepeat
<1>2. FrcType'  BY DEF FrcInv, FrcType, EnableFrameRepeat, clock
<1>3. Balance' /\ Ahead'  BY DEF FrcInv, EnableFrameRepeat, clock, Balance, Ahead
<1>4. AheadSteady'  BY Zenon DEF EnableFrameRepeat, AheadSteady
<1>5. Stamps'  BY Zenon DEF FrcInv, EnableFrameRepeat, clock, Stamps
<1>6. SkipsOnlyAhead'  BY Zenon DEF FrcInv, EnableFrameRepeat, clock, SkipsOnlyAhead
<1>. QED  BY <1>1, <1>2, <1>3, <1>4, <1>5, <1>6 DEF FrcInv

LEMMA ReturnFrameKeeps ==
  ASSUME FrcInv, NEW gap \in Positive, ReturnFrame(gap)
  PROVE  FrcInv'
<1>1. Flags'  BY Zenon DEF FrcInv, Flags, ReturnFrame, setting, history
<1>2. FrcType'  BY DEF FrcInv, FrcType, ReturnFrame, setting, clock, history, Positive
<1>3. Balance' /\ Ahead'  BY DEF FrcInv, ReturnFrame, setting, clock, history, Balance, Ahead
<1>4. previous_input_ts_ = 0 /\ expected_output_ts_ = 0
  BY DEF FrcInv, Stamps, ReturnFrame
<1>5. AheadSteady'  BY <1>4, Zenon DEF ReturnFrame, clock, AheadSteady
<1>6. Stamps'  BY <1>4 DEF FrcInv, ReturnFrame, setting, clock, history, Stamps
<1>7. SkipsOnlyAhead'
  BY Zenon DEF FrcInv, ReturnFrame, setting, clock, history, SkipsOnlyAhead
<1>. QED  BY <1>1, <1>2, <1>3, <1>5, <1>6, <1>7 DEF FrcInv

LEMMA OnFrameAvailableKeeps ==
  ASSUME FrcInv, NEW gap \in Positive, OnFrameAvailable(gap)
  PROVE  FrcInv'
<1>. USE DEF FrcInv, OnFrameAvailable, setting
<1>1. Flags'
  <2>1. (gap >= output_frame_interval_) \in BOOLEAN  OBVIOUS
  <2>2. steady' \in BOOLEAN  BY <2>1, Zenon DEF Flags
  <2>. QED  BY <2>2, Zenon DEF Flags
<1>2. FrcType'
  <2>1. now' \in Nat /\ previous_input_ts_' \in Nat  BY DEF FrcType, Positive
  <2>2. input_frame_interval_' \in Nat  BY DEF FrcType, Stamps, Positive
  <2>3. expected_output_ts_' \in Nat /\ base' \in Nat  BY <2>1 DEF FrcType
  <2>. QED  BY <2>1, <2>2, <2>3 DEF FrcType
<1>3. Balance'
  <2>1. CASE expected_output_ts_ = 0
    <3>1. base = 0 /\ due = 0 /\ adjusted = 0  BY <2>1 DEF Balance, FrcType
    <3>. QED  BY <1>2, <2>1, <3>1 DEF Balance, FrcType
  <2>2. CASE expected_output_ts_ # 0  BY <2>2 DEF Balance
  <2>. QED  BY <2>1, <2>2
<1>4. Ahead'
  <2>1. previous_input_ts_' >= previous_input_ts_  BY DEF Stamps, FrcType, Positive
  <2>2. due > 0 => expected_output_ts_' = expected_output_ts_
    BY DEF Balance, FrcType
  <2>3. due > 0 => 2 * expected_output_ts_ <= 2 * previous_input_ts_ + 3 * output_frame_interval_
    BY Zenon DEF Ahead
  <2>4. due' > 0 =>
          2 * expected_output_ts_' <= 2 * previous_input_ts_' + 3 * output_frame_interval_'
    BY <1>2, <2>1, <2>2, <2>3 DEF FrcType, Positive
  <2>. QED  BY <2>4, Zenon DEF Ahead
<1>5. AheadSteady'
  <2>. SUFFICES ASSUME steady', ~tie', frame_repeat_enabled_'
               PROVE  2 * expected_output_ts_' < 2 * now' + output_frame_interval_'
    BY Zenon DEF AheadSteady
  <2>1. CASE expected_output_ts_ = 0
    BY <1>2, <2>1 DEF FrcType, Positive
  <2>2. CASE expected_output_ts_ # 0
    <3>1. steady /\ gap >= output_frame_interval_  BY <2>2, Zenon
    <3>2. 2 * expected_output_ts_ < 2 * now + 3 * output_frame_interval_
      BY <2>2, <3>1, Zenon DEF AheadSteady
    <3>. QED  BY <2>2, <3>1, <3>2 DEF FrcType, Positive
  <2>. QED  BY <2>1, <2>2
<1>6. Stamps'
  <2>1. now' > 0 /\ previous_input_ts_' = now' /\ expected_output_ts_' # 0
    BY DEF FrcType, Positive
  <2>2. active_'  BY Zenon
  <2>3. input_frame_interval_' = 0 => expected_output_ts_' = now'
    BY DEF Stamps, FrcType, Positive
  <2>4. ~skipped'  BY Zenon
  <2>. QED  BY <2>1, <2>2, <2>3, <2>4 DEF FrcType, Stamps
<1>7. SkipsOnlyAhead'  BY Zenon DEF SkipsOnlyAhead
<1>. QED  BY <1>1, <1>2, <1>3, <1>4, <1>5, <1>6, <1>7

LEMMA RepeatTurnKeeps ==
  ASSUME FrcInv, RepeatTurn
  PROVE  FrcInv'
<1>. USE DEF FrcInv, RepeatTurn, setting, FRC_THRESHOLD
<1>1. Flags'
  <2>1. (2 * (now - expected_output_ts_) = output_frame_interval_) \in BOOLEAN  OBVIOUS
  <2>. QED  BY <2>1, Zenon DEF Flags
<1>2. FrcType'  BY DEF FrcType, Positive
<1>3. Balance'  BY DEF Balance, FrcType, Positive
<1>4. Ahead'  BY DEF Ahead
<1>5. AheadSteady'
  <2>. SUFFICES ASSUME steady', ~tie', frame_repeat_enabled_'
               PROVE  2 * expected_output_ts_' < 2 * now' + output_frame_interval_'
    BY Zenon DEF AheadSteady
  <2>1. steady /\ ~tie /\ 2 * (now - expected_output_ts_) # output_frame_interval_
    BY Zenon
  <2>2. expected_output_ts_ # 0  BY DEF Stamps
  <2>3. 2 * expected_output_ts_ < 2 * now + output_frame_interval_
    BY <2>1, <2>2 DEF AheadSteady
  <2>4. 2 * Abs(expected_output_ts_ - now) >= output_frame_interval_
    BY Zenon DEF RepeatFrame
  <2>. QED  BY <2>1, <2>3, <2>4 DEF Abs, FrcType, Positive
<1>6. Stamps'  BY DEF FrcType, Positive, Stamps, RepeatFrame
<1>7. SkipsOnlyAhead'  BY Zenon DEF SkipsOnlyAhead, Stamps
<1>. QED  BY <1>1, <1>2, <1>3, <1>4, <1>5, <1>6, <1>7

LEMMA SkipsFrameKeeps ==
  ASSUME FrcInv, SkipsFrame
  PROVE  FrcInv'
<1>. USE DEF FrcInv, SkipsFrame, setting, clock
<1>1. Flags'  BY Zenon DEF Flags
<1>2. FrcType'  BY DEF FrcType
<1>3. Balance'  BY Zenon DEF Balance
<1>4. Ahead'  BY Zenon DEF Ahead
<1>5. AheadSteady'  BY Zenon DEF AheadSteady
<1>6. Stamps'  BY DEF Stamps, FrcType
<1>7. SkipsOnlyAhead'
  <2>1. previous_input_ts_ = now  BY DEF Stamps
  <2>2. expected_output_ts_ - now >= Round(output_frame_interval_, FRC_THRESHOLD)
    BY Zenon DEF SkipFrame
  <2>3. 2 * (expected_output_ts_ - now) >= output_frame_interval_
    BY <2>2, RoundHalf DEF FrcType, Positive
  <2>. QED  BY <2>1, <2>3 DEF SkipsOnlyAhead, Balance, FrcType, Positive
<1>. QED  BY <1>1, <1>2, <1>3, <1>4, <1>5, <1>6, <1>7

\* A frame that is passed on is early by at most half an interval.
LEMMA PassedInTime ==
  ASSUME FrcInv, PassFrame
  PROVE  /\ 2 * expected_output_ts_ <= 2 * now + output_frame_interval_
         /\ frame_repeat_enabled_ => 2 * expected_output_ts_ < 2 * now + output_frame_interval_
<1>. USE DEF FrcInv
<1>1. CASE frame_repeat_enabled_
  <2>1. ~RepeatFrame  BY <1>1, Zenon DEF PassFrame
  <2>2. CASE input_frame_interval_ = 0
    <3>1. expected_output_ts_ = now  BY <2>2 DEF PassFrame, Stamps
    <3>. QED  BY <3>1 DEF FrcType, Positive
  <2>3. CASE input_frame_interval_ # 0
    <3>1. ~(2 * Abs(expected_output_ts_ - now) >= output_frame_interval_)
      BY <2>1, <2>3, Zenon DEF RepeatFrame, FRC_THRESHOLD
    <3>. QED  BY <3>1 DEF Abs, FrcType, Positive
  <2>. QED  BY <2>2, <2>3
<1>2. CASE ~frame_repeat_enabled_
  <2>1. ~SkipFrame  BY <1>2, Zenon DEF PassFrame
  <2>. DEFINE half == Round(output_frame_interval_, FRC_THRESHOLD)
  <2>2. half \in Positive /\ 2 * half <= output_frame_interval_ + 1
    BY RoundHalf DEF FrcType
  <2>3. ~(expected_output_ts_ - now > 0 /\ expected_output_ts_ - now >= half)
    BY <2>1, Zenon DEF SkipFrame
  <2>. HIDE DEF half
  <2>4. 2 * expected_output_ts_ <= 2 * now + output_frame_interval_
    BY <2>2, <2>3 DEF FrcType, Positive
  <2>. QED  BY <1>2, <2>4
<1>. QED  BY <1>1, <1>2

LEMMA PassFrameKeeps ==
  ASSUME FrcInv, PassFrame
  PROVE  FrcInv'
<1>. DEFINE early == EarlyBy
<1>1. /\ early \in Nat /\ 100 * early <= output_frame_interval_
      /\ early > 0 => early = expected_output_ts_ - now
  BY EarlyBySmall DEF FrcInv
<1>2. /\ expected_output_ts_' = expected_output_ts_ - early + output_frame_interval_
      /\ due' = due + output_frame_interval_ /\ adjusted' = adjusted + early
      /\ at' = "idle"
      /\ UNCHANGED <<setting, input_frame_interval_, previous_input_ts_, now, base,
                     skipped, steady, tie>>
  BY Zenon DEF PassFrame
<1>3. /\ at = "test"
      /\ 2 * expected_output_ts_ <= 2 * now + output_frame_interval_
      /\ frame_repeat_enabled_ => 2 * expected_output_ts_ < 2 * now + output_frame_interval_
  BY PassedInTime DEF PassFrame
<1>. HIDE DEF early
<1>. USE DEF FrcInv, setting
<1>4. Flags'  BY <1>2, Zenon DEF Flags
<1>5. FrcType'  BY <1>1, <1>2 DEF FrcType, Positive
<1>6. Balance'  BY <1>1, <1>2 DEF Balance, FrcType, Positive
<1>7. previous_input_ts_ = now /\ now # 0  BY <1>3 DEF Stamps
<1>8. Ahead'  BY <1>1, <1>2, <1>3, <1>7 DEF Ahead, FrcType, Positive
<1>9. AheadSteady'
  <2>. SUFFICES ASSUME steady', ~tie', frame_repeat_enabled_'
               PROVE  2 * expected_output_ts_' < 2 * now' + 3 * output_frame_interval_'
    BY <1>2, Zenon DEF AheadSteady
  <2>. QED  BY <1>1, <1>2, <1>3 DEF FrcType, Positive
<1>10. Stamps'
  <2>1. expected_output_ts_' # 0  BY <1>1, <1>2, <1>3, <1>7 DEF Stamps, FrcType, Positive
  <2>2. active_  BY <1>3, <1>7 DEF Stamps
  <2>. QED  BY <1>2, <1>5, <1>7, <2>1, <2>2 DEF Stamps
<1>11. SkipsOnlyAhead'  BY <1>2, <1>3, Zenon DEF SkipsOnlyAhead, Stamps
<1>. QED  BY <1>4, <1>5, <1>6, <1>8, <1>9, <1>10, <1>11

-----------------------------------------------------------------------------
LEMMA FrcStep ==
  ASSUME Intervals \subseteq Positive, Gaps \subseteq Positive, FrcInv, [FrcNext]_frcVars
  PROVE  FrcInv'
<1>1. CASE Start  BY <1>1, ClockResetKeeps DEF Start
<1>2. CASE Stop  BY <1>2, ClockResetKeeps DEF Stop
<1>3. ASSUME NEW i \in Intervals, SetFrameRate(i) PROVE FrcInv'  BY <1>3, SetFrameRateKeeps
<1>4. ASSUME NEW on \in BOOLEAN, EnableFrameRepeat(on) PROVE FrcInv'
  BY <1>4, EnableFrameRepeatKeeps
<1>5. ASSUME NEW gap \in Gaps, OnFrameAvailable(gap) PROVE FrcInv'
  BY <1>5, OnFrameAvailableKeeps
<1>6. ASSUME NEW gap \in Gaps, ReturnFrame(gap) PROVE FrcInv'  BY <1>6, ReturnFrameKeeps
<1>7. CASE RepeatTurn  BY <1>7, RepeatTurnKeeps
<1>8. CASE SkipsFrame  BY <1>8, SkipsFrameKeeps
<1>9. CASE PassFrame  BY <1>9, PassFrameKeeps
<1>10. CASE UNCHANGED frcVars
  <2>. USE <1>10 DEF frcVars, setting, clock, history, FrcInv
  <2>1. Flags'  BY Zenon DEF Flags
  <2>2. FrcType'  BY Zenon DEF FrcType
  <2>3. Balance'  BY Zenon DEF Balance
  <2>4. Ahead'  BY Zenon DEF Ahead
  <2>5. AheadSteady'  BY Zenon DEF AheadSteady
  <2>6. Stamps'  BY Zenon DEF Stamps
  <2>7. SkipsOnlyAhead'  BY Zenon DEF SkipsOnlyAhead
  <2>. QED  BY <2>1, <2>2, <2>3, <2>4, <2>5, <2>6, <2>7, Zenon
<1>. QED
  BY <1>1, <1>2, <1>3, <1>4, <1>5, <1>6, <1>7, <1>8, <1>9, <1>10, Zenon DEF FrcNext

LEMMA FrcInvPaces == FrcInv => PacedAsAsked
<1>. SUFFICES ASSUME FrcInv PROVE PacedAsAsked
  OBVIOUS
<1>1. NeverTooMany  BY DEF FrcInv, FrcType, Balance, Ahead, NeverTooMany, Positive
<1>2. RepeatsCatchUp
  <2>. SUFFICES ASSUME steady, ~tie, at = "test", frame_repeat_enabled_, RepeatFrame
               PROVE  expected_output_ts_ < now
    BY Zenon DEF RepeatsCatchUp
  <2>1. expected_output_ts_ # 0  BY DEF FrcInv, Stamps
  <2>2. 2 * expected_output_ts_ < 2 * now + output_frame_interval_
    BY <2>1 DEF FrcInv, AheadSteady
  <2>3. 2 * Abs(expected_output_ts_ - now) >= output_frame_interval_
    BY Zenon DEF RepeatFrame, FRC_THRESHOLD
  <2>. QED  BY <2>2, <2>3 DEF Abs, FrcInv, FrcType, Positive
<1>. QED  BY <1>1, <1>2 DEF FrcInv, PacedAsAsked

\* Whatever rates are asked for and however the camera's timestamps come,
\* OnFrameAvailable gives the track no more than its rate (within a hundredth
\* and one and a half frames), skips a frame only when the track is half a
\* frame ahead, and its repeat loop does not run away from the timestamp.
THEOREM PacedForEveryRate ==
  Intervals \subseteq Positive /\ Gaps \subseteq Positive /\ FrcSpec => []PacedAsAsked
<1>. SUFFICES ASSUME Intervals \subseteq Positive, Gaps \subseteq Positive
             PROVE  FrcSpec => []PacedAsAsked
  OBVIOUS
<1>1. FrcInit => FrcInv  BY FrcInitially
<1>2. FrcInv /\ [FrcNext]_frcVars => FrcInv'  BY FrcStep
<1>3. FrcInv => PacedAsAsked  BY FrcInvPaces
<1>. QED  BY <1>1, <1>2, <1>3, PTL DEF FrcSpec

-----------------------------------------------------------------------------
(* CameraRescaler.                                                         *)

\* Most leaves from here on are set and function reasoning; those that count
\* or do arithmetic cite SMT.
USE Zenon

CameraHas == IF camera.at = "checked" THEN {camera.buf} ELSE {}
\* The buffer of the pool that the thread has taken, counted or not.
LoopHolds ==
  IF loop.at \in {"map", "drawn", "send", "passed", "failed"} /\ loop.out # None
  THEN {loop.out} ELSE {}
Used == Those("used")

Flowing == {"running", "frc", "fsc"}
Users == Flowing \cup {"stopped", "drained", "exit", "join", "detach"}
Steps == {"none", "loop", "wait", "get", "map", "failed", "drawn", "send", "passed"}
Frames == [at : Steps, in : InBuffers \cup {None}, out : OutBuffers \cup {None}]
Passing == [at : {"idle", "passed", "checked"}, buf : InBuffers \cup {None}]

PipeTypes ==
  /\ fed \subseteq InBuffers /\ kept \subseteq OutBuffers
  /\ camera \in Passing /\ (camera.at # "idle" => camera.buf # None)
  /\ bufs_list_ \in Seq(InBuffers)
  /\ loop \in Frames
  /\ loop.at \in {"get", "map", "failed", "drawn"} => loop.in # None
  /\ loop.at \in {"map", "drawn", "send", "passed"} => loop.out # None
  /\ loop.at = "get" => loop.out = None
  /\ ~running_ => loop.at = "none"
  /\ mem_alloc_buffers_ \in [OutBuffers -> {"none", "free", "used"}]
  /\ pending_buffer_count_ \in Nat /\ user \in Users
  /\ fault \in {None, "alloc", "meta", "map"}

\* The frames of the master track are at one place each, in bufs_list_ once.
Unrepeated == \A i, j \in DOMAIN bufs_list_ : bufs_list_[i] = bufs_list_[j] => i = j
Inputs ==
  /\ fed = Listed \cup ThreadHas \cup CameraHas
  /\ Listed \cap ThreadHas = {} /\ CameraHas \cap (Listed \cup ThreadHas) = {}
  /\ camera.at = "passed" => camera.buf \notin fed
  /\ Unrepeated /\ IsFiniteSet(Listed) /\ Cardinality(Listed) = Len(bufs_list_)
Flushed == user \notin Flowing /\ ~late => bufs_list_ = <<>>

\* pending_buffer_count_ is one less than the buffers in use once
\* PopulateMetaInfo failed, and exact until then.
Missed == IF fault = "meta" THEN 1 ELSE 0
Fails == loop.at = "failed" /\ LoopHolds # {}
Pool ==
  /\ LoopHolds \cap kept = {} /\ LoopHolds \cup kept \subseteq Used
  /\ pending_buffer_count_ + Missed = Cardinality(Used)
  /\ fault # "meta" \/ Fails => Used = LoopHolds \cup kept
  /\ Cardinality(Used \ (LoopHolds \cup kept)) <= 1

PipeInv == PipeTypes /\ Inputs /\ Flushed /\ Pool

-----------------------------------------------------------------------------
LEMMA UsedFinite ==
  IsFiniteSet(Used) /\ \A S \in SUBSET Used : IsFiniteSet(S) /\ Cardinality(S) \in Nat
<1>1. IsFiniteSet(OutBuffers)
  BY RescalerAssumption
<1>2. Used \subseteq OutBuffers
  BY DEF Used, Those
<1>3. IsFiniteSet(Used)
  BY <1>1, <1>2, FS_Subset
<1>4. \A S \in SUBSET Used : IsFiniteSet(S)
  BY <1>3, FS_Subset
<1> QED
  BY <1>3, <1>4, FS_CardinalityType

LEMMA Taken ==
  ASSUME NEW o \in OutBuffers, PipeTypes, mem_alloc_buffers_[o] # "used",
         mem_alloc_buffers_' = [mem_alloc_buffers_ EXCEPT ![o] = "used"]
  PROVE  /\ o \notin Used /\ Used' = Used \cup {o}
         /\ Cardinality(Used') = Cardinality(Used) + 1 /\ Cardinality(Used) \in Nat
         /\ mem_alloc_buffers_' \in [OutBuffers -> {"none", "free", "used"}]
<1>1. /\ o \notin Used /\ Used' = Used \cup {o}
      /\ mem_alloc_buffers_' \in [OutBuffers -> {"none", "free", "used"}]
  BY DEF Used, Those, PipeTypes
<1>2. IsFiniteSet(Used) /\ Cardinality(Used) \in Nat
  BY UsedFinite
<1>3. Cardinality(Used \cup {o}) = Cardinality(Used) + 1
  BY <1>1, <1>2, FS_AddElement
<1> QED
  BY <1>1, <1>2, <1>3

LEMMA Freed ==
  ASSUME NEW o \in Used, PipeTypes,
         mem_alloc_buffers_' = [mem_alloc_buffers_ EXCEPT ![o] = "free"]
  PROVE  /\ Used' = Used \ {o}
         /\ Cardinality(Used') = Cardinality(Used) - 1 /\ Cardinality(Used) \in Nat
         /\ mem_alloc_buffers_' \in [OutBuffers -> {"none", "free", "used"}]
<1>1. /\ Used' = Used \ {o}
      /\ mem_alloc_buffers_' \in [OutBuffers -> {"none", "free", "used"}]
  BY DEF Used, Those, PipeTypes
<1>2. IsFiniteSet(Used) /\ Cardinality(Used) \in Nat
  BY UsedFinite
<1>3. Cardinality(Used \ {o}) = Cardinality(Used) - 1
  BY <1>1, <1>2, FS_RemoveElement
<1> QED
  BY <1>1, <1>2, <1>3

\* The pool when no buffer is taken or returned.
LEMMA PoolSteady ==
  ASSUME Pool, UNCHANGED <<kept, mem_alloc_buffers_, pending_buffer_count_>>,
         LoopHolds' = LoopHolds, fault' = "meta" <=> fault = "meta",
         loop'.at = "failed" => fault # "meta" \/ loop.at = "failed" \/ LoopHolds = {}
  PROVE  Pool'
<1>1. Used' = Used
  BY DEF Used, Those
<1>2. Missed' = Missed
  BY DEF Missed
<1>3. Fails' => fault # "meta" \/ Fails
  BY DEF Fails
<1> QED
  BY <1>1, <1>2, <1>3 DEF Pool

\* ReturnBufferLocked of a buffer that the thread or the track had.
LEMMA PoolReturns ==
  ASSUME PipeTypes, Pool, NEW o, ReturnBufferLocked(o), fault' = fault,
         o = None \/ o \in LoopHolds \cup kept,
         LoopHolds' \cup kept' = (LoopHolds \cup kept) \ {o}, LoopHolds' \cap kept' = {},
         Fails' => Fails /\ LoopHolds' = LoopHolds /\ o \notin LoopHolds
  PROVE  /\ Pool' /\ pending_buffer_count_' \in Nat
         /\ mem_alloc_buffers_' \in [OutBuffers -> {"none", "free", "used"}]
<1> DEFINE H == LoopHolds \cup kept
<1>0. Missed' = Missed /\ Missed \in {0, 1} /\ (fault # "meta" => Missed = 0)
  BY DEF Missed
<1>00. Missed = 1 => fault = "meta"
  BY SMT DEF Missed
<1>1. pending_buffer_count_ \in Nat /\ Cardinality(Used) \in Nat /\ H \subseteq Used
  BY UsedFinite DEF PipeTypes, Pool
<1>2. CASE o = None
  <2>1. UNCHANGED pool /\ None \notin H
    BY <1>2, RescalerAssumption DEF ReturnBufferLocked, Pool, Used, Those
  <2>2. Used' = Used /\ LoopHolds' \cup kept' = H
    BY <1>2, <2>1 DEF Used, Those, pool
  <2>3. pending_buffer_count_' = pending_buffer_count_ /\ mem_alloc_buffers_' = mem_alloc_buffers_
    BY <2>1 DEF pool
  <2> QED
    BY <1>0, <2>2, <2>3 DEF Pool, PipeTypes
<1>3. CASE o # None /\ pending_buffer_count_ = 0
  <2>1. UNCHANGED pool /\ o \in Used
    BY <1>1, <1>3 DEF ReturnBufferLocked
  <2>2. Used' = Used
    BY <2>1 DEF Used, Those, pool
  <2>3. Cardinality(Used) # 0
    BY <2>1, UsedFinite, FS_EmptySet
  <2>4. Cardinality(Used) = 1 /\ Missed = 1
    BY SMT, <1>0, <1>1, <1>3, <2>3 DEF Pool
  <2>5. Used = {o}
    <3>1. \E x : Used = {x}
      BY <2>4, UsedFinite, FS_Singleton
    <3> QED
      BY <2>1, <3>1
  <2>6. LoopHolds' = {} /\ kept' = {}
    BY <1>1, <2>5
  <2>7. ~Fails' /\ fault' = "meta"
    BY <2>6, <2>4, <1>00 DEF Fails
  <2>8. Cardinality(Used' \ (LoopHolds' \cup kept')) <= 1
    <3>1. Used' \ (LoopHolds' \cup kept') = Used
      BY <2>2, <2>6
    <3> QED
      BY SMT, <3>1, <2>4
  <2>9. pending_buffer_count_' = pending_buffer_count_ /\ mem_alloc_buffers_' = mem_alloc_buffers_
    BY <2>1 DEF pool
  <2>10. pending_buffer_count_' + Missed' = Cardinality(Used')
    BY <2>9, <1>0, <2>2 DEF Pool
  <2> QED
    BY <2>6, <2>7, <2>8, <2>9, <2>10 DEF Pool, PipeTypes
<1>4. CASE o # None /\ pending_buffer_count_ # 0
  <2>1. /\ o \in Used /\ mem_alloc_buffers_' = [mem_alloc_buffers_ EXCEPT ![o] = "free"]
        /\ pending_buffer_count_' = pending_buffer_count_ - 1
    BY <1>1, <1>4 DEF ReturnBufferLocked
  <2>2. Used' = Used \ {o} /\ Cardinality(Used') = Cardinality(Used) - 1
    BY <2>1, Freed
  <2>3. pending_buffer_count_' \in Nat /\ pending_buffer_count_' + Missed' = Cardinality(Used')
    BY SMT, <1>0, <1>1, <1>4, <2>1, <2>2 DEF Pool
  <2>4. LoopHolds' \cup kept' = H \ {o} /\ LoopHolds' \cup kept' \subseteq Used'
    BY <1>1, <2>2
  <2>5. Used' \ (LoopHolds' \cup kept') = Used \ H
    BY <1>4, <2>2, <2>4
  <2>6. fault' # "meta" \/ Fails' => Used' = LoopHolds' \cup kept'
    BY <2>2, <2>4 DEF Pool
  <2> QED
    BY <2>1, <2>3, <2>4, <2>5, <2>6, Freed DEF Pool
<1> QED
  BY <1>2, <1>3, <1>4

-----------------------------------------------------------------------------
(* The frames of the master track.                                         *)

LEMMA InputsSteady ==
  ASSUME Inputs, UNCHANGED <<fed, camera, bufs_list_>>, ThreadHas' = ThreadHas
  PROVE  Inputs'
<1>1. Listed' = Listed /\ CameraHas' = CameraHas
  BY DEF Listed, CameraHas
<1> QED
  BY <1>1 DEF Inputs, Unrepeated

\* A frame that the thread had goes back to the master track.
LEMMA InputsReturned ==
  ASSUME Inputs, UNCHANGED <<camera, bufs_list_>>, NEW b, ThreadHas = {b},
         fed' = fed \ {b}, ThreadHas' = {}
  PROVE  Inputs'
<1>1. Listed' = Listed /\ CameraHas' = CameraHas
  BY DEF Listed, CameraHas
<1> QED
  BY <1>1 DEF Inputs, Unrepeated

\* AddBuf and ThreadLoop move a frame into bufs_list_ and out of it.
LEMMA ListGrows ==
  ASSUME PipeTypes, Unrepeated, NEW b \in InBuffers \ Listed, bufs_list_' = Append(bufs_list_, b)
  PROVE  /\ bufs_list_' \in Seq(InBuffers) /\ Listed' = Listed \cup {b} /\ Unrepeated'
         /\ Len(bufs_list_') = Len(bufs_list_) + 1
<1>1. bufs_list_ \in Seq(InBuffers)
  BY DEF PipeTypes
<1>2. /\ bufs_list_' \in Seq(InBuffers) /\ Len(bufs_list_') = Len(bufs_list_) + 1
      /\ DOMAIN bufs_list_ = 1..Len(bufs_list_) /\ DOMAIN bufs_list_' = 1..(Len(bufs_list_) + 1)
      /\ Len(bufs_list_) \in Nat /\ bufs_list_'[Len(bufs_list_) + 1] = b
      /\ \A i \in 1..Len(bufs_list_) : bufs_list_'[i] = bufs_list_[i]
  BY SMT, <1>1
<1>3. \A i \in DOMAIN bufs_list_' : i \in DOMAIN bufs_list_ \/ i = Len(bufs_list_) + 1
  BY SMT, <1>2
<1>4. /\ Len(bufs_list_) + 1 \in DOMAIN bufs_list_'
      /\ DOMAIN bufs_list_ \subseteq DOMAIN bufs_list_'
  BY SMT, <1>2
<1>5. \A i \in DOMAIN bufs_list_ : bufs_list_'[i] = bufs_list_[i] /\ bufs_list_[i] # b
  BY <1>2 DEF Listed
<1>6. Listed' = Listed \cup {b}
  BY <1>2, <1>3, <1>4, <1>5 DEF Listed
<1>7. Unrepeated'
  <2>1. SUFFICES ASSUME NEW i \in DOMAIN bufs_list_', NEW j \in DOMAIN bufs_list_',
                        bufs_list_'[i] = bufs_list_'[j]
                 PROVE  i = j
    BY DEF Unrepeated
  <2>2. CASE i \in DOMAIN bufs_list_ /\ j \in DOMAIN bufs_list_
    BY <1>5, <2>1, <2>2 DEF Unrepeated
  <2>3. CASE i = Len(bufs_list_) + 1 \/ j = Len(bufs_list_) + 1
    BY <1>2, <1>3, <1>5, <2>1, <2>3
  <2> QED
    BY <1>3, <2>2, <2>3
<1> QED
  BY <1>2, <1>6, <1>7

LEMMA ListShrinks ==
  ASSUME PipeTypes, Unrepeated, bufs_list_ # <<>>, bufs_list_' = Tail(bufs_list_)
  PROVE  /\ bufs_list_' \in Seq(InBuffers) /\ Listed' = Listed \ {Head(bufs_list_)}
         /\ Head(bufs_list_) \in Listed /\ Head(bufs_list_) \in InBuffers
         /\ Unrepeated' /\ Len(bufs_list_') = Len(bufs_list_) - 1
<1>1. bufs_list_ \in Seq(InBuffers)
  BY DEF PipeTypes
<1>2. /\ bufs_list_' \in Seq(InBuffers) /\ Len(bufs_list_') = Len(bufs_list_) - 1
      /\ DOMAIN bufs_list_ = 1..Len(bufs_list_) /\ DOMAIN bufs_list_' = 1..(Len(bufs_list_) - 1)
      /\ Len(bufs_list_) \in Nat \ {0} /\ Head(bufs_list_) = bufs_list_[1]
      /\ \A i \in 1..(Len(bufs_list_) - 1) : bufs_list_'[i] = bufs_list_[i + 1]
  BY SMT, <1>1
<1>3. 1 \in DOMAIN bufs_list_ /\ Head(bufs_list_) \in InBuffers
  BY SMT, <1>1, <1>2
<1>4. \A i \in DOMAIN bufs_list_' :
        i \in Nat /\ i + 1 \in DOMAIN bufs_list_ /\ bufs_list_'[i] = bufs_list_[i + 1] /\ i + 1 # 1
  BY SMT, <1>2
<1>5. \A j \in DOMAIN bufs_list_ : j = 1 \/ \E i \in DOMAIN bufs_list_' : j = i + 1
  <2>1. SUFFICES ASSUME NEW j \in DOMAIN bufs_list_, j # 1
                 PROVE  j - 1 \in DOMAIN bufs_list_' /\ j = (j - 1) + 1
    OBVIOUS
  <2> QED
    BY SMT, <1>2, <2>1
<1>6. Listed' \subseteq Listed \ {Head(bufs_list_)}
  <2>1. SUFFICES ASSUME NEW i \in DOMAIN bufs_list_'
                 PROVE  bufs_list_'[i] \in Listed /\ bufs_list_'[i] # Head(bufs_list_)
    BY DEF Listed
  <2>2. bufs_list_[i + 1] # bufs_list_[1]
    BY <1>3, <1>4, <2>1 DEF Unrepeated
  <2> QED
    BY <1>2, <1>4, <2>1, <2>2 DEF Listed
<1>7. Listed \ {Head(bufs_list_)} \subseteq Listed'
  <2>1. SUFFICES ASSUME NEW j \in DOMAIN bufs_list_, bufs_list_[j] # Head(bufs_list_)
                 PROVE  bufs_list_[j] \in Listed'
    BY DEF Listed
  <2>2. PICK i \in DOMAIN bufs_list_' : j = i + 1
    BY <1>2, <1>5, <2>1
  <2> QED
    BY <1>4, <2>2 DEF Listed
<1>8. Unrepeated'
  <2>1. SUFFICES ASSUME NEW i \in DOMAIN bufs_list_', NEW j \in DOMAIN bufs_list_',
                        bufs_list_'[i] = bufs_list_'[j]
                 PROVE  i = j
    BY DEF Unrepeated
  <2>2. i + 1 = j + 1
    BY <1>4, <2>1 DEF Unrepeated
  <2> QED
    BY SMT, <1>4, <2>2
<1>9. Head(bufs_list_) \in Listed
  BY <1>2, <1>3 DEF Listed
<1> QED
  BY <1>2, <1>3, <1>6, <1>7, <1>8, <1>9

-----------------------------------------------------------------------------
(* The camera's thread.                                                    *)

\* The thread and the pool, in a step of another thread.
ThreadSame == UNCHANGED <<loop, running_, kept, mem_alloc_buffers_, pending_buffer_count_, fault>>

LEMMA ThreadSameKeeps ==
  ASSUME PipeInv, ThreadSame
  PROVE  Pool' /\ ThreadHas' = ThreadHas
<1>1. LoopHolds' = LoopHolds /\ ThreadHas' = ThreadHas
  BY DEF ThreadSame, LoopHolds, ThreadHas
<1> QED
  BY <1>1, PoolSteady DEF PipeInv, ThreadSame

LEMMA FscPassesKeeps ==
  ASSUME PipeInv, NEW b \in InBuffers, FscPasses(b)
  PROVE  PipeInv'
<1>1. /\ ThreadSame /\ UNCHANGED <<fed, bufs_list_, user, late>> /\ b \notin fed
      /\ camera.at = "idle" /\ camera' = [at |-> "passed", buf |-> b]
  BY DEF FscPasses, ThreadSame, pool, thread, sink, caller
<1>2. camera' \in Passing /\ camera'.at = "passed" /\ camera'.buf = b /\ b # None
  BY <1>1, RescalerAssumption DEF Passing
<1>3. PipeTypes'
  BY <1>1, <1>2 DEF PipeInv, PipeTypes, ThreadSame
<1>4. CameraHas' = {} /\ CameraHas = {} /\ Listed' = Listed /\ ThreadHas' = ThreadHas
  BY <1>1, <1>2, ThreadSameKeeps DEF CameraHas, Listed
<1>5. Inputs'
  BY <1>1, <1>2, <1>4 DEF PipeInv, Inputs, Unrepeated
<1> QED
  BY <1>1, <1>3, <1>5, ThreadSameKeeps DEF PipeInv, Flushed

LEMMA FscNotifiesKeeps ==
  ASSUME PipeInv, FscNotifies
  PROVE  PipeInv'
<1>1. ThreadSame /\ UNCHANGED <<bufs_list_, user, late>> /\ camera.at = "passed"
  BY DEF FscNotifies, ThreadSame, pool, thread, sink, caller
<1>2. Listed' = Listed /\ ThreadHas' = ThreadHas /\ CameraHas = {}
  BY <1>1, ThreadSameKeeps DEF CameraHas, Listed
<1>3. camera \in Passing /\ camera.buf \in InBuffers /\ camera.buf \notin fed
  BY <1>1 DEF PipeInv, PipeTypes, Passing, Inputs
<1>4. CASE ~attached \/ is_stop_
  <2>1. camera' = [at |-> "idle", buf |-> None] /\ fed' = fed
    BY <1>4 DEF FscNotifies
  <2>2. camera' \in Passing /\ camera'.at = "idle"
    BY <2>1 DEF Passing
  <2>3. CameraHas' = {}
    BY <2>2 DEF CameraHas
  <2>4. PipeTypes'
    BY <1>1, <2>1, <2>2 DEF PipeInv, PipeTypes, ThreadSame
  <2>5. Inputs'
    BY <1>1, <1>2, <2>1, <2>2, <2>3 DEF PipeInv, Inputs, Unrepeated
  <2> QED
    BY <1>1, <2>4, <2>5, ThreadSameKeeps DEF PipeInv, Flushed
<1>5. CASE ~(~attached \/ is_stop_)
  <2>1. camera' = [camera EXCEPT !.at = "checked"] /\ fed' = fed \cup {camera.buf}
    BY <1>5 DEF FscNotifies
  <2>2. camera' \in Passing /\ camera'.at = "checked" /\ camera'.buf = camera.buf
    BY <1>3, <2>1 DEF Passing
  <2>3. CameraHas' = {camera.buf}
    BY <2>2 DEF CameraHas
  <2>4. PipeTypes'
    BY <1>1, <1>3, <2>1, <2>2, RescalerAssumption DEF PipeInv, PipeTypes, ThreadSame
  <2>5. Inputs'
    BY <1>1, <1>2, <1>3, <2>1, <2>2, <2>3 DEF PipeInv, Inputs, Unrepeated
  <2> QED
    BY <1>1, <2>4, <2>5, ThreadSameKeeps DEF PipeInv, Flushed
<1> QED
  BY <1>4, <1>5

LEMMA AddBufKeeps ==
  ASSUME PipeInv, AddBuf
  PROVE  PipeInv'
<1>1. /\ ThreadSame /\ UNCHANGED <<fed, user>> /\ camera.at = "checked"
      /\ bufs_list_' = Append(bufs_list_, camera.buf) /\ camera' = [at |-> "idle", buf |-> None]
      /\ late' = (late \/ user \notin Flowing)
  BY DEF AddBuf, ThreadSame, pool, thread, sink, caller, Flowing
<1>2. CameraHas = {camera.buf} /\ ThreadHas' = ThreadHas
  BY <1>1, ThreadSameKeeps DEF CameraHas
<1>3. camera.buf \in InBuffers \ Listed
  BY <1>1, <1>2 DEF PipeInv, PipeTypes, Passing, Inputs
<1>4. /\ bufs_list_' \in Seq(InBuffers) /\ Listed' = Listed \cup {camera.buf} /\ Unrepeated'
      /\ Len(bufs_list_') = Len(bufs_list_) + 1
  BY <1>1, <1>3, ListGrows DEF PipeInv, Inputs
<1>5. camera' \in Passing /\ camera'.at = "idle" /\ CameraHas' = {}
  BY <1>1 DEF Passing, CameraHas
<1>6. PipeTypes'
  BY <1>1, <1>4, <1>5 DEF PipeInv, PipeTypes, ThreadSame
<1>7. IsFiniteSet(Listed') /\ Cardinality(Listed') = Len(bufs_list_')
  BY <1>3, <1>4, FS_AddElement DEF PipeInv, Inputs
<1>8. Inputs'
  BY <1>1, <1>2, <1>4, <1>5, <1>7 DEF PipeInv, Inputs
<1>9. Flushed'
  BY <1>1 DEF Flushed
<1> QED
  BY <1>1, <1>6, <1>8, <1>9, ThreadSameKeeps DEF PipeInv

-----------------------------------------------------------------------------
(* The rescaler's thread.                                                  *)

InputSame == UNCHANGED <<fed, camera, bufs_list_, user, late>>
PoolSame == UNCHANGED <<kept, mem_alloc_buffers_, pending_buffer_count_>>

LEMMA InputSameKeeps ==
  ASSUME PipeInv, InputSame, ThreadHas' = ThreadHas
  PROVE  Inputs' /\ Flushed'
<1>1. Inputs'
  BY InputsSteady DEF PipeInv, InputSame
<1>2. Flushed'
  BY DEF PipeInv, InputSame, Flushed
<1> QED
  BY <1>1, <1>2

\* What the thread and the pool have at each step of the thread.
LEMMA AtStep ==
  ASSUME PipeInv
  PROVE  /\ loop \in Frames /\ loop.at \in Steps
         /\ loop.at \in {"none", "loop", "wait", "get"} => LoopHolds = {}
         /\ loop.at \in {"map", "drawn", "send", "passed"} =>
              loop.out \in OutBuffers /\ LoopHolds = {loop.out}
         /\ loop.at \in {"get", "map", "failed", "drawn"} =>
              loop.in \in InBuffers /\ ThreadHas = {loop.in}
         /\ loop.at \in {"none", "loop", "wait", "send", "passed"} => ThreadHas = {}
BY DEF PipeInv, PipeTypes, Frames, LoopHolds, ThreadHas

LEMMA MainLoopKeeps ==
  ASSUME PipeInv, MainLoop
  PROVE  PipeInv'
<1>1. /\ InputSame /\ PoolSame /\ fault' = fault /\ loop.at = "loop"
      /\ \/ loop' = NoFrame
         \/ loop' = [loop EXCEPT !.at = "wait"] /\ running_' = running_
  BY DEF MainLoop, InputSame, PoolSame, source, pool, sink, caller
<1>2. loop' \in Frames /\ loop'.at \in {"none", "wait"} /\ (~running_' => loop'.at = "none")
  <2>1. loop \in Frames /\ running_
    BY <1>1 DEF PipeInv, PipeTypes
  <2>2. CASE loop' = NoFrame
    BY <2>2 DEF NoFrame, Frames, Steps
  <2>3. CASE loop' = [loop EXCEPT !.at = "wait"] /\ running_' = running_
    BY <2>1, <2>3 DEF Frames, Steps
  <2> QED
    BY <1>1, <2>2, <2>3
<1>3. PipeTypes'
  BY <1>1, <1>2 DEF PipeInv, PipeTypes, InputSame, PoolSame
<1>4. ThreadHas' = ThreadHas /\ LoopHolds' = LoopHolds
  BY <1>1, <1>2, AtStep DEF ThreadHas, LoopHolds
<1>5. Pool'
  BY <1>1, <1>2, <1>4, PoolSteady DEF PipeInv, PoolSame
<1> QED
  BY <1>1, <1>3, <1>4, <1>5, InputSameKeeps DEF PipeInv

LEMMA ThreadLoopKeeps ==
  ASSUME PipeInv, ThreadLoop
  PROVE  PipeInv'
<1>1. /\ UNCHANGED <<fed, camera, user, late>> /\ PoolSame /\ running_' = running_ /\ fault' = fault
      /\ loop.at = "wait"
  BY DEF ThreadLoop, PoolSame, source, pool, sink, caller
<1>2. CASE bufs_list_ = <<>>
  <2>1. InputSame /\ loop' = [loop EXCEPT !.at = "loop"]
    BY <1>1, <1>2 DEF ThreadLoop, InputSame
  <2>2. loop' \in Frames /\ loop'.at = "loop"
    BY <2>1, AtStep DEF Frames, Steps
  <2>3. PipeTypes'
    BY <1>1, <2>1, <2>2 DEF PipeInv, PipeTypes, InputSame, PoolSame
  <2>4. ThreadHas' = ThreadHas /\ LoopHolds' = LoopHolds
    BY <1>1, <2>2, AtStep DEF ThreadHas, LoopHolds
  <2>5. Pool'
    BY <1>1, <2>2, <2>4, PoolSteady DEF PipeInv, PoolSame
  <2> QED
    BY <2>1, <2>3, <2>4, <2>5, InputSameKeeps DEF PipeInv
<1>3. CASE bufs_list_ # <<>>
  <2> DEFINE b == Head(bufs_list_)
  <2>1. loop' = [at |-> "get", in |-> b, out |-> None] /\ bufs_list_' = Tail(bufs_list_)
    BY <1>3 DEF ThreadLoop
  <2>2. /\ bufs_list_' \in Seq(InBuffers) /\ Listed' = Listed \ {b} /\ b \in Listed
        /\ b \in InBuffers /\ Unrepeated' /\ Len(bufs_list_') = Len(bufs_list_) - 1
    BY <1>3, <2>1, ListShrinks DEF PipeInv, Inputs
  <2> HIDE DEF b
  <2>3. loop' \in Frames /\ loop'.at = "get" /\ loop'.in = b /\ loop'.out = None /\ b # None
    BY <2>1, <2>2, RescalerAssumption DEF Frames, Steps
  <2>4. PipeTypes'
    BY <1>1, <2>2, <2>3 DEF PipeInv, PipeTypes, PoolSame
  <2>5. ThreadHas' = {b} /\ ThreadHas = {} /\ LoopHolds' = LoopHolds /\ CameraHas' = CameraHas
    BY <1>1, <2>3, AtStep DEF ThreadHas, LoopHolds, CameraHas
  <2>6. Pool'
    BY <1>1, <2>3, <2>5, PoolSteady DEF PipeInv, PoolSame
  <2>7. IsFiniteSet(Listed') /\ Cardinality(Listed') = Len(bufs_list_')
    BY <2>2, FS_RemoveElement DEF PipeInv, Inputs
  <2>8. Inputs'
    BY <1>1, <2>2, <2>5, <2>7 DEF PipeInv, Inputs
  <2>9. Flushed'
    BY <1>1, <1>3 DEF PipeInv, Flushed
  <2> QED
    BY <2>4, <2>6, <2>8, <2>9 DEF PipeInv
<1> QED
  BY <1>2, <1>3

\* GetBufferLocked finds a buffer that nobody has, or none.
LEMMA Found ==
  ASSUME NEW o \in GetBufferLocked, o # None
  PROVE  o \in OutBuffers /\ mem_alloc_buffers_[o] # "used"
BY DEF GetBufferLocked, Those

LEMMA GetFreeOutputBufferKeeps ==
  ASSUME PipeInv, GetFreeOutputBuffer
  PROVE  PipeInv'
<1>1. PICK o \in GetBufferLocked :
        /\ o # None /\ mem_alloc_buffers_' = [mem_alloc_buffers_ EXCEPT ![o] = "used"]
        /\ pending_buffer_count_' = pending_buffer_count_ + 1
        /\ loop' = [loop EXCEPT !.at = "map", !.out = o]
  BY DEF GetFreeOutputBuffer
<1>2. /\ InputSame /\ UNCHANGED <<kept, running_, fault>> /\ loop.at = "get"
  BY DEF GetFreeOutputBuffer, InputSame, source, sink, caller
<1>3. /\ o \in OutBuffers /\ o \notin Used /\ Used' = Used \cup {o}
      /\ Cardinality(Used') = Cardinality(Used) + 1 /\ Cardinality(Used) \in Nat
      /\ mem_alloc_buffers_' \in [OutBuffers -> {"none", "free", "used"}]
  BY <1>1, Found, Taken DEF PipeInv
<1>4. /\ loop' \in Frames /\ loop'.at = "map" /\ loop'.out = o /\ loop'.in = loop.in
      /\ loop.in \in InBuffers
  BY <1>1, <1>2, <1>3, AtStep DEF Frames, Steps
<1>5. pending_buffer_count_ \in Nat /\ pending_buffer_count_' \in Nat
  BY SMT, <1>1 DEF PipeInv, PipeTypes
<1>6. PipeTypes'
  BY <1>1, <1>2, <1>3, <1>4, <1>5, RescalerAssumption DEF PipeInv, PipeTypes, InputSame
<1>7. ThreadHas' = ThreadHas /\ LoopHolds = {} /\ LoopHolds' = {o}
  BY <1>1, <1>2, <1>4, AtStep DEF ThreadHas, LoopHolds
<1>8. Pool'
  <2>1. LoopHolds' \cup kept' = (LoopHolds \cup kept) \cup {o}
    BY <1>2, <1>7
  <2>2. LoopHolds' \cap kept' = {} /\ LoopHolds' \cup kept' \subseteq Used'
    BY <1>2, <1>3, <1>7 DEF PipeInv, Pool
  <2>3. Missed' = Missed /\ Missed \in {0, 1}
    BY <1>2 DEF Missed
  <2>4. pending_buffer_count_' + Missed' = Cardinality(Used')
    BY SMT, <1>1, <1>3, <1>5, <2>3 DEF PipeInv, Pool
  <2>5. ~Fails' /\ (fault' # "meta" => Used' = LoopHolds' \cup kept')
    BY <1>2, <1>3, <1>4, <2>1 DEF PipeInv, Pool, Fails
  <2>6. Used' \ (LoopHolds' \cup kept') = Used \ (LoopHolds \cup kept)
    BY <1>3, <2>1
  <2> QED
    BY <2>2, <2>4, <2>5, <2>6 DEF PipeInv, Pool
<1> QED
  BY <1>2, <1>6, <1>7, <1>8, InputSameKeeps DEF PipeInv

LEMMA GetsNoBufferKeeps ==
  ASSUME PipeInv, GetsNoBuffer
  PROVE  PipeInv'
<1>1. /\ InputSame /\ PoolSame /\ running_' = running_ /\ loop.at = "get"
      /\ loop' = [loop EXCEPT !.at = "failed"]
      /\ fault' = fault \/ (fault = None /\ fault' = "alloc")
  BY DEF GetsNoBuffer, InputSame, PoolSame, source, pool, sink, caller
<1>2. /\ loop' \in Frames /\ loop'.at = "failed" /\ loop'.out = loop.out /\ loop'.in = loop.in
      /\ loop.out = None
  BY <1>1, AtStep DEF Frames, Steps, PipeInv, PipeTypes
<1>3. fault' \in {None, "alloc", "meta", "map"} /\ (fault' = "meta" <=> fault = "meta")
  BY <1>1, RescalerAssumption DEF PipeInv, PipeTypes
<1>4. PipeTypes'
  BY <1>1, <1>2, <1>3 DEF PipeInv, PipeTypes, InputSame, PoolSame
<1>5. ThreadHas' = ThreadHas /\ LoopHolds' = LoopHolds /\ LoopHolds = {}
  BY <1>1, <1>2, AtStep DEF ThreadHas, LoopHolds
<1>6. Pool'
  BY <1>1, <1>3, <1>5, PoolSteady DEF PipeInv, PoolSame
<1> QED
  BY <1>1, <1>4, <1>5, <1>6, InputSameKeeps DEF PipeInv

LEMMA PopulateMetaInfoFailsKeeps ==
  ASSUME PipeInv, PopulateMetaInfoFails
  PROVE  PipeInv'
<1>1. PICK o \in GetBufferLocked \ {None} :
        /\ mem_alloc_buffers_' = [mem_alloc_buffers_ EXCEPT ![o] = "used"]
        /\ loop' = [loop EXCEPT !.at = "failed", !.out = o]
  BY DEF PopulateMetaInfoFails
<1>2. /\ InputSame /\ UNCHANGED <<kept, running_, pending_buffer_count_>> /\ loop.at = "get"
      /\ fault = None /\ fault' = "meta"
  BY DEF PopulateMetaInfoFails, InputSame, source, sink, caller
<1>3. /\ o \in OutBuffers /\ o # None /\ o \notin Used /\ Used' = Used \cup {o}
      /\ Cardinality(Used') = Cardinality(Used) + 1 /\ Cardinality(Used) \in Nat
      /\ mem_alloc_buffers_' \in [OutBuffers -> {"none", "free", "used"}]
  BY <1>1, Found, Taken DEF PipeInv
<1>4. /\ loop' \in Frames /\ loop'.at = "failed" /\ loop'.out = o /\ loop'.in = loop.in
      /\ loop.in \in InBuffers
  BY <1>1, <1>2, <1>3, AtStep DEF Frames, Steps
<1>5. PipeTypes'
  BY <1>1, <1>2, <1>3, <1>4, RescalerAssumption DEF PipeInv, PipeTypes, InputSame
<1>6. ThreadHas' = ThreadHas /\ LoopHolds = {} /\ LoopHolds' = {o}
  BY <1>1, <1>2, <1>3, <1>4, AtStep DEF ThreadHas, LoopHolds
<1>7. Pool'
  <2>1. fault # "meta" /\ Used = kept
    BY <1>2, <1>6, RescalerAssumption DEF PipeInv, Pool
  <2>2. LoopHolds' \cap kept' = {} /\ LoopHolds' \cup kept' = Used'
    BY <1>2, <1>3, <1>6, <2>1
  <2>3. Missed' = 1 /\ Missed = 0 /\ pending_buffer_count_ \in Nat
    BY <1>2, <2>1 DEF Missed, PipeInv, PipeTypes
  <2>4. pending_buffer_count_' + Missed' = Cardinality(Used')
    BY SMT, <1>2, <1>3, <2>3 DEF PipeInv, Pool
  <2>5. Used' \ (LoopHolds' \cup kept') = {} /\ Cardinality({}) = 0
    BY <2>2, FS_EmptySet
  <2>6. Cardinality(Used' \ (LoopHolds' \cup kept')) <= 1
    BY SMT, <2>5
  <2> QED
    BY <2>2, <2>4, <2>6 DEF Pool
<1> QED
  BY <1>2, <1>5, <1>6, <1>7, InputSameKeeps DEF PipeInv

LEMMA MapBufKeeps ==
  ASSUME PipeInv, MapBuf
  PROVE  PipeInv'
<1>1. /\ InputSame /\ PoolSame /\ running_' = running_ /\ loop.at = "map"
      /\ \/ loop' = [loop EXCEPT !.at = "drawn"] /\ fault' = fault
         \/ loop' = [loop EXCEPT !.at = "failed"] /\ fault = None /\ fault' = "map"
  BY DEF MapBuf, InputSame, PoolSame, source, pool, sink, caller
<1>2. /\ loop' \in Frames /\ loop'.at \in {"drawn", "failed"} /\ loop'.out = loop.out
      /\ loop'.in = loop.in /\ loop.out \in OutBuffers /\ loop.in \in InBuffers
  BY <1>1, AtStep DEF Frames, Steps
<1>3. /\ fault' \in {None, "alloc", "meta", "map"} /\ (fault' = "meta" <=> fault = "meta")
      /\ (loop'.at = "failed" => fault # "meta")
  BY <1>1, <1>2, AtStep, RescalerAssumption DEF PipeInv, PipeTypes, Frames
<1>4. PipeTypes'
  BY <1>1, <1>2, <1>3, RescalerAssumption DEF PipeInv, PipeTypes, InputSame, PoolSame
<1>5. ThreadHas' = ThreadHas /\ LoopHolds' = LoopHolds
  BY <1>1, <1>2, AtStep, RescalerAssumption DEF ThreadHas, LoopHolds
<1>6. Pool'
  BY <1>1, <1>3, <1>5, PoolSteady DEF PipeInv, PoolSame
<1> QED
  BY <1>1, <1>4, <1>5, <1>6, InputSameKeeps DEF PipeInv

\* The thread is at the start of its loop again, with no buffer.
LEMMA Again ==
  ASSUME loop' = [NoFrame EXCEPT !.at = "loop"]
  PROVE  /\ loop' \in Frames /\ loop'.at = "loop" /\ loop'.in = None /\ loop'.out = None
         /\ ThreadHas' = {} /\ LoopHolds' = {} /\ ~Fails'
<1>1. loop' \in Frames /\ loop'.at = "loop" /\ loop'.in = None /\ loop'.out = None
  BY DEF NoFrame, Frames, Steps
<1> QED
  BY <1>1 DEF ThreadHas, LoopHolds, Fails

LEMMA ThreadLoopFailsKeeps ==
  ASSUME PipeInv, ThreadLoopFails
  PROVE  PipeInv'
<1>1. /\ UNCHANGED <<camera, bufs_list_, user, late, kept, running_, fault>>
      /\ loop.at = "failed" /\ ReturnBufferLocked(loop.out) /\ fed' = fed \ {loop.in}
      /\ loop' = [NoFrame EXCEPT !.at = "loop"]
  BY DEF ThreadLoopFails, sink, caller
<1>2. loop.out = None \/ LoopHolds = {loop.out}
  BY <1>1 DEF LoopHolds
<1>3. LoopHolds' \cup kept' = (LoopHolds \cup kept) \ {loop.out} /\ LoopHolds' \cap kept' = {}
  <2>1. loop.out \notin kept
    BY <1>2, RescalerAssumption DEF PipeInv, Pool, PipeTypes
  <2>2. LoopHolds \subseteq {loop.out}
    BY DEF LoopHolds
  <2> QED
    BY <1>1, <2>1, <2>2, Again
<1>4. /\ Pool' /\ pending_buffer_count_' \in Nat
      /\ mem_alloc_buffers_' \in [OutBuffers -> {"none", "free", "used"}]
  BY <1>1, <1>2, <1>3, Again, PoolReturns DEF PipeInv
<1>5. PipeTypes'
  BY <1>1, <1>4, Again DEF PipeInv, PipeTypes
<1>6. Inputs'
  BY <1>1, Again, AtStep, InputsReturned DEF PipeInv
<1>7. Flushed'
  BY <1>1 DEF PipeInv, Flushed
<1> QED
  BY <1>4, <1>5, <1>6, <1>7 DEF PipeInv

LEMMA ReturnBufferToProducerKeeps ==
  ASSUME PipeInv, ReturnBufferToProducer
  PROVE  PipeInv'
<1>1. /\ UNCHANGED <<camera, bufs_list_, user, late, running_, fault>> /\ PoolSame
      /\ loop.at = "drawn" /\ fed' = fed \ {loop.in}
      /\ loop' = [loop EXCEPT !.at = "send", !.in = None]
  BY DEF ReturnBufferToProducer, PoolSame, pool, sink, caller
<1>2. /\ loop' \in Frames /\ loop'.at = "send" /\ loop'.out = loop.out /\ loop.out \in OutBuffers
  BY <1>1, AtStep DEF Frames, Steps
<1>3. ThreadHas' = {} /\ LoopHolds' = LoopHolds
  BY <1>1, <1>2, AtStep, RescalerAssumption DEF ThreadHas, LoopHolds
<1>4. Pool'
  BY <1>1, <1>2, <1>3, PoolSteady DEF PipeInv, PoolSame
<1>5. PipeTypes'
  BY <1>1, <1>2, RescalerAssumption DEF PipeInv, PipeTypes, PoolSame
<1>6. Inputs'
  BY <1>1, <1>3, AtStep, InputsReturned DEF PipeInv
<1>7. Flushed'
  BY <1>1 DEF PipeInv, Flushed
<1> QED
  BY <1>4, <1>5, <1>6, <1>7 DEF PipeInv

LEMMA NotifyBufferToClientKeeps ==
  ASSUME PipeInv, NotifyBufferToClient
  PROVE  PipeInv'
<1>1. /\ InputSame /\ UNCHANGED <<kept, running_, fault>>
      /\ loop.at = "send" /\ ReturnBufferLocked(loop.out)
      /\ loop' = [NoFrame EXCEPT !.at = "loop"]
  BY DEF NotifyBufferToClient, InputSame, source, sink, caller
<1>2. LoopHolds = {loop.out} /\ ThreadHas = {}
  BY <1>1, AtStep
<1>3. LoopHolds' \cup kept' = (LoopHolds \cup kept) \ {loop.out} /\ LoopHolds' \cap kept' = {}
  BY <1>1, <1>2, Again DEF PipeInv, Pool
<1>4. /\ Pool' /\ pending_buffer_count_' \in Nat
      /\ mem_alloc_buffers_' \in [OutBuffers -> {"none", "free", "used"}]
  BY <1>1, <1>2, <1>3, Again, PoolReturns DEF PipeInv
<1>5. PipeTypes'
  BY <1>1, <1>4, Again DEF PipeInv, PipeTypes, InputSame
<1> QED
  BY <1>1, <1>2, <1>4, <1>5, Again, InputSameKeeps DEF PipeInv

LEMMA FrcPassesKeeps ==
  ASSUME PipeInv, FrcPasses
  PROVE  PipeInv'
<1>1. /\ InputSame /\ PoolSame /\ UNCHANGED <<running_, fault>> /\ loop.at = "send"
      /\ loop' = [loop EXCEPT !.at = "passed"]
  BY DEF FrcPasses, InputSame, PoolSame, source, pool, sink, caller
<1>2. loop' \in Frames /\ loop'.at = "passed" /\ loop'.out = loop.out /\ loop.out \in OutBuffers
  BY <1>1, AtStep DEF Frames, Steps
<1>3. ThreadHas' = ThreadHas /\ LoopHolds' = LoopHolds
  BY <1>1, <1>2, AtStep, RescalerAssumption DEF ThreadHas, LoopHolds
<1>4. Pool'
  BY <1>1, <1>2, <1>3, PoolSteady DEF PipeInv, PoolSame
<1>5. PipeTypes'
  BY <1>1, <1>2, RescalerAssumption DEF PipeInv, PipeTypes, InputSame, PoolSame
<1> QED
  BY <1>1, <1>3, <1>4, <1>5, InputSameKeeps DEF PipeInv

LEMMA FrcNotifiesKeeps ==
  ASSUME PipeInv, FrcNotifies
  PROVE  PipeInv'
<1>1. /\ InputSame /\ UNCHANGED <<mem_alloc_buffers_, pending_buffer_count_, running_, fault>>
      /\ loop.at = "passed" /\ kept' = kept \cup {loop.out}
      /\ loop' = [NoFrame EXCEPT !.at = "loop"]
  BY DEF FrcNotifies, InputSame, source, pool, caller
<1>2. LoopHolds = {loop.out} /\ ThreadHas = {} /\ loop.out \in OutBuffers
  BY <1>1, AtStep
<1>3. LoopHolds' \cup kept' = LoopHolds \cup kept /\ LoopHolds' \cap kept' = {}
  BY <1>1, <1>2, Again
<1>4. Used' = Used /\ Missed' = Missed
  BY <1>1 DEF Used, Those, Missed
<1>5. Pool'
  BY <1>1, <1>3, <1>4, Again DEF PipeInv, Pool
<1>6. PipeTypes'
  BY <1>1, <1>2, Again DEF PipeInv, PipeTypes, InputSame
<1> QED
  BY <1>1, <1>2, <1>5, <1>6, Again, InputSameKeeps DEF PipeInv

LEMMA NotifyBufferReturnedKeeps ==
  ASSUME PipeInv, NEW o \in OutBuffers, NotifyBufferReturned(o)
  PROVE  PipeInv'
<1>1. /\ InputSame /\ UNCHANGED <<loop, running_, fault>>
      /\ o \in kept /\ kept' = kept \ {o} /\ ReturnBufferLocked(o)
  BY DEF NotifyBufferReturned, InputSame, source, thread, caller
<1>2. LoopHolds' = LoopHolds /\ ThreadHas' = ThreadHas /\ o \notin LoopHolds /\ (Fails' => Fails)
  BY <1>1 DEF PipeInv, Pool, LoopHolds, ThreadHas, Fails
<1>3. LoopHolds' \cup kept' = (LoopHolds \cup kept) \ {o} /\ LoopHolds' \cap kept' = {}
  BY <1>1, <1>2 DEF PipeInv, Pool
<1>4. /\ Pool' /\ pending_buffer_count_' \in Nat
      /\ mem_alloc_buffers_' \in [OutBuffers -> {"none", "free", "used"}]
  BY <1>1, <1>2, <1>3, PoolReturns DEF PipeInv
<1>5. PipeTypes'
  BY <1>1, <1>4 DEF PipeInv, PipeTypes, InputSame
<1> QED
  BY <1>1, <1>2, <1>4, <1>5, InputSameKeeps DEF PipeInv

-----------------------------------------------------------------------------
(* StartTrack and StopTrack.                                               *)

LEMMA CallerKeeps ==
  ASSUME PipeInv, ThreadSame, UNCHANGED <<fed, camera, bufs_list_, late>>, user' \in Users, Flushed'
  PROVE  PipeInv'
<1>1. Inputs'
  BY ThreadSameKeeps, InputsSteady DEF PipeInv
<1>2. PipeTypes'
  BY DEF PipeInv, PipeTypes, ThreadSame
<1> QED
  BY <1>1, <1>2, ThreadSameKeeps DEF PipeInv

LEMMA StartPipeKeeps ==
  ASSUME PipeInv, StartPipe
  PROVE  PipeInv'
<1>1. /\ UNCHANGED <<fed, camera, bufs_list_, late, fault>> /\ PoolSame /\ user' = "running"
      /\ IF running_ THEN UNCHANGED <<running_, loop>>
         ELSE running_' = TRUE /\ loop' = [NoFrame EXCEPT !.at = "loop"]
  BY DEF StartPipe, PoolSame, pool
<1>2. Flushed' /\ user' \in Users
  BY <1>1 DEF Flushed, Flowing, Users
<1>3. CASE running_
  <2>1. ThreadSame
    BY <1>1, <1>3 DEF ThreadSame, PoolSame
  <2> QED
    BY <1>1, <1>2, <2>1, CallerKeeps
<1>4. CASE ~running_
  <2>1. running_' = TRUE /\ loop' = [NoFrame EXCEPT !.at = "loop"] /\ loop.at = "none"
    BY <1>1, <1>4 DEF PipeInv, PipeTypes
  <2>2. ThreadHas' = ThreadHas /\ LoopHolds' = LoopHolds /\ loop'.at = "loop"
    BY <2>1, Again, AtStep
  <2>3. Pool'
    BY <1>1, <2>2, PoolSteady DEF PipeInv, PoolSame
  <2>4. Inputs'
    BY <1>1, <2>2, InputsSteady DEF PipeInv
  <2>5. PipeTypes'
    BY <1>1, <1>2, <2>1, Again DEF PipeInv, PipeTypes, PoolSame
  <2> QED
    BY <1>2, <2>3, <2>4, <2>5 DEF PipeInv
<1> QED
  BY <1>3, <1>4

\* StopTrack passes a point after fsc_ has its frames back only with an empty
\* bufs_list_, unless a frame was late.
LEMMA StopKeeps ==
  ASSUME PipeInv,
         StopFrc \/ StopFsc \/ StopTimesOut \/ FscDrained \/ StopRescaler \/ RequestExit \/ Join
           \/ Detach
  PROVE  PipeInv'
<1>1. ThreadSame /\ UNCHANGED <<fed, camera, bufs_list_, late>>
  BY DEF StopFrc, StopFsc, StopTimesOut, FscDrained, StopRescaler, RequestExit, Join, Detach,
         Goes, ThreadSame, source, pool, thread, sink
<1>2. user' \in Users
  BY DEF StopFrc, StopFsc, StopTimesOut, FscDrained, StopRescaler, RequestExit, Join, Detach,
         Goes, Users, Flowing, PipeInv, PipeTypes
<1>3. user' \in Flowing \/ FscDrained \/ user \notin Flowing
  BY DEF StopFrc, StopFsc, StopTimesOut, StopRescaler, RequestExit, Join, Detach, Goes, Flowing
<1>4. Flushed'
  <2>1. CASE FscDrained
    <3>1. Listed = {}
      BY <2>1 DEF FscDrained, PipeInv, Inputs
    <3>2. Len(bufs_list_) = 0 /\ bufs_list_ \in Seq(InBuffers)
      BY <3>1, FS_EmptySet DEF PipeInv, Inputs, PipeTypes
    <3>3. bufs_list_ = <<>>
      BY SMT, <3>2
    <3> QED
      BY <1>1, <3>3 DEF Flushed
  <2>2. CASE user' \in Flowing \/ user \notin Flowing
    BY <1>1, <2>2 DEF PipeInv, Flushed
  <2> QED
    BY <1>3, <2>1, <2>2
<1> QED
  BY <1>1, <1>2, <1>4, CallerKeeps

-----------------------------------------------------------------------------
LEMMA PipeInitially == RescalerInit => PipeInv
<1> SUFFICES ASSUME RescalerInit PROVE PipeInv
  OBVIOUS
<1>1. loop \in Frames /\ loop.at = "none" /\ camera \in Passing /\ camera.at = "idle"
  BY DEF RescalerInit, NoFrame, Frames, Steps, Passing
<1>2. <<>> \in Seq(InBuffers) /\ DOMAIN <<>> = {} /\ Len(<<>>) = 0 /\ 0 \in Nat
  BY SMT
<1>3. PipeTypes
  BY <1>1, <1>2 DEF RescalerInit, PipeTypes, Users
<1>4. Listed = {} /\ ThreadHas = {} /\ CameraHas = {} /\ LoopHolds = {} /\ Used = {}
  BY <1>1, <1>2 DEF RescalerInit, Listed, ThreadHas, CameraHas, LoopHolds, Used, Those
<1>5. IsFiniteSet({}) /\ Cardinality({}) = 0
  BY FS_EmptySet
<1>6. Inputs /\ Flushed
  BY <1>1, <1>2, <1>4, <1>5 DEF RescalerInit, Inputs, Unrepeated, Flushed
<1>7. Missed = 0
  BY RescalerAssumption DEF Missed, RescalerInit
<1>8. pending_buffer_count_ + Missed = Cardinality(Used)
  BY SMT, <1>4, <1>5, <1>7 DEF RescalerInit
<1>9. /\ kept = {} /\ Used \ (LoopHolds \cup kept) = {}
      /\ Cardinality(Used \ (LoopHolds \cup kept)) <= 1
  <2>1. kept = {} /\ Used \ (LoopHolds \cup kept) = {}
    BY <1>4 DEF RescalerInit
  <2>2. Cardinality(Used \ (LoopHolds \cup kept)) <= 1
    BY SMT, <2>1, <1>5
  <2> QED
    BY <2>1, <2>2
<1>10. Pool
  BY <1>4, <1>8, <1>9 DEF Pool
<1> QED
  BY <1>3, <1>6, <1>10 DEF PipeInv

LEMMA PipeStep == PipeInv /\ [RescalerNext]_rescalerVars => PipeInv'
<1> SUFFICES ASSUME PipeInv, [RescalerNext]_rescalerVars PROVE PipeInv'
  OBVIOUS
<1>1. CASE RescalerNext
  BY <1>1, FscPassesKeeps, FscNotifiesKeeps, AddBufKeeps, MainLoopKeeps, ThreadLoopKeeps,
     GetFreeOutputBufferKeeps, GetsNoBufferKeeps, PopulateMetaInfoFailsKeeps, MapBufKeeps,
     ThreadLoopFailsKeeps, ReturnBufferToProducerKeeps, NotifyBufferToClientKeeps,
     FrcPassesKeeps, FrcNotifiesKeeps, NotifyBufferReturnedKeeps, StartPipeKeeps, StopKeeps
     DEF RescalerNext
<1>2. CASE UNCHANGED rescalerVars
  <2>1. ThreadSame /\ UNCHANGED <<fed, camera, bufs_list_, late, user>>
    BY <1>2 DEF rescalerVars, source, pool, thread, sink, caller, ThreadSame
  <2>2. Flushed' /\ user' \in Users
    BY <2>1 DEF PipeInv, PipeTypes, Flushed
  <2> QED
    BY <2>1, <2>2, CallerKeeps
<1> QED
  BY <1>1, <1>2

LEMMA PipeInvCirculates == PipeInv => RescaledFramesCirculate
<1> SUFFICES ASSUME PipeInv PROVE RescaledFramesCirculate
  OBVIOUS
<1>1. InputsReturn
  BY DEF PipeInv, Inputs, Flushed, Flowing, CameraHas, InputsReturn
<1>2. InUse \subseteq LoopHolds \cup kept /\ LoopHolds \cup kept \subseteq Used
  BY DEF PipeInv, Pool, PipeTypes, LoopHolds, InUse
<1>3. loop.at # "failed" => InUse = LoopHolds \cup kept
  BY AtStep, RescalerAssumption DEF LoopHolds, InUse, Steps
<1>4. pending_buffer_count_ \in Nat /\ Missed \in {0, 1} /\ (fault # "meta" => Missed = 0)
  BY DEF PipeInv, PipeTypes, Missed
<1>5. Cardinality(Used) \in Nat /\ pending_buffer_count_ + Missed = Cardinality(Used)
  BY UsedFinite DEF PipeInv, Pool
<1>6. fault # "meta" /\ loop.at # "failed" =>
        InUse = Used /\ pending_buffer_count_ = Cardinality(InUse)
  <2>1. SUFFICES ASSUME fault # "meta", loop.at # "failed"
                 PROVE  InUse = Used /\ pending_buffer_count_ = Cardinality(InUse)
    OBVIOUS
  <2>2. InUse = Used
    BY <1>3, <2>1 DEF PipeInv, Pool
  <2>3. pending_buffer_count_ = Cardinality(Used)
    BY SMT, <1>4, <1>5, <2>1
  <2> QED
    BY <2>2, <2>3
<1>7. Cardinality(Used \ InUse) <= 1
  <2>1. CASE InUse = LoopHolds \cup kept
    BY <2>1 DEF PipeInv, Pool
  <2>2. CASE InUse # LoopHolds \cup kept
    <3>1. loop.at = "failed" /\ LoopHolds # {}
      BY <1>3, <2>2 DEF InUse
    <3>2. /\ Used = LoopHolds \cup kept /\ InUse = kept /\ LoopHolds \cap kept = {}
          /\ LoopHolds = {loop.out}
      BY <3>1 DEF PipeInv, Pool, Fails, InUse, LoopHolds
    <3>3. Used \ InUse = {loop.out}
      BY <3>2
    <3>4. Cardinality({loop.out}) = 1
      BY FS_Singleton
    <3> QED
      BY SMT, <3>3, <3>4
  <2> QED
    BY <2>1, <2>2
<1>8. PoolCounts
  BY <1>2, <1>6, <1>7 DEF PoolCounts, Used
<1>9. NotWedged
  <2>1. SUFFICES ASSUME loop.at = "get", kept = {}, pending_buffer_count_ = buffer_cnt_ PROVE FALSE
    BY DEF NotWedged
  <2>2. LoopHolds \cup kept = {} /\ Used \ (LoopHolds \cup kept) = Used
    BY <2>1, AtStep
  <2>3. Cardinality(Used) <= 1 /\ (fault # "meta" => Used = {})
    BY <2>2 DEF PipeInv, Pool
  <2>4. Cardinality({}) = 0
    BY FS_EmptySet
  <2>5. pending_buffer_count_ = 0
    <3>1. CASE fault = "meta"
      <4>1. Missed = 1
        BY <3>1 DEF Missed
      <4> QED
        BY SMT, <1>4, <1>5, <2>3, <4>1
    <3>2. CASE fault # "meta"
      <4>1. Used = {} /\ Missed = 0
        BY <1>4, <2>3, <3>2
      <4> QED
        BY SMT, <1>4, <1>5, <2>4, <4>1
    <3> QED
      BY <3>1, <3>2
  <2>6. Cardinality(OutBuffers) # 0
    BY RescalerAssumption, FS_EmptySet
  <2> QED
    BY <2>1, <2>5, <2>6 DEF buffer_cnt_
<1> QED
  BY <1>1, <1>8, <1>9 DEF RescaledFramesCirculate

\* CameraRescaler gives every frame of the master track back and has each at
\* one place, its pool counts what the thread and the track hold, and
\* StopTrack never waits for a thread that waits for a buffer nobody has,
\* whatever the buffers, for any order of the four threads.
THEOREM RescalerCirculates == RescalerSpec => []RescaledFramesCirculate
<1>1. RescalerSpec => []PipeInv
  BY PipeInitially, PipeStep, PTL DEF RescalerSpec
<1> QED
  BY <1>1, PipeInvCirculates, PTL
=============================================================================
