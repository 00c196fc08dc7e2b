------------------------- MODULE FrameRateController ------------------------
(***************************************************************************)
(* The pacing of FrameRateController (qmmf_camera_frc.cc): which frames of *)
(* the camera it skips, passes on or repeats so that a track gets its      *)
(* frame rate.  The turns of the repeat loop are steps, all under          *)
(* frame_lock_.  Times are whole ticks; the measured rates, which are only *)
(* logged, are left out.  The consumers of the controller are in           *)
(* TrackSource and CameraRescaler.                                         *)
(***************************************************************************)
EXTENDS Integers

CONSTANTS Intervals,  \* output intervals a caller may ask for, in ticks
          Gaps,       \* times between two frames of the camera, in ticks
          Horizon,    \* bound: no frame arrives after this time
          MaxAhead    \* bound on the turns of a repeat loop that runs ahead

VARIABLES active_, frame_repeat_enabled_, output_frame_interval_, expected_output_ts_,
          input_frame_interval_, previous_input_ts_,
          at,         \* "idle", or "test" inside OnFrameAvailable
          now,        \* timestamp of the camera's last frame
          \* History since Start or the last change of the rate:
          base,       \* what expected_output_ts_ was then
          due,        \* intervals of the frames passed on, summed
          adjusted,   \* what the early frames took off expected_output_ts_
          skipped,    \* the last frame was skipped
          steady,     \* the camera never ran faster than the track, nothing was changed
          tie         \* expected_output_ts_ was late by exactly half an interval

setting == <<active_, frame_repeat_enabled_, output_frame_interval_>>
clock == <<expected_output_ts_, input_frame_interval_, previous_input_ts_>>
history == <<base, due, adjusted, skipped, steady, tie>>
frcVars == <<setting, clock, at, now, history>>

FrcInit ==
  /\ active_ = FALSE /\ frame_repeat_enabled_ = FALSE
  /\ output_frame_interval_ \in Intervals
  /\ expected_output_ts_ = 0 /\ input_frame_interval_ = 0 /\ previous_input_ts_ = 0
  /\ at = "idle" /\ now = 0
  /\ base = 0 /\ due = 0 /\ adjusted = 0 /\ skipped = FALSE /\ steady = FALSE /\ tie = FALSE

\* std::llround of n / d, for n \in Nat.
Round(n, d) == (2 * n + d) \div (2 * d)
Abs(n) == IF n < 0 THEN -n ELSE n

FRC_THRESHOLD == 2    \* half an interval
FRC_TS_DELTA == 100   \* a hundredth

ClockReset(on) ==
  /\ at = "idle" /\ active_ = ~on /\ active_' = on
  /\ expected_output_ts_' = 0 /\ previous_input_ts_' = 0
  /\ base' = 0 /\ due' = 0 /\ adjusted' = 0 /\ skipped' = FALSE /\ steady' = on /\ tie' = FALSE
  /\ UNCHANGED <<frame_repeat_enabled_, output_frame_interval_, input_frame_interval_, at, now>>

Start == ClockReset(TRUE)
Stop == ClockReset(FALSE)

\* SetFrameRate; a rate of zero is refused, so Intervals has no zero.
SetFrameRate(interval) ==
  /\ at = "idle" /\ output_frame_interval_' = interval
  /\ base' = expected_output_ts_ /\ due' = 0 /\ adjusted' = 0 /\ skipped' = FALSE
  /\ steady' = FALSE
  /\ UNCHANGED <<active_, frame_repeat_enabled_, clock, at, now, tie>>

EnableFrameRepeat(enable) ==
  /\ at = "idle" /\ frame_repeat_enabled_' = enable /\ steady' = FALSE
  /\ UNCHANGED <<active_, output_frame_interval_, clock, at, now, base, due, adjusted,
                 skipped, tie>>

\* OnFrameAvailable, to the initialisation of expected_output_ts_.
OnFrameAvailable(gap) ==
  /\ at = "idle" /\ active_ /\ now + gap <= Horizon
  /\ now' = now + gap /\ previous_input_ts_' = now'
  /\ input_frame_interval_' =
       IF previous_input_ts_ = 0 THEN 0 ELSE now' - previous_input_ts_
  /\ IF expected_output_ts_ = 0
     THEN expected_output_ts_' = now' /\ base' = now' /\ UNCHANGED steady
     ELSE /\ steady' = (steady /\ gap >= output_frame_interval_)
          /\ UNCHANGED <<expected_output_ts_, base>>
  /\ at' = "test" /\ skipped' = FALSE
  /\ UNCHANGED <<setting, due, adjusted, tie>>

\* OnFrameAvailable while the controller is stopped: the frame goes back.
ReturnFrame(gap) ==
  /\ at = "idle" /\ ~active_ /\ now + gap <= Horizon /\ now' = now + gap
  /\ UNCHANGED <<setting, clock, at, history>>

\* Slip: a frame is skipped only when it is a whole interval early.
SkipLate ==
  LET delta == expected_output_ts_ - now
  IN delta > 0 /\ delta > output_frame_interval_

SkipFrame ==
  LET delta == expected_output_ts_ - now
  IN delta > 0 /\ delta >= Round(output_frame_interval_, FRC_THRESHOLD)

RepeatFrame ==
  /\ input_frame_interval_ # 0
  /\ FRC_THRESHOLD * Abs(expected_output_ts_ - now) >= output_frame_interval_

\* A turn of the loop while (RepeatFrame(buffer)).
RepeatTurn ==
  /\ at = "test" /\ frame_repeat_enabled_ /\ RepeatFrame
  /\ expected_output_ts_ <= now + MaxAhead
  /\ expected_output_ts_' = expected_output_ts_ + output_frame_interval_
  /\ due' = due + output_frame_interval_
  /\ tie' = (tie \/ FRC_THRESHOLD * (now - expected_output_ts_) = output_frame_interval_)
  /\ UNCHANGED <<setting, input_frame_interval_, previous_input_ts_, at, now, base,
                 adjusted, skipped, steady>>

SkipsFrame ==
  /\ at = "test" /\ ~frame_repeat_enabled_ /\ SkipFrame
  /\ at' = "idle" /\ skipped' = TRUE
  /\ UNCHANGED <<setting, clock, now, base, due, adjusted, steady, tie>>

\* What is taken off expected_output_ts_ for a frame that is a little early.
EarlyBy ==
  LET delta == expected_output_ts_ - now
  IN IF delta > 0 /\ delta < Round(output_frame_interval_, FRC_TS_DELTA) THEN delta ELSE 0

\* The rest of OnFrameAvailable for a frame that goes to the consumer.
PassFrame ==
  /\ at = "test"
  /\ IF frame_repeat_enabled_ THEN ~RepeatFrame ELSE ~SkipFrame
  /\ expected_output_ts_' = expected_output_ts_ - EarlyBy + output_frame_interval_
  /\ due' = due + output_frame_interval_
  /\ adjusted' = adjusted + EarlyBy
  /\ at' = "idle"
  /\ UNCHANGED <<setting, input_frame_interval_, previous_input_ts_, now, base, skipped,
                 steady, tie>>

FrcNext ==
  \/ Start \/ Stop
  \/ \E interval \in Intervals : SetFrameRate(interval)
  \/ \E enable \in BOOLEAN : EnableFrameRepeat(enable)
  \/ \E gap \in Gaps : OnFrameAvailable(gap) \/ ReturnFrame(gap)
  \/ RepeatTurn \/ SkipsFrame \/ PassFrame

FrcSpec == FrcInit /\ [][FrcNext]_frcVars

-----------------------------------------------------------------------------
\* The track gets no more than its rate, within one hundredth and one and a
\* half frames, however irregular the camera is: due counts every frame that
\* OnFrameAvailable passed on, repeated or not, since Start or SetFrameRate.
NeverTooMany ==
  at = "idle" /\ due > 0 =>
    99 * due <= 100 * (previous_input_ts_ - base) + 150 * output_frame_interval_

\* A frame is skipped only while the track is ahead of its rate by half a frame.
SkipsOnlyAhead ==
  skipped => 2 * (base + due - previous_input_ts_) >= output_frame_interval_

\* The loop of OnFrameAvailable that repeats a frame ends: it does not run
\* away from a timestamp it has passed, unless the camera was faster than the
\* track, a setting was changed in flight, or the frame was late by exactly
\* half an interval.
RepeatsCatchUp ==
  steady /\ ~tie /\ at = "test" /\ frame_repeat_enabled_ /\ RepeatFrame =>
    expected_output_ts_ < now

\* FrameRateController keeps a track at its frame rate.
PacedAsAsked == NeverTooMany /\ SkipsOnlyAhead /\ RepeatsCatchUp
=============================================================================
