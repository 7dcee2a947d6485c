-------------------------------- MODULE KampLog --------------------------------
(***************************************************************************)
(* What becomes of a sensor log: the checks of its file, its streaming,    *)
(* its series at the sampling rate, and the frames that are built of it    *)
(* (kamp_sensor_parser).                                                   *)
(*                                                                         *)
(* A log is a record of what the parser tells apart.  Times count thirds   *)
(* of a sampling period, in which no rounding of the code is a tie.  A     *)
(* sensor column is its moments: the times whose values its samples are.   *)
(***************************************************************************)
EXTENDS Integers, Sequences, FiniteSetsExt

CONSTANTS MaxMegabytes,   \* max_allowable_file_size_mb
          Period          \* ticks of a sampling period, three

ASSUME PeriodAssumption == Period = 3

\* What the first check that fails says, "valid" if none does.
FirstFailure(checks) ==
  LET failed == {i \in DOMAIN checks : ~checks[i][1]}
  IN IF failed = {} THEN "valid" ELSE checks[Min(failed)][2]

--------------------------------------------------------------------------------
(* The file.                                                               *)

\* A record is read under the standard names of its columns or the snake-case ones.
KampRawRecordSchema(log) == log.header \in {"standard", "snake"}

\* A file without a header raises an error of the CSV library that is not caught.
ValidateAndResolve(log) ==
  FirstFailure(<< <<log.csv, "not_found">>,
                  <<log.megabytes <= MaxMegabytes, "parse_fail">>,
                  <<log.header # "none", "error">>,
                  <<log.times # <<>>, "parse_fail">>,
                  <<KampRawRecordSchema(log), "invalid_schema">> >>)

--------------------------------------------------------------------------------
(* The series.                                                             *)

\* One cell in twenty of the eight columns.
ValidateMissingRatio(log) == log.nulls * 20 <= Len(log.times) * 8

\* The columns are looked up under their standard names only.  A cell below the first
\* row that is not a number raises an error that is not caught.
StreamAndCollect(log) ==
  FirstFailure(<< <<log.header = "standard", "parse_fail">>,
                  <<ValidateMissingRatio(log), "parse_fail">>,
                  <<log.numeric, "error">> >>)

\* A log without a column of times is taken to be sampled at the rate itself.
RawTimes(log) ==
  IF log.timed THEN log.times ELSE [i \in DOMAIN log.times |-> Period * (i - 1)]

Duration(times) == times[Len(times)] - times[1]
Advances(times) == Len(times) >= 2 /\ Duration(times) > 0

\* numpy.arange from the start to half a period after the end.
SampleCount(d) == (2 * d + 3 * Period - 1) \div (2 * Period)

\* Neither the parser nor the processor asks for this, and nothing is sorted.
NeverGoesBack(times) == \A i, j \in DOMAIN times : i <= j => times[i] <= times[j]

\* The series a log may become.  numpy.interp relies on times that never go back: past the
\* last one it stays at the last value; of other times what it gives is not specified.  A
\* log that ends no later than it begins is left as it is.
ResampleSeries(times) ==
  LET n == SampleCount(Duration(times))
      At(i) == Period * (i - 1)
      grid == [i \in 1 .. n |-> At(i)]
      seen == [i \in 1 .. n |-> IF At(i) <= Duration(times) THEN At(i) ELSE Duration(times)]
      readings == {times[i] - times[1] : i \in DOMAIN times}
  IN IF ~Advances(times) THEN {[time |-> times, moment |-> times]}
     ELSE IF NeverGoesBack(times) THEN {[time |-> grid, moment |-> seen]}
     ELSE [time : {grid}, moment : [1 .. n -> readings]]

\* Neither of the two figures a baseline's precision is worked out from is among them.
ExtractSummaryMetrics == [mean_deviation |-> 0, max_tolerance |-> 1000]

--------------------------------------------------------------------------------
(* The frames.                                                             *)

ValidateSeriesIntegrity(series) ==
  Len(series.time) > 0 /\ Len(series.moment) = Len(series.time)

\* One pose of the arm per sample; the angles are left out.
ComputeFk(series) == series.moment

ValidateFrameInputs(series, poses) ==
  ValidateSeriesIntegrity(series) /\ Len(poses) = Len(series.time)

\* The times of the series are not looked at.
AlignTimeIndices(n) == [i \in 1 .. n |-> Period * (i - 1)]

BuildFrames(series) ==
  LET poses   == ComputeFk(series)
      aligned == AlignTimeIndices(Len(series.time))
  IN [i \in DOMAIN aligned |-> [timestamp |-> aligned[i], pose |-> poses[i]]]

\* Each frame shows the arm as it was at its timestamp, to half a period, and the last is
\* at the end of the log, whatever the resampling makes of the log.
FramesKeepTime(times) ==
  \A series \in ResampleSeries(times) :
    LET frames == BuildFrames(series)
        Near(a, b) == 2 * (a - b) \in -Period .. Period
    IN /\ ValidateSeriesIntegrity(series)
       /\ ValidateFrameInputs(series, ComputeFk(series))
       /\ \A i \in DOMAIN frames : Near(frames[i].timestamp, frames[i].pose)
       /\ Near(frames[Len(frames)].timestamp, Duration(times))

================================================================================
