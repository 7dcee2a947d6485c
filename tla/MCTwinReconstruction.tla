-------------------------- MODULE MCTwinReconstruction --------------------------
EXTENDS TwinReconstruction

CONSTANTS c1, c2, A, B

KampMetrics == <<>>
OtherMetrics(deviation) == [mean_deviation |-> deviation, max_tolerance |-> 1000]

Good == [csv |-> TRUE, megabytes |-> 1, header |-> "standard", timed |-> TRUE,
         times |-> <<3, 5, 8, 11>>, nulls |-> 1, numeric |-> TRUE, metrics |-> KampMetrics]

\* A log of the KAMP parser; logs of another one that are within the tolerance, over it, and
\* beyond the column and the range of a rate; and logs that fail in each way.
MCLogs ==
  {Good,
   [Good EXCEPT !.timed = FALSE, !.metrics = OtherMetrics(41)],
   [Good EXCEPT !.times = <<4>>, !.nulls = 0, !.metrics = OtherMetrics(73)],
   [Good EXCEPT !.metrics = OtherMetrics(120)],
   [Good EXCEPT !.times = <<9, 9>>, !.nulls = 0, !.metrics = OtherMetrics(1200)],
   [Good EXCEPT !.csv = FALSE], [Good EXCEPT !.header = "none"], [Good EXCEPT !.times = <<>>],
   [Good EXCEPT !.megabytes = 101], [Good EXCEPT !.header = "snake"],
   [Good EXCEPT !.header = "lacking"], [Good EXCEPT !.nulls = 2], [Good EXCEPT !.numeric = FALSE]}

\* The theorem about the frames, on the logs of this instance and on times of every kind;
\* and what it does not say: of a clock that goes back, or that only stands still, the
\* frames keep nothing.
ASSUME MCFrames ==
  /\ \A log \in MCLogs :
       Advances(RawTimes(log)) /\ NeverGoesBack(RawTimes(log)) => FramesKeepTime(RawTimes(log))
  /\ \A times \in [1 .. 4 -> 0 .. 5] :
       Advances(times) /\ NeverGoesBack(times) => FramesKeepTime(times)
  /\ ~FramesKeepTime(<<3, 8, 5, 11>>)
  /\ ~FramesKeepTime(<<9, 9>>)

\* A baseline of a parser that gave the figures.
MCStored ==
  "b0" :> [company |-> A, rate |-> 420, status |-> "COMPLETED",
           summary |-> OtherMetrics(42)]

Reconstructions(roles, companies, named) ==
  [op : {"reconstruct"}, role : roles, company : companies, path : Paths, named : named]
Calibrations(companies, ids, rounds, params) ==
  [op : {"calibrate"}, role : {"FIELD_ENGINEER"}, company : companies, path : Paths,
   id : ids, target : {300, 500}, rounds : {rounds}, params : params]
Readings(companies, ids) ==
  [op : {"layout"}, role : {"CREATOR"}, company : companies, id : ids]
    \cup [op : {"asset"}, role : {"CREATOR"}, company : companies, id : {c1}]
Registrations ==
  [op : {"register"}, role : {"SI_PARTNER", "FIELD_ENGINEER"}, company : {A},
   asset : [type : {"ROBOT", "ROCKET"}, submodels : {"all"},
            kinematics : {{"dof", "joints"}, {"degrees_of_freedom", "dh_parameters"},
                          {"dof", "joints", "degrees_of_freedom", "dh_parameters"}}]]

MCCalls ==
  (c1 :> Reconstructions({"FIELD_ENGINEER", "FACTORY_MANAGER"}, {A, None}, BOOLEAN)
           \cup Registrations \cup Calibrations({A}, {"b0"}, 6, {<<>>}))
    @@ (c2 :> Reconstructions({"FACTORY_MANAGER"}, {B}, {TRUE})
                \cup Calibrations({A, B}, {"b0", c1}, 1, {<<>>, [mean_deviation |-> 60]})
                \cup Readings({A, B}, {"b0", c1}))

================================================================================
