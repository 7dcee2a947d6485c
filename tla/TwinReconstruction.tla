--------------------------- MODULE TwinReconstruction ---------------------------
(***************************************************************************)
(* The digital twin component: reconstructing a baseline from a sensor     *)
(* log, calibrating one, reading its layout, registering and reading an    *)
(* asset, down to the database the persistence adapters keep.              *)
(*                                                                         *)
(* Each call runs in a worker thread of its own.  What calls share is the  *)
(* log files, which a reconstruction removes when it ends, the two tables, *)
(* a baseline being read in one session and written in another, and the    *)
(* event bus.  Rates are hundredths of a percent; the figures of a         *)
(* summary are thousandths.  The audit of refused roles is in Simulation.  *)
(***************************************************************************)
EXTENDS KampLog, EventBus, AccessControl, TLC

CONSTANTS
  Calls,       \* Calls[c]: the requests caller c may make
  Paths,       \* paths of log files
  Logs,        \* what may be in a file
  Stored,      \* baselines reconstructed earlier, by identifier
  NoRequest,
  None

Callers == DOMAIN Calls

ASSUME CallersAssumption == Publishers = Callers /\ DOMAIN Stored \cap Callers = {}

VARIABLES
  files,     \* logs that are there, by path
  request,   \* what each caller asks for
  phase,     \* the next step of each caller
  entity,    \* the entity each caller works on
  answer,    \* what each caller was answered
  rows,      \* table twin_baselines, by identifier
  assets     \* table of assets, by identifier

vars == <<files, request, phase, entity, answer, rows, assets, busVars>>

--------------------------------------------------------------------------------
(* Precision and calibration.                                              *)

DefaultTolerance == 500

\* What the validation allows, and what the column Numeric(5,4) has room for.
MaxRate == 10000
ColumnRoom == 1000

Rounded(a, b) == (2 * a + b) \div (2 * b)

CalculatePrecision(summary, threshold) ==
  LET rate == IF summary.max_tolerance <= 0 THEN 0
              ELSE Rounded(summary.mean_deviation * 10000, summary.max_tolerance)
  IN [rate   |-> rate,
      status |-> IF rate > threshold THEN "TOLERANCE_EXCEEDED" ELSE "COMPLETED"]

\* Each round leaves two fifths of the distance to the target; a rate below the target
\* is moved once, toward it.
FittedError(rate, target, rounds) ==
  LET start == IF rate = 0 THEN 1250 ELSE rate
      once  == Rounded(4 * start + 6 * target, 10)
  IN IF start > target THEN target + Rounded((start - target) * 2^rounds, 5^rounds)
     ELSE IF once >= target - 50 THEN once ELSE target - 50

\* Mutant: the fitted rate is stored beside the figures of the last reconstruction.
Calibrated_Fitted(row, r) ==
  [row EXCEPT !.summary = r.params @@ @,
              !.rate = FittedError(row.rate, r.target, r.rounds),
              !.status = "COMPLETED"]

\* The tuned parameters join the summary; the rate is worked out from the summary again.
Calibrated(row, r) ==
  LET summary == r.params @@ row.summary
      precision == CalculatePrecision(summary, r.target)
  IN [row EXCEPT !.summary = summary, !.rate = precision.rate, !.status = precision.status]

\* A log of another parser behind the port may bring the figures.
Reconstructed(r, log) ==
  LET summary   == log.metrics @@ ExtractSummaryMetrics
      precision == CalculatePrecision(summary, DefaultTolerance)
  IN [company |-> r.company, rate |-> precision.rate, status |-> precision.status,
      summary |-> summary]

\* A row of the table that is consistent in itself.
Consistent(row) ==
  /\ row.rate = CalculatePrecision(row.summary, DefaultTolerance).rate
  /\ row.rate \in 0 .. ColumnRoom - 1
  /\ row.status = "COMPLETED" => row.rate <= DefaultTolerance

ASSUME StoredAssumption == \A id \in DOMAIN Stored :
  DOMAIN Stored[id] = {"company", "rate", "status", "summary"} /\ Consistent(Stored[id])

--------------------------------------------------------------------------------
(* Steps of a call.                                                        *)

Goto(c, p) == phase' = [phase EXCEPT ![c] = p] /\ UNCHANGED answer

\* A reconstruction that has been given its result still has its log to remove.
Finish(c, a) ==
  /\ phase' = [phase EXCEPT ![c] = IF request[c].op = "reconstruct" THEN "cleaning" ELSE "over"]
  /\ answer' = [answer EXCEPT ![c] = a]

Entry == [reconstruct |-> "checking", calibrate |-> "checking", layout |-> "reading",
          register |-> "validating", asset |-> "looking"]
RequiredRole == [reconstruct |-> "FACTORY_MANAGER", calibrate |-> "FIELD_ENGINEER",
                 layout |-> "CREATOR", register |-> "FIELD_ENGINEER", asset |-> "CREATOR"]

\* The schema lets no target above five percent pass.
ASSUME RequestsAssumption == \A c \in Callers : \A r \in Calls[c] :
  /\ r # NoRequest /\ r.op \in DOMAIN Entry
  /\ r.op = "calibrate" => r.target \in 0 .. DefaultTolerance

\* The guards are in front of the use case, and of its try block: a call they refuse is over
\* and a log it came with stays.  The facade asks for the role, the use case for a company.
Refuse(c, a) ==
  /\ phase' = [phase EXCEPT ![c] = "over"]
  /\ answer' = [answer EXCEPT ![c] = a]

Enter(c) ==
  /\ phase[c] = "new"
  /\ \E r \in Calls[c] :
       /\ request' = [request EXCEPT ![c] = r]
       /\ IF ~HasPermission(r.role, RequiredRole[r.op]) THEN Refuse(c, "forbidden")
          ELSE IF r.company = None THEN Refuse(c, "invalid_input")
          ELSE Goto(c, Entry[r.op])
  /\ UNCHANGED <<files, entity, rows, assets, busVars>>

\* The parser is called inside the try of both use cases, but a calibration answers every
\* failure of it in one way.
ParserFails(c, verdict) ==
  Finish(c, IF request[c].op = "calibrate" THEN "parse_fail" ELSE verdict)

CheckLog(c) ==
  LET path    == request[c].path
      verdict == IF path \in DOMAIN files THEN ValidateAndResolve(files[path]) ELSE "not_found"
  IN /\ phase[c] = "checking"
     /\ IF verdict = "valid" THEN Goto(c, "streaming") ELSE ParserFails(c, verdict)
     /\ UNCHANGED <<files, request, entity, rows, assets, busVars>>

\* The file is opened a second time; it may be gone.
StreamLog(c) ==
  LET path    == request[c].path
      verdict == IF path \in DOMAIN files THEN StreamAndCollect(files[path]) ELSE "parse_fail"
  IN /\ phase[c] = "streaming"
     /\ UNCHANGED <<files, request, rows, assets, busVars>>
     /\ IF verdict # "valid" THEN ParserFails(c, verdict) /\ UNCHANGED entity
        ELSE IF request[c].op = "calibrate" THEN Goto(c, "loading") /\ UNCHANGED entity
        ELSE IF ~request[c].named THEN Finish(c, "invalid_schema") /\ UNCHANGED entity
        ELSE /\ entity' = [entity EXCEPT ![c] = Reconstructed(request[c], files[path])]
             /\ Goto(c, "saving")

Put(table, id, row) ==
  [x \in DOMAIN table \cup {id} |-> IF x = id THEN row ELSE table[x]]

\* What save does of an entity, and what becomes of the call when it did not raise: a
\* rate the validation refuses, one the column has no room for, a transaction that fails,
\* and one that is committed although an error is reported.
SaveBaseline(c, id, onSaved) ==
  LET refused == entity[c].rate \notin 0 .. MaxRate
      tooWide == entity[c].rate >= ColumnRoom
  IN \/ refused /\ Finish(c, "invalid_input") /\ UNCHANGED rows
     \/ ~refused /\ ~tooWide /\ rows' = Put(rows, id, entity[c]) /\ onSaved
     \/ /\ ~refused /\ Finish(c, "internal_error")
        /\ rows' \in {rows} \cup (IF tooWide THEN {} ELSE {Put(rows, id, entity[c])})

\* A baseline over the tolerance is saved too, and the caller is told it failed.
SaveReconstruction(c) ==
  /\ phase[c] = "saving" /\ request[c].op = "reconstruct"
  /\ SaveBaseline(c, c, IF entity[c].status = "COMPLETED" THEN Goto(c, "publishing")
                        ELSE Finish(c, "over_limit"))
  /\ UNCHANGED <<files, request, entity, assets, busVars>>

PublishEvent(c) ==
  /\ phase[c] = "publishing"
  /\ Publish(c)
  /\ Goto(c, "telling")
  /\ UNCHANGED <<files, request, entity, rows, assets>>

TellHandler(c) ==
  /\ \E h \in Handlers : SafeDispatch(c, h)
  /\ UNCHANGED <<files, request, phase, entity, answer, rows, assets>>

AllTold(c) ==
  /\ phase[c] = "telling" /\ due[c] = {}
  /\ Finish(c, "ok")
  /\ UNCHANGED <<files, request, entity, rows, assets, busVars>>

\* Mutant: the log of a reconstruction that failed is kept for another try.
CleanUp_OnSuccess(c) ==
  /\ phase[c] = "cleaning"
  /\ files' = IF answer[c] = "ok"
                THEN [p \in DOMAIN files \ {request[c].path} |-> files[p]] ELSE files
  /\ phase' = [phase EXCEPT ![c] = "over"]
  /\ UNCHANGED <<request, entity, answer, rows, assets, busVars>>

\* The answer leaves when the log is removed, whatever the answer is.
CleanUp(c) ==
  /\ phase[c] = "cleaning"
  /\ files' = [p \in DOMAIN files \ {request[c].path} |-> files[p]]
  /\ phase' = [phase EXCEPT ![c] = "over"]
  /\ UNCHANGED <<request, entity, answer, rows, assets, busVars>>

\* Removing it fails, which is only logged.
CleanUpFails(c) ==
  /\ phase[c] = "cleaning"
  /\ phase' = [phase EXCEPT ![c] = "kept"]
  /\ UNCHANGED <<files, request, entity, answer, rows, assets, busVars>>

Fit(c, r, row) ==
  /\ entity' = [entity EXCEPT ![c] = Calibrated(row, r)]
  /\ phase' = [phase EXCEPT ![c] = "saving"]
  /\ answer' = [answer EXCEPT ![c] =
       IF FittedError(row.rate, r.target, r.rounds) <= r.target THEN "converged" ELSE "not_converged"]

\* Mutant: the baseline is found by its identifier alone.
LoadBaseline_AnyCompany(c) ==
  LET id == request[c].id
  IN /\ phase[c] = "loading"
     /\ \/ id \in DOMAIN rows /\ Fit(c, request[c], rows[id])
        \/ id \notin DOMAIN rows /\ Finish(c, "not_found") /\ UNCHANGED entity
     /\ UNCHANGED <<files, request, rows, assets, busVars>>

\* One session reads the row, and the parameters are fitted.  The caller will be answered
\* the fitted rate, which the row does not get.  Or the database fails.
LoadBaseline(c) ==
  LET id == request[c].id
      r  == request[c]
      found == id \in DOMAIN rows /\ rows[id].company = r.company
  IN /\ phase[c] = "loading"
     /\ \/ found /\ Fit(c, r, rows[id])
        \/ ~found /\ Finish(c, "not_found") /\ UNCHANGED entity
        \/ Finish(c, "internal_error") /\ UNCHANGED entity
     /\ UNCHANGED <<files, request, rows, assets, busVars>>

\* Another session writes the whole row.  The log stays where it is.
SaveCalibration(c) ==
  /\ phase[c] = "saving" /\ request[c].op = "calibrate"
  /\ SaveBaseline(c, request[c].id, Finish(c, answer[c]))
  /\ UNCHANGED <<files, request, entity, assets, busVars>>

--------------------------------------------------------------------------------
(* Layouts and assets.                                                     *)

\* The row has no assets placed in it, so the layout has no hot spots.
ToRenderDto(row) == [company |-> row.company, rate |-> row.rate, status |-> row.status,
                     mappings |-> {}]

GetLayout(c) ==
  LET id == request[c].id
      found == id \in DOMAIN rows /\ rows[id].company = request[c].company
  IN /\ phase[c] = "reading"
     /\ \/ found /\ entity' = [entity EXCEPT ![c] = ToRenderDto(rows[id])] /\ Finish(c, "ok")
        \/ ~found /\ Finish(c, "not_found") /\ UNCHANGED entity
        \/ Finish(c, "internal_error") /\ UNCHANGED entity
     /\ UNCHANGED <<files, request, rows, assets, busVars>>

AssetTypes == {"ROBOT", "AMR", "HUMANOID", "CNC", "INJECTION_MOLDING", "CONVEYOR", "SENSOR"}

\* The entity asks for its own two keys of the kinematics.
Asset(a) ==
  /\ a.type \in AssetTypes
  /\ {"degrees_of_freedom", "dh_parameters"} \subseteq a.kinematics

\* The adapter asks for two others.
ValidateKinematicsJson(a) == {"dof", "joints"} \subseteq a.kinematics

RegisterAsset(c) ==
  LET a == request[c].asset
      verdict == FirstFailure(<< <<Asset(a), "invalid_schema">>,
                                 <<ValidateKinematicsJson(a), "invalid_schema">> >>)
      stored == [company |-> request[c].company, kinematics |-> a.kinematics,
                 submodels |-> a.submodels]
  IN /\ phase[c] = "validating"
     /\ \/ verdict # "valid" /\ Finish(c, verdict) /\ UNCHANGED assets
        \/ verdict = "valid" /\ assets' = Put(assets, c, stored) /\ Finish(c, "ok")
        \/ verdict = "valid" /\ assets' \in {assets, Put(assets, c, stored)}
             /\ Finish(c, "internal_error")
     /\ UNCHANGED <<files, request, entity, rows, busVars>>

\* Without the file beside the row what is left is its kinematics.
ReadAasSubmodelPayload(asset) == {asset.submodels, "kinematics"}

GetAsset(c) ==
  LET id == request[c].id
      found == id \in DOMAIN assets /\ assets[id].company = request[c].company
  IN /\ phase[c] = "looking"
     /\ \/ found /\ Finish(c, "ok")
           /\ \E payload \in ReadAasSubmodelPayload(assets[id]) :
                entity' = [entity EXCEPT ![c] = [company |-> assets[id].company,
                                                 submodels |-> payload]]
        \/ ~found /\ Finish(c, "not_found") /\ UNCHANGED entity
        \/ Finish(c, "internal_error") /\ UNCHANGED entity
     /\ UNCHANGED <<files, request, rows, assets, busVars>>

--------------------------------------------------------------------------------

Init ==
  /\ files \in [Paths -> Logs]
  /\ request = [c \in Callers |-> NoRequest]
  /\ phase = [c \in Callers |-> "new"]
  /\ entity = [c \in Callers |-> None]
  /\ answer = [c \in Callers |-> None]
  /\ rows = Stored
  /\ assets = <<>>
  /\ BusInit

\* A thread that serves a call goes on with it.
Step(c) ==
  \/ CheckLog(c) \/ StreamLog(c) \/ SaveReconstruction(c) \/ PublishEvent(c)
  \/ TellHandler(c) \/ AllTold(c) \/ CleanUp(c) \/ CleanUpFails(c)
  \/ LoadBaseline(c) \/ SaveCalibration(c) \/ GetLayout(c)
  \/ RegisterAsset(c) \/ GetAsset(c)

\* Other parts of the process come and go on the bus.
OthersOnTheBus ==
  /\ \E h \in Handlers : Subscribe(h) \/ Unsubscribe(h)
  /\ UNCHANGED <<files, request, phase, entity, answer, rows, assets>>

Next == (\E c \in Callers : Enter(c) \/ Step(c)) \/ OthersOnTheBus

\* Threads run, and handlers, the file system and the database answer in the end.
Spec == Init /\ [][Next]_vars /\ \A c \in Callers : WF_vars(Step(c))

--------------------------------------------------------------------------------

Asks(c, op) == request[c] # NoRequest /\ request[c].op = op
Answered(c) == phase[c] \in {"over", "kept"}

\* What a reconstruction is answered is so: the baseline of one that succeeded is in the
\* table, its company's, and every handler subscribed when it was published has been called
\* with it, whatever the others did; the baseline of one over the tolerance is in the table
\* and nobody was told; and what anybody was told is in the table.
ReconstructionsHold ==
  \A c \in Callers :
    /\ Asks(c, "reconstruct") /\ Answered(c) =>
         /\ answer[c] = "ok" => c \in DOMAIN rows /\ Delivered(c)
         /\ answer[c] = "over_limit" => c \in DOMAIN rows /\ addressed[c] = {}
    /\ addressed[c] # {} => c \in DOMAIN rows
    /\ c \in DOMAIN rows => rows[c].company = request[c].company

\* A row in the table is consistent whatever calls it went through: its rate is the one of
\* its own summary and fits its column, and a row that counts as completed is within the
\* five percent that a reconstruction allows and a calibration may ask for at most.
RowsAreSound == \A id \in DOMAIN rows : Consistent(rows[id])

\* Companies do not meet: a row changes only by a calibration its own company asked for,
\* also when it is written in another session than it was read in, and what a caller is
\* shown of a baseline or an asset is its own company's.
OwnRowsOnly ==
  [][/\ \A id \in DOMAIN rows : rows'[id] # rows[id] =>
          \E c \in Callers : /\ Asks(c, "calibrate") /\ phase[c] = "saving"
                             /\ request[c].id = id
                             /\ request[c].company = rows[id].company
     /\ \A c \in Callers :
          /\ Asks(c, "layout") \/ Asks(c, "asset")
          /\ answer[c] # "ok" /\ answer'[c] = "ok"
          => entity'[c].company = request[c].company]_vars

\* However a reconstruction ends that the guards let through, the log it was given is removed
\* in the end, unless removing it is what fails.
LogsCleaned ==
  \A c \in Callers :
    Asks(c, "reconstruct") /\ phase[c] = "checking"
      ~> phase[c] = "kept" \/ (Asks(c, "reconstruct") /\ request[c].path \notin DOMAIN files)

================================================================================
