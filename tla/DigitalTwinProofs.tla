--------------------------- MODULE DigitalTwinProofs ---------------------------
(***************************************************************************)
(* Proofs about the digital twin: the frames of a log of any length, the   *)
(* calls of TwinReconstruction for any callers, requests, logs and earlier *)
(* baselines, and the store its assets are kept in, AssetStore, for any    *)
(* number of threads and of saves.                                         *)
(***************************************************************************)
EXTENDS TwinReconstruction, AssetStore, SequenceTheorems, TLAPS

--------------------------------------------------------------------------------
(* The frames of a log.                                                    *)

\* The grid reaches to the end of the log, to half a period.
LEMMA GridEnds ==
  ASSUME NEW d \in Nat, d > 0
  PROVE  /\ SampleCount(d) \in Nat \ {0}
         /\ 2 * (Period * (SampleCount(d) - 1) - d) \in -Period .. Period
<1>1. Period = 3
  BY PeriodAssumption
<1>2. SampleCount(d) = (2 * d + 8) \div 6
  BY <1>1 DEF SampleCount
<1>3. /\ (2 * d + 8) \div 6 \in Int
      /\ 6 * ((2 * d + 8) \div 6) <= 2 * d + 8
      /\ 2 * d + 2 < 6 * ((2 * d + 8) \div 6)
  OBVIOUS
<1> QED
  BY <1>1, <1>2, <1>3

LEMMA FunctionIsSeq ==
  ASSUME NEW S, NEW n \in Nat, NEW f \in [1 .. n -> S]
  PROVE  f \in Seq(S) /\ Len(f) = n /\ DOMAIN f = 1 .. n
BY SeqDef, LenProperties

\* The frames of a log whose clock advances and never goes back keep its time: each frame
\* shows the arm as it was within half a sampling period of its timestamp, and the last is
\* at the end of the log, although the frame builder never looks at the times of the series.
\* The code does not check the premise about the clock.
THEOREM FramesAlwaysKeepTime ==
  ASSUME NEW times \in Seq(Int), Advances(times), NeverGoesBack(times)
  PROVE  FramesKeepTime(times)
<1> DEFINE d == Duration(times)
           n == SampleCount(d)
           At(i) == Period * (i - 1)
           grid == [i \in 1 .. n |-> At(i)]
           seen == [i \in 1 .. n |-> IF At(i) <= d THEN At(i) ELSE d]
           series == [time |-> grid, moment |-> seen]
           frames == BuildFrames(series)
<1>1. d \in Nat /\ d > 0
  BY LenProperties, ElementOfSeq DEF Advances, Duration
<1>2. n \in Nat \ {0} /\ 2 * (Period * (n - 1) - d) \in -Period .. Period
  BY <1>1, GridEnds
<1>3. series = [time |-> grid, moment |-> seen]
  OBVIOUS
<1>10. ResampleSeries(times) = {series}
  BY DEF ResampleSeries
<1>4. Len(grid) = n /\ Len(seen) = n
  <2>1. grid \in [1 .. n -> Int] /\ seen \in [1 .. n -> Int]
    BY <1>1, <1>2, PeriodAssumption
  <2> QED
    BY <2>1, <1>2, FunctionIsSeq
<1>5. frames = [i \in 1 .. n |-> [timestamp |-> At(i), pose |-> seen[i]]]
  <2>1. AlignTimeIndices(Len(series.time)) = [i \in 1 .. n |-> At(i)]
    <3>1. Len(series.time) = n
      <4> HIDE DEF n, grid, seen, series
      <4> QED
        BY <1>3, <1>4
    <3>2. AlignTimeIndices(n) = [i \in 1 .. n |-> At(i)]
      BY DEF AlignTimeIndices
    <3> HIDE DEF n, At, series
    <3> QED
      BY <3>1, <3>2
  <2>2. ComputeFk(series) = seen
    BY <1>3 DEF ComputeFk
  <2>3. frames = [i \in DOMAIN AlignTimeIndices(Len(series.time)) |->
                   [timestamp |-> AlignTimeIndices(Len(series.time))[i],
                    pose |-> ComputeFk(series)[i]]]
    BY DEF BuildFrames
  <2> HIDE DEF n, At, seen, series, frames
  <2> QED
    BY <2>1, <2>2, <2>3
<1>6. Len(frames) = n
  <2>1. \A i \in 1 .. n : At(i) \in Int /\ seen[i] \in Int
    BY <1>1, <1>2, PeriodAssumption
  <2>2. frames \in [1 .. n -> [timestamp : Int, pose : Int]]
    <3> HIDE DEF At, seen, frames, n
    <3> QED
      BY <1>5, <2>1
  <2> QED
    BY <2>2, <1>2, FunctionIsSeq
<1>7. ValidateSeriesIntegrity(series) /\ ValidateFrameInputs(series, ComputeFk(series))
  BY <1>2, <1>3, <1>4 DEF ValidateSeriesIntegrity, ValidateFrameInputs, ComputeFk
<1>8. ASSUME NEW i \in 1 .. n
      PROVE  2 * (At(i) - seen[i]) \in -Period .. Period
  <2>1. At(i) = 3 * (i - 1) /\ i \in Int
    BY <1>2, PeriodAssumption
  <2>2. seen[i] = IF At(i) <= d THEN At(i) ELSE d
    OBVIOUS
  <2>3. 2 * (3 * (n - 1) - d) <= 3 /\ i <= n /\ n \in Nat
    BY <1>2, PeriodAssumption
  <2> HIDE DEF At, seen, n, d
  <2> QED
    BY <1>1, <2>1, <2>2, <2>3, PeriodAssumption
<1> HIDE DEF d, n, At, grid, seen, series, frames
<1>9. /\ \A i \in DOMAIN frames : 2 * (frames[i].timestamp - frames[i].pose) \in -Period .. Period
      /\ 2 * (frames[Len(frames)].timestamp - d) \in -Period .. Period
  <2>1. n \in 1 .. n /\ At(n) = Period * (n - 1)
    BY <1>2 DEF At
  <2> QED
    BY <1>2, <1>5, <1>6, <1>8, <2>1
<1> QED
  BY <1>7, <1>9, <1>10 DEF FramesKeepTime, d, frames

--------------------------------------------------------------------------------
(* The answers of the parser.                                              *)

LEMMA MinOfFive ==
  ASSUME NEW S \in SUBSET (1 .. 5), S # {}
  PROVE  Min(S) \in S
<1>1. \E x \in S : \A y \in S : x <= y
  <2>1. CASE 1 \in S
    BY <2>1
  <2>2. CASE 1 \notin S /\ 2 \in S
    BY <2>2
  <2>3. CASE 1 \notin S /\ 2 \notin S /\ 3 \in S
    BY <2>3
  <2>4. CASE 1 \notin S /\ 2 \notin S /\ 3 \notin S /\ 4 \in S
    BY <2>4
  <2>5. CASE 1 \notin S /\ 2 \notin S /\ 3 \notin S /\ 4 \notin S
    <3>1. \A y \in S : y = 5
      BY <2>5
    <3>2. 5 \in S
      BY <3>1
    <3> QED
      BY <3>1, <3>2
  <2> QED
    BY <2>1, <2>2, <2>3, <2>4, <2>5
<1> QED
  BY <1>1 DEF Min

LEMMA FirstFailureIsOne ==
  ASSUME NEW checks, DOMAIN checks \subseteq 1 .. 5
  PROVE  FirstFailure(checks) = "valid" \/ \E i \in DOMAIN checks : FirstFailure(checks) = checks[i][2]
BY MinOfFive DEF FirstFailure

\* A check of a log never says what a reconstruction that got to the table says.
LEMMA Verdicts ==
  ASSUME NEW log
  PROVE  /\ ValidateAndResolve(log) \notin {"ok", "over_limit"}
         /\ StreamAndCollect(log) \notin {"ok", "over_limit"}
BY FirstFailureIsOne DEF ValidateAndResolve, StreamAndCollect

--------------------------------------------------------------------------------
(* The invariant.  CallInv(c) says of one call which operation can be      *)
(* where, what is about to be saved, when its baseline is in the table,    *)
(* and who has been told.                                                  *)

Phases == {"new", "checking", "reading", "validating", "looking", "streaming", "saving",
           "publishing", "telling", "loading", "cleaning", "over", "kept"}

Shaped(base) == DOMAIN base = {"company", "rate", "status", "summary"}

Types ==
  /\ phase \in [Callers -> Phases]
  /\ request = [c \in Callers |-> request[c]]
  /\ entity = [c \in Callers |-> entity[c]]
  /\ answer = [c \in Callers |-> answer[c]]
  /\ due = [c \in Callers |-> due[c]]
  /\ addressed = [c \in Callers |-> addressed[c]]
  /\ called = [c \in Callers |-> called[c]]

Place(c) ==
  /\ phase[c] # "new" => request[c] \in Calls[c]
  /\ phase[c] \in {"checking", "streaming", "saving"} => request[c].op \in {"reconstruct", "calibrate"}
  /\ phase[c] \in {"publishing", "telling", "cleaning", "kept"} => request[c].op = "reconstruct"
  /\ phase[c] = "loading" => request[c].op = "calibrate"
  /\ phase[c] = "reading" => request[c].op = "layout"
  /\ phase[c] = "validating" => request[c].op = "register"
  /\ phase[c] = "looking" => request[c].op = "asset"

\* A row that fits once the width of its column has been looked at.
Prepared(base) ==
  /\ Shaped(base)
  /\ base.rate = CalculatePrecision(base.summary, DefaultTolerance).rate
  /\ base.status = "COMPLETED" /\ base.rate \in Int => base.rate <= DefaultTolerance

Saving(c) == phase[c] = "saving" =>
  /\ Prepared(entity[c])
  /\ entity[c].company = request[c].company
  /\ request[c].op = "calibrate" =>
       /\ request[c].id \in DOMAIN rows
       /\ rows[request[c].id].company = request[c].company

Owned(c) ==
  /\ phase[c] \in {"publishing", "telling"} => c \in DOMAIN rows
  /\ c \in DOMAIN rows =>
       /\ rows[c].company = request[c].company
       /\ request[c].op = "reconstruct"
       /\ phase[c] \in {"publishing", "telling", "cleaning", "over", "kept"}

Told(c) ==
  /\ called[c] = addressed[c] \ due[c] /\ due[c] \subseteq addressed[c]
  /\ addressed[c] # {} => c \in DOMAIN rows /\ phase[c] \in {"telling", "cleaning", "over", "kept"}

Answer(c) ==
  request[c].op = "reconstruct" /\ phase[c] \in {"cleaning", "over", "kept"} =>
    /\ answer[c] = "ok" => c \in DOMAIN rows /\ due[c] = {}
    /\ answer[c] = "over_limit" => c \in DOMAIN rows /\ addressed[c] = {}

CallInv(c) == Place(c) /\ Saving(c) /\ Owned(c) /\ Told(c) /\ Answer(c)

Table == \A id \in DOMAIN rows : Shaped(rows[id]) /\ Consistent(rows[id])

IInv == Types /\ Table /\ \A c \in Callers : CallInv(c)

--------------------------------------------------------------------------------
(* What a step of one call leaves to the others.                           *)

\* What belongs to d stays.
Same(d) == /\ phase'[d] = phase[d] /\ request'[d] = request[d] /\ entity'[d] = entity[d]
           /\ answer'[d] = answer[d] /\ due'[d] = due[d] /\ addressed'[d] = addressed[d]
           /\ called'[d] = called[d]

\* A step of c adds at most the baseline of c, and no row changes hands.
Grows(c) == /\ DOMAIN rows \subseteq DOMAIN rows'
            /\ DOMAIN rows' \subseteq DOMAIN rows \cup {c}
            /\ \A id \in DOMAIN rows : rows'[id].company = rows[id].company

LEMMA Others ==
  ASSUME NEW c \in Callers, NEW d \in Callers \ {c}, CallInv(d), Same(d), Grows(c)
  PROVE  CallInv(d)'
<1>1. Place(d)' /\ Told(d)' /\ Answer(d)'
  BY DEF CallInv, Place, Told, Answer, Same, Grows
<1>2. Saving(d)'
  BY DEF CallInv, Saving, Prepared, Shaped, CalculatePrecision, Same, Grows
<1>3. Owned(d)'
  BY DEF CallInv, Owned, Same, Grows
<1> QED
  BY <1>1, <1>2, <1>3 DEF CallInv

\* A step of c that keeps the types, the table and c's own part keeps the invariant.
LEMMA Own ==
  ASSUME IInv, NEW c \in Callers, Types', Table', CallInv(c)', Grows(c),
         \A d \in Callers \ {c} : Same(d)
  PROVE  IInv'
BY Others DEF IInv

\* A row of the table keeps to itself what a save puts beside it.
LEMMA Saved ==
  ASSUME Table, NEW c \in Callers, CallInv(c), phase[c] = "saving",
         NEW id, id = (IF request[c].op = "calibrate" THEN request[c].id ELSE c),
         entity[c].rate \in 0 .. ColumnRoom - 1, rows' = Put(rows, id, entity[c])
  PROVE  Table' /\ Grows(c) /\ id \in DOMAIN rows' /\ rows'[id] = entity[c]
         /\ \A x \in DOMAIN rows \ {id} : rows'[x] = rows[x]
<1>1. /\ DOMAIN rows' = {id} \cup DOMAIN rows
      /\ rows'[id] = entity[c]
      /\ \A x \in DOMAIN rows \ {id} : rows'[x] = rows[x]
  BY DEF Put
<1>2. Shaped(entity[c]) /\ Consistent(entity[c])
  BY DEF CallInv, Saving, Prepared, Consistent
<1>3. Table'
  <2> SUFFICES ASSUME NEW x \in DOMAIN rows'
               PROVE  Shaped(rows'[x]) /\ Consistent(rows'[x])
    BY Zenon DEF Table
  <2>1. CASE x = id
    BY <1>1, <1>2, <2>1
  <2>2. CASE x # id
    BY <1>1, <2>2 DEF Table
  <2> QED
    BY <2>1, <2>2
<1>4. id \in DOMAIN rows => rows[id].company = entity[c].company
  BY DEF CallInv, Saving, Owned, Place
<1>5. DOMAIN rows' \subseteq DOMAIN rows \cup {c}
  BY <1>1 DEF CallInv, Saving, Place
<1> QED
  BY <1>1, <1>3, <1>4, <1>5 DEF Grows

--------------------------------------------------------------------------------
(* One lemma per action.                                                   *)

LEMMA SameRows ==
  ASSUME Table, UNCHANGED rows, NEW c \in Callers
  PROVE  Table' /\ Grows(c)
BY DEF Table, Grows

LEMMA EnterStep ==
  ASSUME IInv, NEW c \in Callers, Enter(c)
  PROVE  IInv'
<1> USE DEF IInv, Types, Enter, Goto, busVars
<1>1. PICK r \in Calls[c] :
        /\ request' = [request EXCEPT ![c] = r]
        /\ \/ Goto(c, Entry[r.op])
           \/ \E a \in {"forbidden", "invalid_input"} :
                /\ phase' = [phase EXCEPT ![c] = "over"]
                /\ answer' = [answer EXCEPT ![c] = a]
  BY DEF Refuse
<1>2. /\ r.op \in {"reconstruct", "calibrate", "layout", "register", "asset"}
      /\ Entry[r.op] = CASE r.op = "layout" -> "reading" [] r.op = "register" -> "validating"
                         [] r.op = "asset" -> "looking" [] OTHER -> "checking"
  BY RequestsAssumption DEF Entry
<1>3. Entry[r.op] \in Phases
  BY <1>2 DEF Phases
<1>4. Types'
  BY <1>1, <1>3 DEF Phases
<1>5. \A d \in Callers \ {c} : Same(d)
  BY <1>1 DEF Same
<1>6. Table' /\ Grows(c)
  BY SameRows
<1>7. phase'[c] \in {Entry[r.op], "over"} /\ request'[c] = r
      /\ (phase'[c] = "over" => answer'[c] \in {"forbidden", "invalid_input"})
  BY <1>1, <1>2
<1>8. c \notin DOMAIN rows /\ addressed[c] = {} /\ called[c] = {} /\ due[c] = {}
  BY DEF CallInv, Owned, Told
<1>9. CallInv(c)'
  BY <1>2, <1>7, <1>8 DEF CallInv, Place, Saving, Owned, Told, Answer
<1> QED
  BY <1>4, <1>5, <1>6, <1>9, Own

\* A call that gets on or is answered and leaves the table, the bus and its entity.
LEMMA CheckLogStep ==
  ASSUME IInv, NEW c \in Callers, CheckLog(c)
  PROVE  IInv'
<1> USE DEF IInv, Types, Goto, Finish, busVars
<1>1. PICK verdict :
        /\ verdict \notin {"ok", "over_limit"}
        /\ Goto(c, "streaming") \/ ParserFails(c, verdict)
  BY Verdicts DEF CheckLog
<1>2. phase[c] = "checking" /\ UNCHANGED <<files, request, entity, rows, assets, busVars>>
  BY DEF CheckLog
<1>3. phase'[c] \in {"streaming", "cleaning", "over"}
      /\ (phase'[c] = "cleaning" => request[c].op = "reconstruct")
      /\ (phase'[c] # "streaming" /\ request[c].op = "reconstruct" => answer'[c] = verdict)
  BY <1>1, <1>2 DEF ParserFails
<1>4. Types'
  BY <1>1, <1>2 DEF Phases, ParserFails
<1>5. \A d \in Callers \ {c} : Same(d)
  BY <1>1, <1>2 DEF Same, ParserFails
<1>6. Table' /\ Grows(c)
  BY <1>2, SameRows
<1>7. CallInv(c)'
  BY <1>1, <1>2, <1>3 DEF CallInv, Place, Saving, Owned, Told, Answer
<1> QED
  BY <1>4, <1>5, <1>6, <1>7, Own

LEMMA StreamLogStep ==
  ASSUME IInv, NEW c \in Callers, StreamLog(c)
  PROVE  IInv'
<1> USE DEF IInv, Types, Goto, Finish, busVars
<1>1. phase[c] = "streaming" /\ UNCHANGED <<files, request, rows, assets, busVars>>
  BY DEF StreamLog
<1>2. \/ \E verdict : /\ verdict \notin {"ok", "over_limit"}
                      /\ ParserFails(c, verdict) /\ UNCHANGED entity
      \/ request[c].op = "calibrate" /\ Goto(c, "loading") /\ UNCHANGED entity
      \/ Finish(c, "invalid_schema") /\ UNCHANGED entity
      \/ /\ request[c].op = "reconstruct"
         /\ entity' = [entity EXCEPT ![c] = Reconstructed(request[c], files[request[c].path])]
         /\ Goto(c, "saving")
  BY Verdicts DEF StreamLog, CallInv, Place
<1>3. /\ phase'[c] \in {"loading", "saving", "cleaning", "over"}
      /\ phase'[c] = "loading" => request[c].op = "calibrate"
      /\ phase'[c] = "cleaning" => request[c].op = "reconstruct"
      /\ phase'[c] \in {"cleaning", "over"} /\ request[c].op = "reconstruct" =>
           answer'[c] \notin {"ok", "over_limit"}
      /\ phase'[c] = "saving" =>
           /\ request[c].op = "reconstruct"
           /\ entity'[c] = Reconstructed(request[c], files[request[c].path])
  BY <1>1, <1>2 DEF ParserFails
<1>4. Types'
  BY <1>1, <1>2 DEF Phases, ParserFails
<1>5. \A d \in Callers \ {c} : Same(d)
  BY <1>1, <1>2 DEF Same, ParserFails
<1>6. Table' /\ Grows(c)
  BY <1>1, SameRows
<1>7. Prepared(Reconstructed(request[c], files[request[c].path]))
      /\ Reconstructed(request[c], files[request[c].path]).company = request[c].company
  BY DEF Prepared, Shaped, Reconstructed, CalculatePrecision, DefaultTolerance
<1>8. Saving(c)'
  BY <1>1, <1>3, <1>7 DEF Saving, Prepared, Shaped, CalculatePrecision
<1>9. CallInv(c)'
  BY <1>1, <1>3, <1>8 DEF CallInv, Place, Owned, Told, Answer
<1> QED
  BY <1>4, <1>5, <1>6, <1>9, Own

\* What a save does to the table.
LEMMA Room ==
  ASSUME NEW rate, rate \in 0 .. MaxRate, ~(rate >= ColumnRoom)
  PROVE  rate \in 0 .. ColumnRoom - 1
<1>1. MaxRate \in Int /\ ColumnRoom \in Int
  BY DEF MaxRate, ColumnRoom
<1> QED
  BY <1>1

LEMMA SaveReconstructionStep ==
  ASSUME IInv, NEW c \in Callers, SaveReconstruction(c)
  PROVE  IInv'
<1> USE DEF IInv, Types, Goto, Finish, busVars
<1>1. /\ phase[c] = "saving" /\ request[c].op = "reconstruct"
      /\ UNCHANGED <<files, request, entity, assets, busVars>>
  BY DEF SaveReconstruction
<1>2. \/ UNCHANGED rows /\ (Finish(c, "invalid_input") \/ Finish(c, "internal_error"))
      \/ /\ entity[c].rate \in 0 .. ColumnRoom - 1 /\ rows' = Put(rows, c, entity[c])
         /\ \/ Finish(c, "internal_error")
            \/ IF entity[c].status = "COMPLETED" THEN Goto(c, "publishing") ELSE Finish(c, "over_limit")
  <2> HIDE DEF IInv, Types, Goto, Finish, busVars
  <2>1. \/ UNCHANGED rows /\ (Finish(c, "invalid_input") \/ Finish(c, "internal_error"))
        \/ /\ entity[c].rate \in 0 .. MaxRate /\ ~(entity[c].rate >= ColumnRoom)
           /\ rows' = Put(rows, c, entity[c])
           /\ \/ Finish(c, "internal_error")
              \/ IF entity[c].status = "COMPLETED" THEN Goto(c, "publishing") ELSE Finish(c, "over_limit")
    BY Zenon DEF SaveReconstruction, SaveBaseline
  <2> QED
    BY <2>1, Room
<1>3. Table' /\ Grows(c) /\ (UNCHANGED rows \/ (c \in DOMAIN rows' /\ rows'[c] = entity[c]))
  <2>1. CASE UNCHANGED rows
    BY <2>1, SameRows
  <2>2. CASE entity[c].rate \in 0 .. ColumnRoom - 1 /\ rows' = Put(rows, c, entity[c])
    BY <1>1, <2>2, Saved
  <2> QED
    BY <1>2, <2>1, <2>2
<1>4. \/ /\ phase'[c] = "cleaning" /\ answer'[c] \in {"invalid_input", "internal_error"}
         /\ UNCHANGED rows
      \/ /\ phase'[c] \in {"publishing", "cleaning"}
         /\ phase'[c] = "cleaning" => answer'[c] \in {"internal_error", "over_limit"}
         /\ c \in DOMAIN rows' /\ rows'[c] = entity[c]
  <2>1. entity[c].rate \in 0 .. ColumnRoom - 1 /\ rows' = Put(rows, c, entity[c])
        => c \in DOMAIN rows' /\ rows'[c] = entity[c]
    BY DEF Put
  <2> QED
    BY <1>1, <1>2, <2>1
<1>5. Types'
  BY <1>1, <1>2 DEF Phases
<1>6. \A d \in Callers \ {c} : Same(d)
  BY <1>1, <1>2 DEF Same
<1>7. addressed[c] = {} /\ c \notin DOMAIN rows /\ entity[c].company = request[c].company
  BY <1>1 DEF CallInv, Told, Owned, Saving
<1>8. CallInv(c)'
  BY <1>1, <1>4, <1>7 DEF CallInv, Place, Saving, Owned, Told, Answer
<1> QED
  BY <1>3, <1>5, <1>6, <1>8, Own

LEMMA SaveCalibrationStep ==
  ASSUME IInv, NEW c \in Callers, SaveCalibration(c)
  PROVE  IInv'
<1> USE DEF IInv, Types, Goto, Finish, busVars
<1> DEFINE id == request[c].id
<1>1. /\ phase[c] = "saving" /\ request[c].op = "calibrate"
      /\ UNCHANGED <<files, request, entity, assets, busVars>>
  BY DEF SaveCalibration
<1>2. /\ \/ UNCHANGED rows
         \/ entity[c].rate \in 0 .. ColumnRoom - 1 /\ rows' = Put(rows, id, entity[c])
      /\ \/ Finish(c, "invalid_input") \/ Finish(c, "internal_error") \/ Finish(c, answer[c])
  <2> HIDE DEF IInv, Types, Goto, Finish, busVars, id
  <2>1. /\ \/ UNCHANGED rows
           \/ /\ entity[c].rate \in 0 .. MaxRate /\ ~(entity[c].rate >= ColumnRoom)
              /\ rows' = Put(rows, id, entity[c])
        /\ \/ Finish(c, "invalid_input") \/ Finish(c, "internal_error") \/ Finish(c, answer[c])
    BY Zenon DEF SaveCalibration, SaveBaseline, id
  <2> QED
    BY <2>1, Room
<1>3. Table' /\ Grows(c) /\ (UNCHANGED rows \/ \A x \in DOMAIN rows \ {id} : rows'[x] = rows[x])
  <2>1. CASE UNCHANGED rows
    BY <2>1, SameRows
  <2>2. CASE entity[c].rate \in 0 .. ColumnRoom - 1 /\ rows' = Put(rows, id, entity[c])
    BY <1>1, <2>2, Saved
  <2> QED
    BY <1>2, <2>1, <2>2
<1>4. phase'[c] = "over"
  BY <1>1, <1>2
<1>5. Types'
  BY <1>1, <1>2 DEF Phases
<1>6. \A d \in Callers \ {c} : Same(d)
  BY <1>1, <1>2 DEF Same
<1>7. addressed[c] = {} /\ c \notin DOMAIN rows
  BY <1>1 DEF CallInv, Told, Owned
<1>8. c \notin DOMAIN rows'
  <2>1. id \in DOMAIN rows
    BY <1>1 DEF CallInv, Saving
  <2> QED
    BY <1>2, <1>7, <2>1 DEF Put
<1>9. CallInv(c)'
  BY <1>1, <1>4, <1>7, <1>8 DEF CallInv, Place, Saving, Owned, Told, Answer
<1> QED
  BY <1>3, <1>5, <1>6, <1>9, Own

LEMMA PublishEventStep ==
  ASSUME IInv, NEW c \in Callers, PublishEvent(c)
  PROVE  IInv'
<1> USE DEF IInv, Types, Goto
<1>1. /\ phase[c] = "publishing" /\ Publish(c) /\ Goto(c, "telling")
      /\ UNCHANGED <<files, request, entity, rows, assets>>
  BY DEF PublishEvent
<1>2. c \in DOMAIN rows /\ addressed[c] = {} /\ called[c] = {}
  BY <1>1 DEF CallInv, Owned, Told
<1>3. Types'
  BY <1>1 DEF Phases, Publish
<1>4. \A d \in Callers \ {c} : Same(d)
  BY <1>1 DEF Same, Publish
<1>5. Table' /\ Grows(c)
  BY <1>1, SameRows
<1>6. /\ phase'[c] = "telling" /\ due'[c] = subscribers /\ addressed'[c] = subscribers
      /\ called'[c] = {}
  BY <1>1, <1>2 DEF Publish
<1>7. CallInv(c)'
  BY <1>1, <1>2, <1>6 DEF CallInv, Place, Saving, Owned, Told, Answer
<1> QED
  BY <1>3, <1>4, <1>5, <1>7, Own

LEMMA TellHandlerStep ==
  ASSUME IInv, NEW c \in Callers, TellHandler(c)
  PROVE  IInv'
<1> USE DEF IInv, Types
<1>1. PICK h \in Handlers : SafeDispatch(c, h)
  BY DEF TellHandler
<1>2. UNCHANGED <<files, request, phase, entity, answer, rows, assets, addressed>>
  BY <1>1 DEF TellHandler, SafeDispatch
<1>3. h \in due[c] /\ due'[c] = due[c] \ {h} /\ called'[c] = called[c] \cup {h}
  BY <1>1 DEF SafeDispatch
<1>4. Types'
  BY <1>1, <1>2 DEF SafeDispatch
<1>5. \A d \in Callers \ {c} : Same(d)
  BY <1>1, <1>2 DEF Same, SafeDispatch
<1>6. Table' /\ Grows(c)
  BY <1>2, SameRows
<1>7. CallInv(c)'
  BY <1>2, <1>3 DEF CallInv, Place, Saving, Prepared, Shaped, CalculatePrecision, Owned, Told, Answer
<1> QED
  BY <1>4, <1>5, <1>6, <1>7, Own

LEMMA AllToldStep ==
  ASSUME IInv, NEW c \in Callers, AllTold(c)
  PROVE  IInv'
<1> USE DEF IInv, Types, Finish, busVars
<1>1. /\ phase[c] = "telling" /\ due[c] = {} /\ Finish(c, "ok")
      /\ UNCHANGED <<files, request, entity, rows, assets, busVars>>
  BY DEF AllTold
<1>2. phase'[c] = "cleaning" /\ answer'[c] = "ok" /\ c \in DOMAIN rows
  BY <1>1 DEF CallInv, Place, Owned
<1>3. Types'
  BY <1>1 DEF Phases
<1>4. \A d \in Callers \ {c} : Same(d)
  BY <1>1 DEF Same
<1>5. Table' /\ Grows(c)
  BY <1>1, SameRows
<1>6. CallInv(c)'
  BY <1>1, <1>2 DEF CallInv, Place, Saving, Owned, Told, Answer
<1> QED
  BY <1>3, <1>4, <1>5, <1>6, Own

\* Whether the log could be removed or not.
LEMMA CleaningSteps ==
  ASSUME IInv, NEW c \in Callers, CleanUp(c) \/ CleanUpFails(c)
  PROVE  IInv'
<1> USE DEF IInv, Types, busVars
<1>1. /\ phase[c] = "cleaning"
      /\ phase' = [phase EXCEPT ![c] = "over"] \/ phase' = [phase EXCEPT ![c] = "kept"]
      /\ UNCHANGED <<request, entity, answer, rows, assets, busVars>>
  BY DEF CleanUp, CleanUpFails
<1>2. phase'[c] \in {"over", "kept"}
  BY <1>1
<1>3. Types'
  BY <1>1 DEF Phases
<1>4. \A d \in Callers \ {c} : Same(d)
  BY <1>1 DEF Same
<1>5. Table' /\ Grows(c)
  BY <1>1, SameRows
<1>6. CallInv(c)'
  BY <1>1, <1>2 DEF CallInv, Place, Saving, Owned, Told, Answer
<1> QED
  BY <1>3, <1>4, <1>5, <1>6, Own

\* The baseline that was read fits its column again, and is still its company's.
LEMMA CalibratedIsPrepared ==
  ASSUME NEW c \in Callers, NEW r \in Calls[c], r.op = "calibrate", NEW base, Shaped(base)
  PROVE  Prepared(Calibrated(base, r)) /\ Calibrated(base, r).company = base.company
<1> DEFINE summary == r.params @@ base.summary
           precision == CalculatePrecision(summary, r.target)
           fitted == Calibrated(base, r)
<1>1. /\ DOMAIN fitted = DOMAIN base
      /\ fitted.summary = summary /\ fitted.rate = precision.rate
      /\ fitted.status = precision.status /\ fitted.company = base.company
  <2> HIDE DEF precision
  <2> QED
    BY Zenon DEF Calibrated, Shaped, precision
<1>2. /\ precision.rate = CalculatePrecision(summary, DefaultTolerance).rate
      /\ precision.status = "COMPLETED" => ~(precision.rate > r.target)
  BY DEF CalculatePrecision
<1>3. r.target \in 0 .. DefaultTolerance /\ DefaultTolerance \in Int
  BY RequestsAssumption DEF DefaultTolerance
<1> HIDE DEF summary, precision, fitted
<1>4. fitted.status = "COMPLETED" /\ fitted.rate \in Int => fitted.rate <= DefaultTolerance
  BY <1>1, <1>2, <1>3
<1> QED
  BY <1>1, <1>2, <1>4 DEF Prepared, Shaped, summary, precision, fitted

LEMMA LoadBaselineStep ==
  ASSUME IInv, NEW c \in Callers, LoadBaseline(c)
  PROVE  IInv'
<1> USE DEF IInv, Types, Finish, busVars
<1> DEFINE r == request[c]
           base == rows[r.id]
<1>1. /\ phase[c] = "loading" /\ UNCHANGED <<files, request, rows, assets, busVars>>
      /\ r.op = "calibrate" /\ r \in Calls[c]
  BY DEF LoadBaseline, CallInv, Place
<1>2. \/ /\ r.id \in DOMAIN rows /\ base.company = r.company /\ Fit(c, r, base)
      \/ UNCHANGED entity /\ \E a : Finish(c, a)
  BY DEF LoadBaseline
<1>3. Types'
  BY <1>1, <1>2 DEF Phases, Fit
<1>4. \A d \in Callers \ {c} : Same(d)
  BY <1>1, <1>2 DEF Same, Fit
<1>5. Table' /\ Grows(c)
  BY <1>1, SameRows
<1>6. addressed[c] = {} /\ c \notin DOMAIN rows
  BY <1>1 DEF CallInv, Told, Owned
<1>7. CASE r.id \in DOMAIN rows /\ base.company = r.company /\ Fit(c, r, base)
  <2>1. phase'[c] = "saving" /\ entity'[c] = Calibrated(base, r)
    BY <1>7 DEF Fit
  <2>2. Prepared(Calibrated(base, r)) /\ Calibrated(base, r).company = base.company
    BY <1>1, <1>7, CalibratedIsPrepared DEF Table
  <2>3. Saving(c)'
    BY <1>1, <1>7, <2>1, <2>2 DEF Saving, Prepared, Shaped, CalculatePrecision
  <2>4. CallInv(c)'
    BY <1>1, <1>6, <2>1, <2>3 DEF CallInv, Place, Owned, Told, Answer
  <2> QED
    BY <1>3, <1>4, <1>5, <2>4, Own
<1>8. CASE UNCHANGED entity /\ \E a : Finish(c, a)
  <2>1. phase'[c] = "over"
    BY <1>1, <1>8
  <2>2. CallInv(c)'
    BY <1>1, <1>6, <2>1 DEF CallInv, Place, Saving, Owned, Told, Answer
  <2> QED
    BY <1>3, <1>4, <1>5, <2>2, Own
<1> QED
  BY <1>2, <1>7, <1>8

\* The calls that leave the baselines alone: what they show is not looked at here.
LEMMA ReadingSteps ==
  ASSUME IInv, NEW c \in Callers, GetLayout(c) \/ GetAsset(c) \/ RegisterAsset(c)
  PROVE  IInv'
<1> USE DEF IInv, Types, Finish, busVars
<1>1. /\ phase[c] \in {"reading", "looking", "validating"}
      /\ UNCHANGED <<files, request, rows, busVars>>
      /\ \E a : Finish(c, a)
      /\ \/ UNCHANGED entity
         \/ \E e : entity' = [entity EXCEPT ![c] = e]
  BY DEF GetLayout, GetAsset, RegisterAsset
<1>2. request[c].op \in {"layout", "asset", "register"}
  BY <1>1 DEF CallInv, Place
<1>3. phase'[c] = "over"
  BY <1>1, <1>2
<1>4. Types'
  BY <1>1, <1>2 DEF Phases
<1>5. \A d \in Callers \ {c} : Same(d)
  BY <1>1 DEF Same
<1>6. Table' /\ Grows(c)
  BY <1>1, SameRows
<1>7. CallInv(c)'
  BY <1>1, <1>2, <1>3 DEF CallInv, Place, Saving, Owned, Told, Answer
<1> QED
  BY <1>4, <1>5, <1>6, <1>7, Own

\* Also for a step of nothing.
LEMMA BusSteps ==
  ASSUME IInv, OthersOnTheBus \/ UNCHANGED vars
  PROVE  IInv'
<1>1. UNCHANGED <<request, phase, entity, answer, rows, due, addressed, called>>
  BY DEF OthersOnTheBus, Subscribe, Unsubscribe, vars, busVars
<1>2. Types' /\ Table'
  BY <1>1 DEF IInv, Types, Table
<1>3. \A c \in Callers : CallInv(c)'
  BY <1>1 DEF IInv, CallInv, Place, Saving, Owned, Told, Answer
<1> QED
  BY <1>2, <1>3 DEF IInv

--------------------------------------------------------------------------------
(* The theorems.                                                           *)

LEMMA InitIInv == Init => IInv
<1> SUFFICES ASSUME Init PROVE IInv
  OBVIOUS
<1>1. Types
  BY CallersAssumption DEF Init, Types, Phases, BusInit
<1>2. Table
  BY StoredAssumption DEF Init, Table, Shaped
<1>3. ASSUME NEW c \in Callers PROVE CallInv(c)
  <2>1. c \notin DOMAIN rows /\ phase[c] = "new" /\ due[c] = {} /\ addressed[c] = {} /\ called[c] = {}
    BY CallersAssumption DEF Init, BusInit
  <2> QED
    BY <2>1 DEF CallInv, Place, Saving, Owned, Told, Answer
<1> QED
  BY <1>1, <1>2, <1>3 DEF IInv

LEMMA NextIInv == IInv /\ [Next]_vars => IInv'
<1> SUFFICES ASSUME IInv, [Next]_vars PROVE IInv'
  OBVIOUS
<1>1. ASSUME NEW c \in Callers, Enter(c) PROVE IInv'
  BY <1>1, EnterStep
<1>2. ASSUME NEW c \in Callers, Step(c) PROVE IInv'
  BY <1>2, CheckLogStep, StreamLogStep, SaveReconstructionStep, PublishEventStep, TellHandlerStep,
     AllToldStep, CleaningSteps, LoadBaselineStep, SaveCalibrationStep, ReadingSteps DEF Step
<1>3. CASE OthersOnTheBus \/ UNCHANGED vars
  BY <1>3, BusSteps
<1> QED
  BY <1>1, <1>2, <1>3 DEF Next

\* What a caller's reconstruction is answered, what is in the table and who has been told
\* agree at every moment, however the calls interleave and whatever fails.
THEOREM ReconstructionsAlwaysHold == Spec => []ReconstructionsHold
<1>1. IInv => ReconstructionsHold
  <2> SUFFICES ASSUME IInv, NEW c \in Callers
               PROVE /\ Asks(c, "reconstruct") /\ Answered(c) =>
                          /\ answer[c] = "ok" => c \in DOMAIN rows /\ Delivered(c)
                          /\ answer[c] = "over_limit" => c \in DOMAIN rows /\ addressed[c] = {}
                     /\ addressed[c] # {} => c \in DOMAIN rows
                     /\ c \in DOMAIN rows => rows[c].company = request[c].company
    BY DEF ReconstructionsHold
  <2>1. Told(c) /\ Owned(c) /\ Answer(c)
    BY DEF IInv, CallInv
  <2>2. Asks(c, "reconstruct") /\ Answered(c) =>
          /\ answer[c] = "ok" => c \in DOMAIN rows /\ Delivered(c)
          /\ answer[c] = "over_limit" => c \in DOMAIN rows /\ addressed[c] = {}
    BY <2>1 DEF Answer, Told, Asks, Answered, Delivered
  <2> QED
    BY <2>1, <2>2 DEF Told, Owned
<1> QED
  BY InitIInv, NextIInv, <1>1, PTL DEF Spec

\* No sequence of reconstructions and calibrations, of any number of threads, leaves a row
\* whose rate is not the one of its summary, or one that is over its limit and completed.
THEOREM RowsStaySound == Spec => []RowsAreSound
<1>1. IInv => RowsAreSound
  BY DEF IInv, Table, RowsAreSound
<1> QED
  BY InitIInv, NextIInv, <1>1, PTL DEF Spec

--------------------------------------------------------------------------------
(* Companies.                                                              *)

OwnRows ==
  \A id \in DOMAIN rows : rows'[id] # rows[id] =>
    \E c \in Callers : /\ Asks(c, "calibrate") /\ phase[c] = "saving"
                       /\ request[c].id = id
                       /\ request[c].company = rows[id].company

OwnAnswers ==
  \A c \in Callers :
    /\ Asks(c, "layout") \/ Asks(c, "asset")
    /\ answer[c] # "ok" /\ answer'[c] = "ok"
    => entity'[c].company = request[c].company

\* Only the two saves write the table, and the one of a reconstruction adds a row.
LEMMA WriteOwnRows == IInv /\ [Next]_vars => OwnRows
<1> SUFFICES ASSUME IInv, [Next]_vars PROVE OwnRows
  OBVIOUS
<1>1. CASE UNCHANGED rows
  BY <1>1 DEF OwnRows
<1>2. ASSUME NEW c \in Callers, SaveReconstruction(c) PROVE OwnRows
  <2>1. c \notin DOMAIN rows
    BY <1>2 DEF IInv, CallInv, Owned, SaveReconstruction
  <2>2. UNCHANGED rows \/ rows' = Put(rows, c, entity[c])
    BY <1>2, Zenon DEF SaveReconstruction, SaveBaseline
  <2> QED
    BY <2>1, <2>2 DEF OwnRows, Put
<1>3. ASSUME NEW c \in Callers, SaveCalibration(c) PROVE OwnRows
  <2>1. /\ phase[c] = "saving" /\ request[c].op = "calibrate" /\ request[c] # NoRequest
        /\ request[c].id \in DOMAIN rows
        /\ rows[request[c].id].company = request[c].company
    BY <1>3, RequestsAssumption DEF IInv, CallInv, Saving, Place, SaveCalibration
  <2>2. UNCHANGED rows \/ rows' = Put(rows, request[c].id, entity[c])
    BY <1>3, Zenon DEF SaveCalibration, SaveBaseline
  <2> QED
    BY <2>1, <2>2 DEF OwnRows, Put, Asks
<1>4. CASE Next /\ ~(\E c \in Callers : SaveReconstruction(c) \/ SaveCalibration(c))
  <2>1. ASSUME NEW c \in Callers, Enter(c) \/ Step(c) PROVE UNCHANGED rows
    BY <1>4, <2>1 DEF Enter, Step, CheckLog, StreamLog, PublishEvent, TellHandler, AllTold, CleanUp,
       CleanUpFails, LoadBaseline, GetLayout, RegisterAsset, GetAsset
  <2>2. OthersOnTheBus => UNCHANGED rows
    BY DEF OthersOnTheBus
  <2> QED
    BY <1>1, <1>4, <2>1, <2>2 DEF Next
<1> QED
  BY <1>1, <1>2, <1>3, <1>4 DEF vars

\* Only the two reads answer a read with success, and both look at the company.
LEMMA ShowOwnRows == IInv /\ [Next]_vars => OwnAnswers
<1> SUFFICES ASSUME IInv, [Next]_vars, NEW d \in Callers,
                    Asks(d, "layout") \/ Asks(d, "asset"), answer[d] # "ok", answer'[d] = "ok"
             PROVE  entity'[d].company = request[d].company
  BY DEF OwnAnswers
<1>1. request[d].op \in {"layout", "asset"}
  BY DEF Asks
<1>2. answer = [e \in Callers |-> answer[e]] /\ entity = [e \in Callers |-> entity[e]] /\ Place(d)
  BY DEF IInv, Types, CallInv
<1>3. ASSUME NEW c \in Callers, Enter(c) \/ Step(c)
      PROVE  GetLayout(d) \/ GetAsset(d)
  <2>1. CASE c # d
    <3>1. \E a : answer' = [answer EXCEPT ![c] = a] \/ answer' = answer
      BY <1>3, Zenon DEF Enter, Refuse, Step, Goto, Finish, CheckLog, ParserFails, StreamLog, SaveReconstruction,
         SaveBaseline, PublishEvent, TellHandler, AllTold, CleanUp, CleanUpFails, LoadBaseline, Fit,
         SaveCalibration, GetLayout, RegisterAsset, GetAsset
    <3> QED
      BY <1>2, <2>1, <3>1
  <2>2. CASE c = d
    <3>1. ~(CheckLog(d) \/ StreamLog(d) \/ SaveReconstruction(d) \/ AllTold(d)
            \/ LoadBaseline(d) \/ SaveCalibration(d) \/ RegisterAsset(d))
      BY <1>1, <1>2 DEF Place, CheckLog, StreamLog, SaveReconstruction, AllTold, LoadBaseline,
         SaveCalibration, RegisterAsset
    <3>2. ~(PublishEvent(d) \/ TellHandler(d) \/ CleanUp(d) \/ CleanUpFails(d))
      BY DEF PublishEvent, Goto, TellHandler, CleanUp, CleanUpFails
    <3>3. ~Enter(d)
      BY <1>2 DEF Enter, Refuse, Goto
    <3> QED
      BY <1>3, <2>2, <3>1, <3>2, <3>3 DEF Step
  <2> QED
    BY <2>1, <2>2
<1>4. GetLayout(d) \/ GetAsset(d)
  <2>1. ~OthersOnTheBus /\ ~UNCHANGED vars
    BY DEF OthersOnTheBus, vars
  <2> QED
    BY <1>3, <2>1 DEF Next
<1>5. CASE GetLayout(d)
  <2>1. PICK id : /\ id \in DOMAIN rows /\ rows[id].company = request[d].company
                  /\ entity' = [entity EXCEPT ![d] = ToRenderDto(rows[id])]
    BY <1>2, <1>5 DEF GetLayout, Finish
  <2> QED
    BY <1>2, <2>1 DEF ToRenderDto
<1>6. CASE GetAsset(d)
  <2>1. PICK id, payload :
          /\ assets[id].company = request[d].company
          /\ entity' = [entity EXCEPT ![d] = [company |-> assets[id].company, submodels |-> payload]]
    BY <1>2, <1>6 DEF GetAsset, Finish
  <2> QED
    BY <1>2, <2>1
<1> QED
  BY <1>4, <1>5, <1>6

\* Nobody's row is changed but by a calibration of its own company, and nobody is shown
\* another company's baseline or asset, whoever calls and in whatever order.
THEOREM CompaniesKeepApart == Spec => OwnRowsOnly
<1>1. IInv /\ [Next]_vars => [OwnRows /\ OwnAnswers]_vars
  BY WriteOwnRows, ShowOwnRows
<1> QED
  BY InitIInv, NextIInv, <1>1, PTL DEF Spec, OwnRowsOnly, OwnRows, OwnAnswers



--------------------------------------------------------------------------------
(* The store of assets: its types, for any number of threads and of saves.  *)

LEMMA TypeStep == TypeOK /\ [StoreNext]_storeVars => TypeOK'
<1> SUFFICES ASSUME TypeOK, [StoreNext]_storeVars PROVE TypeOK' OBVIOUS
<1> USE StoreAssumption
<1>r. ASSUME NEW t \in Threads, Return(t)
      PROVE  job' \in [Threads -> {Idle} \cup Jobs]
  BY <1>r DEF Return, TypeOK
<1>j. ASSUME NEW t \in Threads, job[t] # Idle
      PROVE  /\ job[t] \in Jobs
             /\ job[t].payload \in Saves /\ job[t].alone \in BOOLEAN
             /\ job[t].at = "writing" => job[t].inode \in Saves
  BY <1>j DEF TypeOK, Jobs
<1>g. ASSUME NEW t \in Threads, NEW p, job[t] # Idle, job[t].at # "writing",
             p \in {"filed", "undoing"}, GoOn(t, p)
      PROVE  job' \in [Threads -> {Idle} \cup Jobs]
  BY <1>g DEF GoOn, TypeOK, Jobs
<1>s. \A t \in Threads : job[t].at # "idle" => job[t] # Idle BY DEF Idle
<1>1. ASSUME NEW t \in Threads, OpenTemp(t) PROVE TypeOK'
  <2> DEFINE n == saves + 1  i == IF tmp = 0 THEN n ELSE tmp
             new == [at |-> "writing", payload |-> n, inode |-> i, alone |-> Quiet]
             Join(j) == IF j = Idle THEN Idle ELSE [j EXCEPT !.alone = FALSE]
  <2>1. n \in Saves /\ i \in Saves /\ saves' = n /\ tmp' = i
    BY <1>1 DEF OpenTemp, TypeOK, Saves
  <2>2. new \in Jobs BY <2>1 DEF Jobs, Quiet
  <2>3. \A u \in Threads : Join(job[u]) \in {Idle} \cup Jobs
    BY <1>j DEF Jobs
  <2>4. job' = [u \in Threads |-> IF u = t THEN new ELSE Join(job[u])]
    BY <1>1 DEF OpenTemp
  <2>5. job' \in [Threads -> {Idle} \cup Jobs] BY <2>2, <2>3, <2>4
  <2>6. content' \in [Saves -> 0 .. MaxSaves]
    BY <1>1, <2>1 DEF OpenTemp, TypeOK
  <2>7. single' \in BOOLEAN BY <1>1 DEF OpenTemp, Quiet
  <2>8. faults' \subseteq Faults BY <1>1 DEF OpenTemp, TypeOK, Faults
  <2>9. tmp' \in 0 .. MaxSaves /\ saves' \in 0 .. MaxSaves
    BY <2>1 DEF Saves
  <2>10. row' = row /\ target' = target BY <1>1 DEF OpenTemp
  <2>11. QED BY <2>5, <2>6, <2>7, <2>8, <2>9, <2>10 DEF TypeOK
<1>2. ASSUME NEW t \in Threads, WriteTemp(t) PROVE TypeOK'
  <2>1. job[t] # Idle BY <1>2, <1>s DEF WriteTemp
  <2>2. [job[t] EXCEPT !.at = "written", !.inode = 0] \in Jobs BY <1>j, <2>1 DEF Jobs
  <2>5. job' \in [Threads -> {Idle} \cup Jobs] BY <1>2, <2>2 DEF WriteTemp, TypeOK
  <2>3. content' \in [Saves -> 0 .. MaxSaves]
    BY <1>2, <1>j, <2>1 DEF WriteTemp, TypeOK, Saves
  <2>4. QED BY <1>2, <2>5, <2>3 DEF WriteTemp, TypeOK
<1>3. ASSUME NEW t \in Threads, Replace(t) PROVE TypeOK'
  <2>1. job[t] # Idle BY <1>3, <1>s DEF Replace
  <2>2. QED BY <1>3, <1>g, <2>1 DEF Replace, TypeOK
<1>4. ASSUME NEW t \in Threads, FileFails(t) PROVE TypeOK'
  BY <1>4, <1>r DEF FileFails, TypeOK
<1>5. ASSUME NEW t \in Threads, Commit(t) PROVE TypeOK'
  <2>1. job[t] # Idle BY <1>5, <1>s DEF Commit
  <2>2. row' \in 0 .. MaxSaves BY <1>5, <1>j, <2>1 DEF Commit, Saves
  <2>3. faults' \subseteq Faults BY <1>5 DEF Commit, Faults
  <2>4. QED BY <1>5, <1>r, <2>2, <2>3 DEF Commit, TypeOK
<1>6. ASSUME NEW t \in Threads, CommitFails(t) PROVE TypeOK'
  <2>1. job[t] # Idle BY <1>6, <1>s DEF CommitFails
  <2>2. row' \in 0 .. MaxSaves
    <3>1. row \in 0 .. MaxSaves /\ job[t].payload \in 0 .. MaxSaves
      BY <1>j, <2>1 DEF Saves, TypeOK
    <3>2. row' \in {row, job[t].payload} BY <1>6 DEF CommitFails
    <3>3. QED BY <3>1, <3>2
  <2>3. faults' \subseteq Faults BY <1>6 DEF CommitFails, TypeOK, Faults
  <2>4. QED BY <1>6, <1>g, <2>1, <2>2, <2>3 DEF CommitFails, TypeOK
<1>7. ASSUME NEW t \in Threads, Undo(t) PROVE TypeOK'
  <2>1. faults' \subseteq Faults BY <1>7 DEF Undo, TypeOK, Faults
  <2>2. QED BY <1>7, <1>r, <2>1 DEF Undo, TypeOK
<1>8. CASE Delete
  <2>1. row' \in 0 .. MaxSaves BY <1>8 DEF Delete
  <2>2. faults' \subseteq Faults BY <1>8 DEF Delete, TypeOK, Faults
  <2>3. QED BY <1>8, <2>1, <2>2 DEF Delete, TypeOK
<1>9. CASE Crash
  <2>1. faults' \subseteq Faults BY <1>9 DEF Crash, TypeOK, Faults
  <2>2. QED BY <1>9, <2>1 DEF Crash, TypeOK
<1>10. CASE UNCHANGED storeVars
  BY <1>10 DEF storeVars, TypeOK
<1>11. QED
  BY <1>1, <1>2, <1>3, <1>4, <1>5, <1>6, <1>7, <1>8, <1>9, <1>10
  DEF StoreNext, Save

LEMMA TypeInit == StoreInit => TypeOK
  BY StoreAssumption DEF StoreInit, TypeOK, Saves, Faults

\* TypeOK holds throughout, for every instance.
THEOREM TypeCorrect == StoreSpec => []TypeOK
  BY TypeInit, TypeStep, PTL DEF StoreSpec

(***************************************************************************)
(* A save with no other beside it knows where its payload is; and while    *)
(* saves have not overlapped, or nothing has gone wrong since one ran      *)
(* alone, every save in progress is such a save.                           *)
(***************************************************************************)

\* The two names never share an inode, and a new inode is named by neither.
Names == tmp <= saves /\ target <= saves /\ (tmp # 0 => tmp # target)

LoneSave(t) ==
  /\ \A u \in Threads : job[u] # Idle => u = t
  /\ job[t].at = "writing" => tmp = job[t].inode /\ content[tmp] = 0
  /\ job[t].at = "written" => tmp \in Saves /\ content[tmp] = job[t].payload
  /\ job[t].at = "filed" => target # 0 /\ content[target] = job[t].payload

Lone == \A t \in Threads : job[t] # Idle /\ job[t].alone => LoneSave(t)

AllLone == single \/ faults = {} =>
             \A t \in Threads : job[t] # Idle => job[t].alone

\* Without faults the file is the row's until a save renames its own into
\* place, and a save is only undone when there is no row.
Agree == faults = {} =>
  /\ (\A t \in Threads : job[t].at \notin {"filed", "undoing"}) => FilePayload = row
  /\ \A t \in Threads : job[t].at = "undoing" => row = 0

StoreInv == Names /\ Lone /\ AllLone /\ FileWhole /\ Agree

LEMMA JobFields ==
  ASSUME TypeOK, NEW t \in Threads
  PROVE  /\ job[t] # Idle =>
              /\ job[t] \in Jobs
              /\ job[t].payload \in Nat \ {0}
              /\ job[t].at = "writing" => job[t].inode \in Saves /\ job[t].inode # 0
         /\ job[t] # Idle <=> job[t].at # "idle"
  BY DEF TypeOK, Jobs, Saves, Idle

LEMMA StoreInvInit == StoreInit => StoreInv
<1> SUFFICES ASSUME StoreInit PROVE StoreInv OBVIOUS
<1>1. \A t \in Threads : job[t] = Idle BY DEF StoreInit
<1>2. Names /\ FileWhole BY DEF StoreInit, Names, FileWhole
<1>3. Lone /\ AllLone BY <1>1 DEF Lone, AllLone
<1>4. Agree BY <1>1 DEF StoreInit, Agree, FilePayload, Idle
<1>5. QED BY <1>2, <1>3, <1>4 DEF StoreInv

\* What ends a save leaves no save in progress if it ran alone.
LEMMA AfterReturn ==
  ASSUME TypeOK, StoreInv, NEW t \in Threads, job[t] # Idle, Return(t)
  PROVE  /\ job'[t] = Idle /\ \A u \in Threads : u # t => job'[u] = job[u]
         /\ \A u \in Threads : job'[u] # Idle => ~job'[u].alone
         /\ job[t].alone => \A u \in Threads : job'[u] = Idle
<1>1. job'[t] = Idle /\ \A u \in Threads : u # t => job'[u] = job[u]
  BY DEF Return, TypeOK
<1>2. ASSUME NEW u \in Threads, u # t, job[u] # Idle PROVE ~job[u].alone
  BY <1>2 DEF StoreInv, Lone, LoneSave
<1>3. job[t].alone => \A u \in Threads : job'[u] = Idle
  BY <1>1 DEF StoreInv, Lone, LoneSave
<1>4. QED BY <1>1, <1>2, <1>3

\* Moving a save to its next step keeps the others, and who is alone.
LEMMA AfterGoOn ==
  ASSUME TypeOK, StoreInv, NEW t \in Threads, job[t] # Idle, NEW p,
         p # "idle", GoOn(t, p)
  PROVE  /\ job'[t].at = p /\ job'[t] # Idle
         /\ job'[t].alone = job[t].alone
         /\ job'[t].payload = job[t].payload
         /\ \A u \in Threads : u # t => job'[u] = job[u]
         /\ \A u \in Threads : u # t /\ job[u] # Idle => ~job[u].alone /\ ~job[t].alone
<1>1. job[t] \in Jobs BY JobFields
<1>2. /\ job'[t] = [job[t] EXCEPT !.at = p]
      /\ \A u \in Threads : u # t => job'[u] = job[u]
  BY DEF GoOn, TypeOK
<1>3. /\ job'[t].at = p
      /\ job'[t].alone = job[t].alone
      /\ job'[t].payload = job[t].payload
  BY <1>1, <1>2 DEF Jobs
<1>4. job'[t] # Idle BY <1>3 DEF Idle
<1>5. \A u \in Threads : u # t /\ job[u] # Idle => ~job[u].alone /\ ~job[t].alone
  BY DEF StoreInv, Lone, LoneSave
<1>6. QED BY <1>2, <1>3, <1>4, <1>5

LEMMA OpenStep ==
  ASSUME TypeOK, StoreInv, NEW t \in Threads, OpenTemp(t) PROVE StoreInv'
<1> USE StoreAssumption
<1> DEFINE n == saves + 1  i == IF tmp = 0 THEN n ELSE tmp
           new == [at |-> "writing", payload |-> n, inode |-> i, alone |-> Quiet]
           Join(j) == IF j = Idle THEN Idle ELSE [j EXCEPT !.alone = FALSE]
<1>1. /\ saves' = n /\ tmp' = i /\ content' = [content EXCEPT ![i] = 0]
      /\ job' = [u \in Threads |-> IF u = t THEN new ELSE Join(job[u])]
      /\ single' = (single /\ Quiet)
      /\ faults' = faults \cup (IF Quiet THEN {} ELSE {"overlap"})
      /\ UNCHANGED <<row, target>>
      /\ job[t] = Idle /\ saves < MaxSaves
  BY DEF OpenTemp
<1>2. /\ i \in Saves /\ i # 0 /\ i # target /\ i <= n /\ target <= n
      /\ saves \in Nat
  BY <1>1 DEF StoreInv, Names, TypeOK, Saves
<1>3. content'[i] = 0 /\ \A x \in Saves : x # i => content'[x] = content[x]
  BY <1>1, <1>2 DEF TypeOK
<1>4. target = 0 \/ target \in Saves BY DEF TypeOK, Saves
<1>5. Names' BY <1>1, <1>2 DEF Names
<1>6. FileWhole'
  BY <1>1, <1>2, <1>3, <1>4 DEF StoreInv, FileWhole
<1>7. new.at = "writing" /\ new.inode = i /\ new.alone = Quiet OBVIOUS
<1>8. FilePayload' = FilePayload
  BY <1>1, <1>2, <1>3, <1>4 DEF FilePayload
<1> HIDE DEF n, i, new
<1>9. CASE Quiet
  <2>1. job'[t] = new /\ \A u \in Threads : u # t => job'[u] = Idle
    BY <1>1, <1>9 DEF Quiet
  <2>2. Lone'
    BY <1>1, <1>3, <1>7, <2>1 DEF Lone, LoneSave
  <2>3. AllLone' BY <1>7, <1>9, <2>1 DEF AllLone
  <2>4. Agree'
    BY <1>1, <1>7, <1>8, <1>9, <2>1 DEF Quiet, StoreInv, Agree, Idle
  <2>5. QED BY <1>5, <1>6, <2>2, <2>3, <2>4 DEF StoreInv
<1>10. CASE ~Quiet
  <2>1. \A u \in Threads : u # t /\ job[u] # Idle => ~Join(job[u]).alone
    <3>1. ASSUME NEW u \in Threads, job[u] # Idle
          PROVE  [job[u] EXCEPT !.alone = FALSE].alone = FALSE
      BY <3>1, JobFields DEF Jobs
    <3>2. QED BY <3>1
  <2>2. \A u \in Threads : u # t /\ job[u] = Idle => Join(job[u]) = Idle
    OBVIOUS
  <2> HIDE DEF Join
  <2>3. \A u \in Threads : job'[u] # Idle => ~job'[u].alone
    BY <1>1, <1>7, <1>10, <2>1, <2>2
  <2>4. ~single' /\ faults' # {} BY <1>1, <1>10
  <2>5. Lone' /\ AllLone' /\ Agree' BY <2>3, <2>4 DEF Lone, AllLone, Agree
  <2>6. QED BY <1>5, <1>6, <2>5 DEF StoreInv
<1>11. QED BY <1>9, <1>10

LEMMA WriteStep ==
  ASSUME TypeOK, StoreInv, NEW t \in Threads, WriteTemp(t) PROVE StoreInv'
<1> DEFINE i == job[t].inode
<1>1. /\ job[t].at = "writing"
      /\ job' = [job EXCEPT ![t] = [@ EXCEPT !.at = "written", !.inode = 0]]
      /\ UNCHANGED <<row, tmp, target, saves, single, faults>>
  BY DEF WriteTemp
<1>2. job[t] # Idle /\ i \in Saves /\ i # 0 /\ job[t].payload # 0
  BY <1>1, JobFields DEF Idle
<1>3. /\ \A x \in Saves : x # i => content'[x] = content[x]
      /\ content[i] = 0 => content'[i] = job[t].payload
  BY <1>2 DEF WriteTemp, TypeOK
<1>4. /\ job'[t].at = "written" /\ job'[t] # Idle
      /\ job'[t].alone = job[t].alone
      /\ job'[t].payload = job[t].payload
      /\ \A u \in Threads : u # t => job'[u] = job[u]
      /\ \A u \in Threads : u # t /\ job[u] # Idle => ~job[u].alone /\ ~job[t].alone
  <2>1. job[t] \in Jobs BY <1>2, JobFields
  <2>2. /\ job'[t] = [job[t] EXCEPT !.at = "written", !.inode = 0]
        /\ \A u \in Threads : u # t => job'[u] = job[u]
    BY <1>1 DEF TypeOK
  <2>3. /\ job'[t].at = "written" /\ job'[t].alone = job[t].alone
        /\ job'[t].payload = job[t].payload
    BY <2>1, <2>2 DEF Jobs
  <2>4. \A u \in Threads : u # t /\ job[u] # Idle => ~job[u].alone /\ ~job[t].alone
    BY <1>2 DEF StoreInv, Lone, LoneSave
  <2>5. job'[t] # Idle BY <2>3 DEF Idle
  <2>6. QED BY <2>2, <2>3, <2>4, <2>5
<1>5. target = 0 \/ target \in Saves BY DEF TypeOK, Saves
<1>6. Names' BY <1>1 DEF StoreInv, Names
<1>7. CASE job[t].alone
  <2>1. LoneSave(t) BY <1>2, <1>7 DEF StoreInv, Lone
  <2>2. tmp = i /\ content[i] = 0 BY <1>1, <2>1 DEF LoneSave
  <2>3. target # i BY <1>2, <2>2 DEF StoreInv, Names
  <2>4. FileWhole' /\ FilePayload' = FilePayload
    BY <1>1, <1>3, <1>5, <2>3 DEF StoreInv, FileWhole, FilePayload
  <2>5. Lone'
    <3>1. tmp' \in Saves /\ content'[tmp'] = job'[t].payload
      BY <1>1, <1>2, <1>3, <1>4, <2>2
    <3>2. \A u \in Threads : job'[u] # Idle => u = t BY <1>4, <2>1 DEF LoneSave
    <3>3. Saves' = Saves BY DEF Saves
    <3>4. LoneSave(t)' BY <1>4, <3>1, <3>2, <3>3 DEF LoneSave
    <3>5. QED BY <3>2, <3>4 DEF Lone
  <2>6. AllLone' BY <1>4, <1>7, <2>1 DEF AllLone, LoneSave
  <2>7. Agree' BY <1>1, <1>2, <1>4, <2>4 DEF StoreInv, Agree
  <2>8. QED BY <1>6, <2>4, <2>5, <2>6, <2>7 DEF StoreInv
<1>8. CASE ~job[t].alone
  <2>1. ~single /\ faults # {} BY <1>2, <1>8 DEF StoreInv, AllLone
  <2>2. \A u \in Threads : job'[u] # Idle => ~job'[u].alone
    BY <1>2, <1>4, <1>8 DEF StoreInv, Lone, LoneSave
  <2>3. QED
    BY <1>1, <1>6, <2>1, <2>2 DEF StoreInv, Lone, AllLone, FileWhole, Agree
<1>9. QED BY <1>7, <1>8

LEMMA ReplaceStep ==
  ASSUME TypeOK, StoreInv, NEW t \in Threads, Replace(t) PROVE StoreInv'
<1>1. /\ job[t].at = "written" /\ GoOn(t, "filed")
      /\ tmp # 0 /\ target' = tmp /\ tmp' = 0
      /\ UNCHANGED <<row, content, saves, single, faults>>
  BY DEF Replace
<1>2. job[t] # Idle /\ job[t].payload # 0 BY <1>1, JobFields DEF Idle
<1>3. /\ job'[t].at = "filed" /\ job'[t] # Idle
      /\ job'[t].alone = job[t].alone
      /\ job'[t].payload = job[t].payload
      /\ \A u \in Threads : u # t => job'[u] = job[u]
      /\ \A u \in Threads : u # t /\ job[u] # Idle => ~job[u].alone /\ ~job[t].alone
  BY <1>1, <1>2, AfterGoOn
<1>4. Names' BY <1>1 DEF StoreInv, Names, TypeOK
<1>5. CASE job[t].alone
  <2>1. LoneSave(t) BY <1>2, <1>5 DEF StoreInv, Lone
  <2>2. content[tmp] = job[t].payload BY <1>1, <2>1 DEF LoneSave
  <2>3. FileWhole' BY <1>1, <1>2, <2>2 DEF FileWhole
  <2>4. Lone' BY <1>1, <1>3, <1>5, <2>1, <2>2 DEF Lone, LoneSave
  <2>5. AllLone' BY <1>3, <1>5, <2>1 DEF AllLone, LoneSave
  <2>6. \A u \in Threads : job'[u].at # "undoing"
    BY <1>3, <2>1, JobFields DEF LoneSave, Idle
  <2>7. Agree' BY <1>1, <1>3, <2>6 DEF Agree
  <2>8. QED BY <1>4, <2>3, <2>4, <2>5, <2>7 DEF StoreInv
<1>6. CASE ~job[t].alone
  <2>1. ~single /\ faults # {} BY <1>2, <1>6 DEF StoreInv, AllLone
  <2>2. \A u \in Threads : job'[u] # Idle => ~job'[u].alone
    BY <1>2, <1>3, <1>6 DEF StoreInv, Lone, LoneSave
  <2>3. QED
    BY <1>1, <1>4, <2>1, <2>2 DEF StoreInv, Lone, AllLone, FileWhole, Agree
<1>7. QED BY <1>5, <1>6

LEMMA FailStep ==
  ASSUME TypeOK, StoreInv, NEW t \in Threads, FileFails(t) PROVE StoreInv'
<1>1. /\ job[t].at \in {"writing", "written"} /\ Return(t)
      /\ tmp' \in {0, tmp}
      /\ UNCHANGED <<row, target, content, saves, single, faults>>
  BY DEF FileFails
<1>2. job[t] # Idle BY <1>1 DEF Idle
<1>3. /\ job'[t] = Idle /\ \A u \in Threads : u # t => job'[u] = job[u]
      /\ \A u \in Threads : job'[u] # Idle => ~job'[u].alone
      /\ job[t].alone => \A u \in Threads : job'[u] = Idle
  BY <1>1, <1>2, AfterReturn
<1>4. Names' BY <1>1 DEF StoreInv, Names, TypeOK
<1>5. FileWhole' BY <1>1 DEF StoreInv, FileWhole
<1>6. Lone' BY <1>3 DEF Lone
<1>7. AllLone' BY <1>1, <1>2, <1>3 DEF StoreInv, AllLone
<1>8. Agree'
  <2>1. SUFFICES ASSUME faults = {} PROVE Agree' BY <1>1 DEF Agree
  <2>2. job[t].alone BY <1>2, <2>1 DEF StoreInv, AllLone
  <2>3. \A u \in Threads : job[u].at \notin {"filed", "undoing"}
    BY <1>1, <1>2, <2>2 DEF StoreInv, Lone, LoneSave, Idle
  <2>4. FilePayload = row BY <2>1, <2>3 DEF StoreInv, Agree
  <2>5. QED BY <1>1, <1>3, <2>2, <2>4 DEF Agree, FilePayload, Idle
<1>9. QED BY <1>4, <1>5, <1>6, <1>7, <1>8 DEF StoreInv

LEMMA CommitStep ==
  ASSUME TypeOK, StoreInv, NEW t \in Threads, Commit(t) PROVE StoreInv'
<1>1. /\ job[t].at = "filed" /\ Return(t) /\ row' = job[t].payload
      /\ faults' = (IF job[t].alone THEN {} ELSE {"overlap"})
      /\ UNCHANGED <<tmp, target, content, saves, single>>
  BY DEF Commit
<1>2. job[t] # Idle BY <1>1 DEF Idle
<1>3. /\ \A u \in Threads : job'[u] # Idle => ~job'[u].alone
      /\ job[t].alone => \A u \in Threads : job'[u] = Idle
  BY <1>1, <1>2, AfterReturn
<1>4. Names' BY <1>1 DEF StoreInv, Names
<1>5. FileWhole' BY <1>1 DEF StoreInv, FileWhole
<1>6. Lone' BY <1>3 DEF Lone
<1>7. CASE job[t].alone
  <2>1. target # 0 /\ content[target] = job[t].payload
    BY <1>1, <1>2, <1>7 DEF StoreInv, Lone, LoneSave
  <2>2. AllLone' BY <1>3, <1>7 DEF AllLone
  <2>3. Agree' BY <1>1, <1>3, <1>7, <2>1 DEF Agree, FilePayload, Idle
  <2>4. QED BY <1>4, <1>5, <1>6, <2>2, <2>3 DEF StoreInv
<1>8. CASE ~job[t].alone
  <2>1. ~single BY <1>2, <1>8 DEF StoreInv, AllLone
  <2>2. ~single' /\ faults' # {} BY <1>1, <1>8, <2>1
  <2>3. QED BY <1>4, <1>5, <1>6, <2>2 DEF StoreInv, AllLone, Agree
<1>9. QED BY <1>7, <1>8

LEMMA CommitFailsStep ==
  ASSUME TypeOK, StoreInv, NEW t \in Threads, CommitFails(t) PROVE StoreInv'
<1>1. /\ job[t].at = "filed" /\ GoOn(t, "undoing")
      /\ row' \in {row, job[t].payload}
      /\ faults' = faults \cup (IF row' # row THEN {"unacknowledged"} ELSE {})
                         \cup (IF row # 0 THEN {"undone update"} ELSE {})
      /\ UNCHANGED <<tmp, target, content, saves, single>>
  BY DEF CommitFails
<1>2. job[t] # Idle
  <2>1. job[t].at = "filed" BY <1>1
  <2>2. QED BY <2>1, JobFields
<1>3. /\ job'[t].at = "undoing" /\ job'[t] # Idle
      /\ job'[t].alone = job[t].alone
      /\ \A u \in Threads : u # t => job'[u] = job[u]
      /\ \A u \in Threads : u # t /\ job[u] # Idle => ~job[u].alone /\ ~job[t].alone
  BY <1>1, <1>2, AfterGoOn
<1>4. Names' BY <1>1 DEF StoreInv, Names
<1>5. FileWhole' BY <1>1 DEF StoreInv, FileWhole
<1>6. faults' = {} => faults = {} /\ row = 0 /\ row' = 0
  BY <1>1
<1>7. CASE job[t].alone
  <2>1. LoneSave(t) BY <1>2, <1>7 DEF StoreInv, Lone
  <2>2. Lone' BY <1>3, <2>1 DEF Lone, LoneSave
  <2>3. AllLone' BY <1>3, <1>7, <2>1 DEF AllLone, LoneSave
  <2>4. Agree' BY <1>3, <1>6 DEF Agree
  <2>5. QED BY <1>4, <1>5, <2>2, <2>3, <2>4 DEF StoreInv
<1>8. CASE ~job[t].alone
  <2>1. ~single /\ faults # {} BY <1>2, <1>8 DEF StoreInv, AllLone
  <2>2. ~single' /\ faults' # {} BY <1>1, <1>6, <2>1
  <2>3. \A u \in Threads : job'[u] # Idle => ~job'[u].alone
    BY <1>2, <1>3, <1>8 DEF StoreInv, Lone, LoneSave
  <2>4. QED BY <1>4, <1>5, <2>2, <2>3 DEF StoreInv, Lone, AllLone, Agree
<1>9. QED BY <1>7, <1>8

LEMMA UndoStep ==
  ASSUME TypeOK, StoreInv, NEW t \in Threads, Undo(t) PROVE StoreInv'
<1>1. /\ job[t].at = "undoing" /\ Return(t) /\ target' \in {0, target}
      /\ faults' = faults \cup (IF target' # 0 THEN {"unremoved"} ELSE {})
      /\ UNCHANGED <<row, tmp, content, saves, single>>
  BY DEF Undo
<1>2. job[t] # Idle BY <1>1 DEF Idle
<1>3. /\ \A u \in Threads : job'[u] # Idle => ~job'[u].alone
      /\ job[t].alone => \A u \in Threads : job'[u] = Idle
  BY <1>1, <1>2, AfterReturn
<1>4. Names' BY <1>1 DEF StoreInv, Names, TypeOK
<1>5. FileWhole' BY <1>1 DEF StoreInv, FileWhole
<1>6. Lone' BY <1>3 DEF Lone
<1>7. faults' = {} => faults = {} /\ target' = 0 BY <1>1
<1>8. AllLone'
  <2>1. SUFFICES ASSUME single \/ faults = {}
                 PROVE  \A u \in Threads : job'[u] # Idle => job'[u].alone
    BY <1>1, <1>7 DEF AllLone
  <2>2. job[t].alone BY <1>2, <2>1 DEF StoreInv, AllLone
  <2>3. QED BY <1>3, <2>2
<1>9. Agree'
  <2>1. SUFFICES ASSUME faults = {}, target' = 0 PROVE Agree'
    BY <1>7 DEF Agree
  <2>2. job[t].alone /\ row = 0
    BY <1>1, <1>2, <2>1 DEF StoreInv, AllLone, Agree
  <2>3. QED BY <1>1, <1>3, <2>1, <2>2 DEF Agree, FilePayload, Idle
<1>10. QED BY <1>4, <1>5, <1>6, <1>8, <1>9 DEF StoreInv

LEMMA CrashStep == ASSUME TypeOK, StoreInv, Crash PROVE StoreInv'
<1>1. /\ \A t \in Threads : job'[t] = Idle
      /\ UNCHANGED <<row, tmp, target, content, saves, single>>
      /\ faults' = {} => /\ faults = {}
                        /\ \A t \in Threads : job[t].at \notin {"filed", "undoing"}
  BY DEF Crash
<1>2. Names' /\ FileWhole' BY <1>1 DEF StoreInv, Names, FileWhole
<1>3. Lone' /\ AllLone' BY <1>1 DEF Lone, AllLone
<1>4. Agree' BY <1>1 DEF StoreInv, Agree, FilePayload, Idle
<1>5. QED BY <1>2, <1>3, <1>4 DEF StoreInv

LEMMA StoreStep == TypeOK /\ StoreInv /\ [StoreNext]_storeVars => StoreInv'
<1> SUFFICES ASSUME TypeOK, StoreInv, [StoreNext]_storeVars PROVE StoreInv' OBVIOUS
<1>1. ASSUME Delete PROVE StoreInv'
  <2>1. /\ UNCHANGED <<job, tmp, target, content, saves, single>>
        /\ faults' # {}
    BY <1>1 DEF Delete
  <2>2. Names' /\ FileWhole' BY <2>1 DEF StoreInv, Names, FileWhole
  <2>3. Lone' BY <2>1 DEF StoreInv, Lone, LoneSave
  <2>4. AllLone' /\ Agree' BY <2>1 DEF StoreInv, AllLone, Agree
  <2>5. QED BY <2>2, <2>3, <2>4 DEF StoreInv
<1>2. ASSUME UNCHANGED storeVars PROVE StoreInv'
  BY <1>2 DEF storeVars, StoreInv, Names, Lone, LoneSave, AllLone, FileWhole, Agree,
              FilePayload
<1>3. QED
  BY <1>1, <1>2, OpenStep, WriteStep, ReplaceStep, FailStep, CommitStep,
     CommitFailsStep, UndoStep, CrashStep
  DEF StoreNext, Save

LEMMA StoreInvariant == StoreSpec => [](TypeOK /\ StoreInv)
<1>1. StoreInit => TypeOK /\ StoreInv BY TypeInit, StoreInvInit
<1>2. TypeOK /\ StoreInv /\ [StoreNext]_storeVars => (TypeOK /\ StoreInv)'
  BY TypeStep, StoreStep
<1>3. QED BY <1>1, <1>2, PTL DEF StoreSpec

\* While saves do not overlap, the file is never torn.
THEOREM FileAlwaysWhole == StoreSpec => []FileWhole
  BY StoreInvariant, PTL DEF StoreInv

\* A successful save that ran alone leaves file and row in agreement, until
\* something else goes wrong.
THEOREM FileBelongsToRow == StoreSpec => []FileMatchesRow
<1>1. StoreInv => FileMatchesRow
  BY DEF StoreInv, Agree, FileMatchesRow, Quiet, Idle
<1>2. QED BY <1>1, StoreInvariant, PTL

\* Both: what a reader of the store can rely on.
THEOREM FileAlwaysSound == StoreSpec => []FileSound
  BY FileAlwaysWhole, FileBelongsToRow, PTL DEF FileSound

================================================================================
