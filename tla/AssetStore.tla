------------------------------- MODULE AssetStore -------------------------------
(***************************************************************************)
(* Where an asset is kept (aas_persistence AssetCommandPersistenceAdapter): *)
(* a row in the database and an AAS file beside it, written through a      *)
(* temporary file that is then renamed.  Paths and rows are one per asset, *)
(* so one asset is enough.                                                 *)
(*                                                                         *)
(* Several threads save it, each step of a save being one call on the file *)
(* system or the database; calls fail, the database may commit and still   *)
(* report an error, and the process dies and starts again.  A file is an   *)
(* inode: the names tmp and target refer to one, and a thread that has one *)
(* open keeps writing to it whatever name it goes by.  A payload is the    *)
(* number of the save that wrote it.                                       *)
(***************************************************************************)
EXTENDS Naturals

CONSTANTS Threads,
          MaxSaves   \* bound: calls of save

ASSUME StoreAssumption == MaxSaves \in Nat

VARIABLES job,      \* job[t]: the save t is in, and its locals
          row,      \* payload the row was written with, 0: no row
          tmp,      \* inode named <asset_id>.json.tmp, 0: none
          target,   \* inode named <asset_id>.json, 0: none
          content,  \* content[i]: payload in inode i, 0: empty or torn
          saves,    \* calls of save so far
          single,   \* history: no two saves ever overlapped
          faults    \* history: what went wrong since a save last ran alone

storeVars == <<job, row, tmp, target, content, saves, single, faults>>

Idle == [at |-> "idle"]
Saves == 1 .. MaxSaves

\* inode: the file the save has open, 0 once it is closed, which is before the rename.
Jobs ==
  [at : {"writing"}, payload : Saves, inode : Saves, alone : BOOLEAN] \cup
  [at : {"written", "filed", "undoing"}, payload : Saves, inode : {0}, alone : BOOLEAN]

StoreInit ==
  /\ job = [t \in Threads |-> Idle]
  /\ row = 0 /\ tmp = 0 /\ target = 0
  /\ content = [i \in Saves |-> 0]
  /\ saves = 0
  /\ single = TRUE /\ faults = {}

Faults == {"overlap", "unacknowledged", "undone update", "unremoved", "deleted",
           "death"}

Quiet == \A t \in Threads : job[t] = Idle

GoOn(t, place) == job' = [job EXCEPT ![t].at = place]
Return(t) == job' = [job EXCEPT ![t] = Idle]

\* Mutant: the file is opened under its own name, and emptied.
OpenTemp_InPlace(t) ==
  LET n == saves + 1
      i == IF target = 0 THEN n ELSE target
  IN /\ job[t] = Idle /\ Quiet
     /\ saves < MaxSaves
     /\ saves' = n
     /\ tmp' = i
     /\ content' = [content EXCEPT ![i] = 0]
     /\ job' = [job EXCEPT ![t] =
          [at |-> "writing", payload |-> n, inode |-> i, alone |-> TRUE]]
     /\ UNCHANGED <<row, target, single, faults>>

\* open(temp_file_path, "w"): a new empty file, or the one of that name emptied.
\* From here on this save and any other in progress overlap.
OpenTemp(t) ==
  LET n == saves + 1
      i == IF tmp = 0 THEN n ELSE tmp
      Join(j) == IF j = Idle THEN Idle ELSE [j EXCEPT !.alone = FALSE]
  IN /\ job[t] = Idle
     /\ saves < MaxSaves
     /\ saves' = n
     /\ tmp' = i
     /\ content' = [content EXCEPT ![i] = 0]
     /\ job' = [u \in Threads |->
          IF u = t
            THEN [at |-> "writing", payload |-> n, inode |-> i, alone |-> Quiet]
            ELSE Join(job[u])]
     /\ single' = (single /\ Quiet)
     /\ faults' = faults \cup (IF Quiet THEN {} ELSE {"overlap"})
     /\ UNCHANGED <<row, target>>

\* Mutant: the rename comes inside the with block, where the payload may still be in the
\* buffer and the file is open.
WriteTemp_LeftOpen(t) ==
  /\ job[t].at = "writing"
  /\ \E result \in {0, job[t].payload} :
       content' = [content EXCEPT ![job[t].inode] = result]
  /\ GoOn(t, "written")
  /\ UNCHANGED <<row, tmp, target, saves, single, faults>>

\* json.dump and the close that flushes it.  Over another thread's payload in
\* the same inode the result is whole only if this one is not the shorter.
WriteTemp(t) ==
  /\ job[t].at = "writing"
  /\ \E result \in {job[t].payload}
       \cup (IF content[job[t].inode] = 0 THEN {} ELSE {0}) :
       content' = [content EXCEPT ![job[t].inode] = result]
  /\ job' = [job EXCEPT ![t] = [@ EXCEPT !.at = "written", !.inode = 0]]
  /\ UNCHANGED <<row, tmp, target, saves, single, faults>>

\* os.replace(temp_file_path, target_file_path).
Replace(t) ==
  /\ job[t].at = "written"
  /\ tmp # 0
  /\ target' = tmp
  /\ tmp' = 0
  /\ GoOn(t, "filed")
  /\ UNCHANGED <<row, content, saves, single, faults>>

\* An OSError while writing or renaming, which another thread's rename is a
\* reason for: the temporary file is removed if it is there, or removing it
\* fails silently, and the save raises.
FileFails(t) ==
  /\ job[t].at \in {"writing", "written"}
  /\ tmp' \in {0, tmp}
  /\ Return(t)
  /\ UNCHANGED <<row, target, content, saves, single, faults>>

\* merge and commit succeed: the save has succeeded.
Commit(t) ==
  /\ job[t].at = "filed"
  /\ row' = job[t].payload
  /\ faults' = (IF job[t].alone THEN {} ELSE {"overlap"})
  /\ Return(t)
  /\ UNCHANGED <<tmp, target, content, saves, single>>

\* The database reports an error, after committing or not.
CommitFails(t) ==
  /\ job[t].at = "filed"
  /\ row' \in {row, job[t].payload}
  /\ faults' = faults \cup (IF row' # row THEN {"unacknowledged"} ELSE {})
                     \cup (IF row # 0 THEN {"undone update"} ELSE {})
  /\ GoOn(t, "undoing")
  /\ UNCHANGED <<tmp, target, content, saves, single>>

\* _rollback_physical_file: the file is removed, or removing it fails silently.
Undo(t) ==
  /\ job[t].at = "undoing"
  /\ target' \in {0, target}
  /\ faults' = faults \cup (IF target' # 0 THEN {"unremoved"} ELSE {})
  /\ Return(t)
  /\ UNCHANGED <<row, tmp, content, saves, single>>

\* delete_by_id: one transaction on the row; the file is not touched.
Delete ==
  /\ row # 0
  /\ row' = 0
  /\ faults' = faults \cup {"deleted"}
  /\ UNCHANGED <<job, tmp, target, content, saves, single>>

\* The process dies; what is on disk and in the database stays.
Crash ==
  /\ ~Quiet
  /\ job' = [t \in Threads |-> Idle]
  /\ faults' = faults \cup
       (IF \E t \in Threads : job[t].at \in {"filed", "undoing"}
          THEN {"death"} ELSE {})
  /\ UNCHANGED <<row, tmp, target, content, saves, single>>

Save(t) ==
  \/ OpenTemp(t) \/ WriteTemp(t) \/ Replace(t) \/ FileFails(t)
  \/ Commit(t) \/ CommitFails(t) \/ Undo(t)

StoreNext == (\E t \in Threads : Save(t)) \/ Delete \/ Crash

StoreSpec == StoreInit /\ [][StoreNext]_storeVars

--------------------------------------------------------------------------------

\* What _read_aas_submodel_payload finds: the payload in the file, or 0, on which
\* it falls back to what the row has and the submodels are lost.
FilePayload == IF target = 0 THEN 0 ELSE content[target]

TypeOK ==
  /\ job \in [Threads -> {Idle} \cup Jobs]
  /\ row \in 0 .. MaxSaves
  /\ tmp \in 0 .. MaxSaves
  /\ target \in 0 .. MaxSaves
  /\ content \in [Saves -> 0 .. MaxSaves]
  /\ saves \in 0 .. MaxSaves
  /\ single \in BOOLEAN
  /\ faults \subseteq Faults

\* As long as no two saves overlap, the file is a whole payload at every moment,
\* through failures and deaths: a reader, or the next start, never finds a torn
\* one.
FileWhole == single /\ target # 0 => content[target] # 0

\* A save that succeeded without another one beside it leaves a file that is the
\* payload of the row, whatever failed, died or overlapped before it, until
\* something else goes wrong; and a first save that failed leaves no file.
FileMatchesRow == faults = {} /\ Quiet => FilePayload = row

\* What a reader of the store can rely on, while saves stay apart.
FileSound == FileWhole /\ FileMatchesRow

\* The comment on the transaction says that its failure rolls the physical file
\* back.  So when nothing but that has happened, the file is again the one that
\* goes with the row.
RollbackRestores == faults \subseteq {"undone update"} /\ Quiet => FilePayload = row

================================================================================
