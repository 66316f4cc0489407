---------------------------- MODULE SessionStore ----------------------------
(***************************************************************************)
(* The record of one session: its directory and its row, its totals and    *)
(* its checkpoints, and the tracker of an execution that makes the         *)
(* checkpoints.  Every request works on a copy of the row that it loaded   *)
(* before and writes back what it computed from the copy.                  *)
(***************************************************************************)
EXTENDS Naturals, Sequences, FiniteSets

CONSTANTS
    Callers,      \* requests to the session service
    MaxUses,      \* bounds the tool calls of the execution
    MaxRuns,      \* bounds calls of update_completion_stats
    MaxFailures   \* bounds calls to the database or the file system that fail

StoreAssumption == IsFiniteSet(Callers) /\ {MaxUses, MaxRuns, MaxFailures} \subseteq Nat

ASSUME StoreAssumption

VARIABLES
    row,       \* the row: whether it is there, checkpoints_json, cumulative_turns
    dir,       \* whether the directory of the session exists
    born,      \* the session was requested; its name is not used again
    caller,    \* requests: where they are, and their copy of the row
    pending,   \* _pending_tool_calls: tool calls without a result
    made,      \* the tracker's checkpoints, by the number of their tool call
    uses,      \* tool calls so far
    writes,    \* history: tool calls that change a file
    taken,     \* checkpoints of made that a caller took to store
    runs,      \* history: turns of the runs whose stats were given
    failed     \* failures so far

storeVars == <<row, dir, born, caller, pending, made, uses, writes, taken, runs, failed>>

Absent == [there |-> FALSE, checkpoints |-> <<>>, turns |-> 0]
Free == [op |-> "idle", row |-> Absent]

Fails == failed < MaxFailures /\ failed' = failed + 1
Goes == UNCHANGED failed

StoreInit ==
    /\ row = Absent /\ dir = FALSE /\ born = FALSE /\ caller = [c \in Callers |-> Free]
    /\ pending = {} /\ made = <<>> /\ uses = 0 /\ writes = {} /\ taken = 0 /\ runs = 0
    /\ failed = 0

-----------------------------------------------------------------------------
(* create_session and delete_session                                       *)

tracker == <<pending, made, uses, writes, taken>>

Move(c, op) == caller' = [caller EXCEPT ![c].op = op]
Done(c) == caller' = [caller EXCEPT ![c] = Free]

CreateDirectory(c) ==
    /\ caller[c] = Free /\ ~born /\ born' = TRUE
    /\ Goes /\ dir' = TRUE /\ Move(c, "row")
    /\ UNCHANGED <<row, tracker, runs>>

\* _cleanup_file_session; what fails is only logged.
CleanupDirectory == (dir' = FALSE /\ Goes) \/ (dir' = dir /\ Fails)

CreateRow(c) ==
    /\ caller[c].op = "row"
    /\ \/ Goes /\ row' = [Absent EXCEPT !.there = TRUE] /\ Done(c) /\ UNCHANGED dir
       \/ Fails /\ Move(c, "cleanup") /\ UNCHANGED <<row, dir>>
    /\ UNCHANGED <<born, tracker, runs>>

CreateCleanup(c) ==
    /\ caller[c].op = "cleanup" /\ CleanupDirectory /\ Done(c)
    /\ UNCHANGED <<born, row, tracker, runs>>

\* get_session: the caller's copy, which it keeps.
Load(c) ==
    /\ caller[c] = Free /\ row.there
    /\ caller' = [caller EXCEPT ![c] = [op |-> "loaded", row |-> row]]
    /\ UNCHANGED <<born, row, dir, tracker, runs, failed>>

\* A variant of DeleteRow: the directory goes first.
DeleteRowLast(c) ==
    /\ caller[c].op = "loaded"
    /\ CleanupDirectory /\ Move(c, "directory")
    /\ UNCHANGED <<born, row, tracker, runs>>

\* The row goes first, with its events; a second deletion finds no row to delete.
DeleteRow(c) ==
    /\ caller[c].op = "loaded"
    /\ \/ Goes /\ row' = Absent /\ Move(c, "directory")
       \/ Fails /\ Done(c) /\ UNCHANGED row
    /\ UNCHANGED <<born, dir, tracker, runs>>

DeleteDirectory(c) ==
    /\ caller[c].op = "directory" /\ CleanupDirectory /\ Done(c)
    /\ UNCHANGED <<born, row, tracker, runs>>

-----------------------------------------------------------------------------
(* CheckpointTracker of the execution                                      *)

\* track_tool_use for the blocks of a message of the assistant.
TrackToolUses(n, file) ==
    /\ row.there /\ uses + n <= MaxUses
    /\ uses' = uses + n
    /\ pending' = pending \union (uses + 1 .. uses + n)
    /\ writes' = IF file THEN writes \union (uses + 1 .. uses + n) ELSE writes
    /\ UNCHANGED <<born, row, dir, caller, made, taken, runs, failed>>

\* process_tool_result: a checkpoint for the tools that change files.
ProcessToolResult(u) ==
    /\ pending' = pending \ {u}
    /\ made' = IF u \in pending \intersect writes THEN Append(made, u) ELSE made

\* process_message returns with the first result of a message; it never looks at
\* the others.
ProcessMessage(results) ==
    /\ results \subseteq pending /\ results # {}
    /\ \E u \in results : ProcessToolResult(u)
    /\ UNCHANGED <<born, row, dir, caller, uses, writes, taken, runs, failed>>

-----------------------------------------------------------------------------
(* The totals and the list of checkpoints                                  *)

\* The caller takes the next checkpoint and appends it to the list of its copy.
AddCheckpoint(c) ==
    /\ caller[c].op = "loaded" /\ taken < Len(made)
    /\ taken' = taken + 1
    /\ caller' = [caller EXCEPT ![c].op = "checkpoints",
                                ![c].row.checkpoints = Append(@, made[taken + 1])]
    /\ UNCHANGED <<born, row, dir, pending, made, uses, writes, runs, failed>>

\* Up to the first checkpoint of that name, or everything; one that is not there
\* clears nothing.
Kept(list, u) ==
    LET at == {i \in DOMAIN list : list[i] = u}
    IN  IF at = {} THEN list ELSE SubSeq(list, 1, CHOOSE i \in at : \A j \in at : i <= j)

\* rewind_to_latest_checkpoint goes back to the last but one.
RewindTarget(list) == IF Len(list) < 2 THEN {} ELSE {list[Len(list) - 1]}

ClearCheckpointsAfter(c) ==
    /\ caller[c].op = "loaded"
    /\ \E u \in RewindTarget(caller[c].row.checkpoints) :
          caller' = [caller EXCEPT ![c].op = "checkpoints", ![c].row.checkpoints = Kept(@, u)]
    /\ UNCHANGED <<born, row, dir, tracker, runs, failed>>

UpdateCompletionStats(c, turns) ==
    /\ caller[c].op = "loaded" /\ runs + turns <= MaxRuns
    /\ runs' = runs + turns
    /\ caller' = [caller EXCEPT ![c].op = "turns", ![c].row.turns = @ + turns]
    /\ UNCHANGED <<born, row, dir, tracker, failed>>

\* A variant of Commit: the call is made once more when the refresh failed.
CommitRetried(c) ==
    /\ caller[c].op \in {"checkpoints", "turns"} /\ row.there
    /\ \/ Goes /\ Done(c)
       \/ Fails /\ UNCHANGED caller
    /\ row' = IF caller[c].op = "turns" THEN [row EXCEPT !.turns = @ + caller[c].row.turns]
              ELSE [row EXCEPT !.checkpoints = @ \o caller[c].row.checkpoints]
    /\ UNCHANGED <<born, dir, tracker, runs>>

\* Only the changed column is written.  with_db_retry does not help: the rollback
\* expires the caller's object, and the repeated call fails when it reads it.  When
\* it is the refresh that failed, the column has been written.
Commit(c) ==
    /\ caller[c].op \in {"checkpoints", "turns"}
    /\ Done(c)
    /\ \/ row.there /\ (Goes \/ Fails)
          /\ row' = IF caller[c].op = "turns" THEN [row EXCEPT !.turns = caller[c].row.turns]
                    ELSE [row EXCEPT !.checkpoints = caller[c].row.checkpoints]
       \/ (Fails \/ (~row.there /\ Goes)) /\ UNCHANGED row
    /\ UNCHANGED <<born, dir, tracker, runs>>

StoreNext ==
    \/ \E c \in Callers :
        \/ CreateDirectory(c) \/ CreateRow(c) \/ CreateCleanup(c) \/ Load(c)
        \/ DeleteRow(c) \/ DeleteDirectory(c)
        \/ AddCheckpoint(c) \/ ClearCheckpointsAfter(c) \/ Commit(c)
        \/ \E turns \in 1 .. MaxRuns : UpdateCompletionStats(c, turns)
    \/ \E n \in 1 .. MaxUses, file \in BOOLEAN : TrackToolUses(n, file)
    \/ \E results \in SUBSET pending : ProcessMessage(results)

StoreSpec == StoreInit /\ [][StoreNext]_storeVars

-----------------------------------------------------------------------------
RowType == [there : BOOLEAN, checkpoints : Seq(1 .. MaxUses), turns : 0 .. MaxRuns]

\* Everything has its type; the tracker has checkpoints of writing tool calls only.
StoreTypeOK ==
    /\ row \in RowType /\ {dir, born} \subseteq BOOLEAN
    /\ \A c \in Callers : caller[c].row \in RowType /\ caller[c].op \in
          {"idle", "row", "cleanup", "loaded", "directory", "checkpoints", "turns"}
    /\ pending \subseteq 1 .. uses /\ writes \subseteq 1 .. uses /\ uses \in 0 .. MaxUses
    /\ made \in Seq(writes) /\ taken \in 0 .. Len(made) /\ runs \in 0 .. MaxRuns

\* Directory and row: a row has its directory, and a directory without a row is
\* being made or removed, or a removal failed.
RowHasDirectory ==
    /\ row.there => dir
    /\ dir => row.there \/ failed > 0
                 \/ \E c \in Callers : caller[c].op \in {"row", "cleanup", "directory"}

\* However requests overlap, fail and rewind, nothing is stored twice: a checkpoint
\* stands once in the list, behind those that were made before it (so checkpoints[-2]
\* is older than checkpoints[-1]), and no run counts twice in the totals, also when a
\* call fails after its commit.
StoredOnce ==
    /\ \A i, j \in DOMAIN row.checkpoints : i < j =>
          \E k, l \in DOMAIN made :
              k < l /\ made[k] = row.checkpoints[i] /\ made[l] = row.checkpoints[j]
    /\ row.turns <= runs

=============================================================================
