--------------------------- MODULE SessionStorage ---------------------------
(***************************************************************************)
(* Deleting one conversation and undoing it (storage.rs, backup.rs).  The  *)
(* conversation has a row in some of several databases, perhaps an agent   *)
(* job assigned to it there, one rollout file, a line in the session index *)
(* and references in the sidebar.  A deletion goes through the databases   *)
(* one by one; each is backed up, cleared in a transaction, and then the   *)
(* file and the indexes follow, which no transaction covers.  The launcher *)
(* and the manager may do so at the same time, while the app writes.       *)
(***************************************************************************)
EXTENDS Naturals, Sequences, FiniteSets, SequencesExt

CONSTANTS Actors,     \* processes that delete and undo
          Dbs,        \* the databases, as a sequence in search order
          Busy,       \* those whose conversation has an agent job
          MaxOps,     \* bound: deletions and undos begun
          MaxWrites,  \* bound: writes of the app
          MaxFaults   \* bound: calls that fail, and crashes

Db == Range(Dbs)
ASSUME StorageAssumption ==
    /\ Dbs \in Seq(Db) /\ Len(Dbs) > 0 /\ Busy \subseteq Db
    /\ MaxOps \in Nat /\ MaxWrites \in Nat

VARIABLES
    row,      \* per database, the version of the conversation's row, 0: none
    job,      \* per database, whose the agent job is
    file,     \* the version of the rollout, 0: none
    index,    \* is there a line in session_index.jsonl
    sidebar,  \* are there references in the sidebar's state
    backups,  \* the backup files, each named by its position
    act,      \* what each process is doing
    out,      \* the result each process gave last
    writes,   \* history: writes of the app, the versions of what it wrote
    faults,   \* history: the kinds of calls that failed
    ops,      \* history: operations begun
    was       \* history: what was there before the first operation

store == <<row, job, file, index, sidebar>>
vars == <<store, backups, act, out, writes, faults, ops, was>>

FaultKinds == {"backup", "commit", "file", "index", "restore", "crash"}
Statuses == {"none", "failed", "deleted", "undone"}

(* A candidate result, one per database, and the one they are merged into. *)
Nothing == [status |-> "failed", undo |-> <<>>]
Idle == [pc |-> "idle", at |-> 0, pos |-> 0, token |-> 0, undo |-> <<>>,
         best |-> Nothing]

Init ==
    /\ row \in [Db -> {0, 1}]
    /\ job = [d \in Db |-> IF d \in Busy /\ row[d] = 1 THEN "ours" ELSE "none"]
    /\ file \in {0, 1}
    /\ index \in BOOLEAN /\ sidebar \in BOOLEAN
    /\ backups = <<>>
    /\ act = [a \in Actors |-> Idle]
    /\ out = [a \in Actors |-> [status |-> "none", undo |-> <<>>]]
    /\ writes = 0 /\ faults = {} /\ ops = 0
    /\ was = [row |-> row, job |-> job, file |-> file, index |-> index,
              sidebar |-> sidebar]

Current(a) == Dbs[act[a].pos]
Fails(kind) == Cardinality(faults) < MaxFaults /\ faults' = faults \cup {kind}
Works == UNCHANGED faults
Step(a, fields) == act' = [act EXCEPT ![a] = fields]
Alone(a) == \A b \in Actors \ {a} : act[b].pc = "idle"

-----------------------------------------------------------------------------
(* delete_local_from_paths, called for a conversation the user sees.       *)
BeginDelete(a) ==
    /\ act[a].pc = "idle"
    /\ ops < MaxOps
    /\ ops' = ops + 1
    /\ Step(a, [Idle EXCEPT !.pc = "backup", !.pos = 1])
    /\ UNCHANGED <<store, backups, out, writes, faults, was>>

(* Slip: only the result of the last database counts.                      *)
MergedLast(best, candidate) == candidate

(* A success replaces what came before, with the tokens of the successes;  *)
(* a failure stands only while there was no success.                       *)
Merged(best, candidate) ==
    IF candidate.status = "deleted"
    THEN [candidate EXCEPT
            !.undo = IF best.status = "deleted" THEN best.undo \o @ ELSE @]
    ELSE IF best.status = "deleted" THEN best ELSE candidate

(* On to the next database, or to the end.                                 *)
NextDb(a, candidate) ==
    [act[a] EXCEPT !.best = Merged(@, candidate), !.token = 0,
                   !.pc = IF act[a].pos < Len(Dbs) THEN "backup" ELSE "end",
                   !.pos = IF @ < Len(Dbs) THEN @ + 1 ELSE @]

Failed(token) == [status |-> "failed",
                  undo |-> IF token = 0 THEN <<>> ELSE <<token>>]
Deleted(token) == [status |-> "deleted", undo |-> <<token>>]

(* The rows, the file and the references are read and written to a backup. *)
(* A file that cannot be read is not in it.                                *)
WriteBackup(a) ==
    /\ act[a].pc = "backup"
    /\ IF row[Current(a)] = 0
       THEN Step(a, NextDb(a, Failed(0))) /\ UNCHANGED <<backups, faults>>
       ELSE \/ /\ Fails("backup")
               /\ Step(a, NextDb(a, Failed(0)))
               /\ UNCHANGED backups
            \/ \E readable \in BOOLEAN :
                  /\ IF readable THEN Works ELSE file # 0 /\ Fails("file")
                  /\ backups' = Append(backups,
                        [db |-> Current(a), row |-> row[Current(a)],
                         job |-> job[Current(a)] = "ours",
                         file |-> IF readable THEN file ELSE 0,
                         index |-> index, sidebar |-> sidebar])
                  /\ Step(a, [act[a] EXCEPT !.pc = "commit",
                                            !.token = Len(backups) + 1])
    /\ UNCHANGED <<store, out, writes, ops, was>>

(* One transaction: the row goes, the job is free again.                   *)
Commit(a) ==
    /\ act[a].pc = "commit"
    /\ \/ /\ Fails("commit")
          /\ Step(a, NextDb(a, Failed(act[a].token)))
          /\ UNCHANGED <<row, job>>
       \/ /\ Works
          /\ row' = [row EXCEPT ![Current(a)] = 0]
          /\ job' = [job EXCEPT ![Current(a)] = IF @ = "ours" THEN "free" ELSE @]
          /\ Step(a, [act[a] EXCEPT !.pc = "remove"])
    /\ UNCHANGED <<file, index, sidebar, backups, out, writes, ops, was>>

(* Slip: the file is removed whether or not it was backed up.              *)
RemoveFileAny(a) ==
    /\ act[a].pc = "remove"
    /\ Works
    /\ file' = 0
    /\ Step(a, [act[a] EXCEPT !.pc = "clean"])
    /\ UNCHANGED <<row, job, index, sidebar, backups, out, writes, ops, was>>

(* Then the file, if it is in the backup; when that fails the session      *)
(* index is still cleaned, but the result is a failure, with its token.    *)
RemoveFile(a) ==
    /\ act[a].pc = "remove"
    /\ \/ /\ Works
          /\ file' = IF backups[act[a].token].file = 0 THEN file ELSE 0
          /\ Step(a, [act[a] EXCEPT !.pc = "clean"])
          /\ UNCHANGED index
       \/ /\ backups[act[a].token].file # 0 /\ file # 0
          /\ Fails("file")
          /\ index' = FALSE
          /\ Step(a, NextDb(a, Failed(act[a].token)))
          /\ UNCHANGED file
    /\ UNCHANGED <<row, job, sidebar, backups, out, writes, ops, was>>

(* The index and the sidebar.  Either is left as it was when it changed    *)
(* meanwhile or cannot be written; the result stays a success.             *)
Forget == \/ Works /\ index' = FALSE /\ sidebar' = FALSE
          \/ Fails("index") /\ \/ index' = FALSE /\ UNCHANGED sidebar
                               \/ sidebar' = FALSE /\ UNCHANGED index
                               \/ UNCHANGED <<index, sidebar>>

Clean(a) ==
    /\ act[a].pc = "clean"
    /\ Forget
    /\ Step(a, NextDb(a, Deleted(act[a].token)))
    /\ UNCHANGED <<row, job, file, backups, out, writes, ops, was>>

(* Found in no database, it may still be in the index alone; removing that *)
(* is a deletion too.                                                      *)
EndDelete(a) ==
    /\ act[a].pc = "end"
    /\ LET best == act[a].best IN
       IF best.status = "deleted"
       THEN /\ out' = [out EXCEPT ![a] = best]
            /\ UNCHANGED <<index, sidebar, faults>>
       ELSE /\ Forget
            /\ out' = [out EXCEPT ![a] =
                  [best EXCEPT !.status = IF index # index' \/ sidebar # sidebar'
                                          THEN "deleted" ELSE @]]
    /\ Step(a, Idle)
    /\ UNCHANGED <<row, job, file, backups, writes, ops, was>>

-----------------------------------------------------------------------------
(* undo, with the token of the last result.                                *)
BeginUndo(a) ==
    /\ act[a].pc = "idle"
    /\ out[a].undo # <<>>
    /\ ops < MaxOps
    /\ ops' = ops + 1
    /\ Step(a, [Idle EXCEPT !.pc = "check", !.undo = out[a].undo])
    /\ UNCHANGED <<store, backups, out, writes, faults, was>>

Restored(a) == backups[act[a].undo[act[a].pos]]

(* The first pass over all backups: rows, jobs and files that are there    *)
(* now are conflicts.                                                      *)
Conflict(b) == \/ row[b.db] # 0
               \/ b.job /\ job[b.db] \in {"ours", "other"}
               \/ b.file # 0 /\ file # 0

(* History: when an undo was checked, in operations begun and writes of the *)
(* app; 0 if another process was at work then.                             *)
Now(a) == IF Alone(a) THEN ops + writes ELSE 0
Undisturbed(a) == act[a].at = ops + writes

(* Slip: files are not looked at.                                          *)
CheckUndoRows(a) ==
    /\ act[a].pc = "check"
    /\ IF \E i \in DOMAIN act[a].undo : row[backups[act[a].undo[i]].db] # 0
       THEN /\ out' = [out EXCEPT ![a].status = "failed"]
            /\ Step(a, Idle)
       ELSE /\ Step(a, [act[a] EXCEPT !.pc = "rows", !.pos = 1, !.at = Now(a)])
            /\ UNCHANGED out
    /\ UNCHANGED <<store, backups, writes, faults, ops, was>>

CheckUndo(a) ==
    /\ act[a].pc = "check"
    /\ IF \E i \in DOMAIN act[a].undo : Conflict(backups[act[a].undo[i]])
       THEN /\ out' = [out EXCEPT ![a].status = "failed"]
            /\ Step(a, Idle)
       ELSE /\ Step(a, [act[a] EXCEPT !.pc = "rows", !.pos = 1, !.at = Now(a)])
            /\ UNCHANGED out
    /\ UNCHANGED <<store, backups, writes, faults, ops, was>>

FailUndo(a) == /\ out' = [out EXCEPT ![a].status = "failed"]
               /\ Step(a, Idle)

(* The second pass, for one backup: its rows in one transaction ...        *)
RestoreRows(a) ==
    /\ act[a].pc = "rows"
    /\ LET b == Restored(a) IN
       \/ /\ row[b.db] # 0 \/ (b.job /\ job[b.db] \in {"ours", "other"})
          /\ FailUndo(a)
          /\ UNCHANGED <<row, job, faults>>
       \/ /\ Fails("restore")
          /\ FailUndo(a)
          /\ UNCHANGED <<row, job>>
       \/ /\ row[b.db] = 0
          /\ b.job => job[b.db] = "free"
          /\ Works
          /\ row' = [row EXCEPT ![b.db] = b.row]
          /\ job' = [job EXCEPT ![b.db] = IF b.job THEN "ours" ELSE @]
          /\ Step(a, [act[a] EXCEPT !.pc = "file"])
          /\ UNCHANGED out
    /\ UNCHANGED <<file, index, sidebar, backups, writes, ops, was>>

(* ... then its file, over whatever is there by now ...                    *)
RestoreFile(a) ==
    /\ act[a].pc = "file"
    /\ \/ /\ Works
          /\ file' = IF Restored(a).file = 0 THEN file ELSE Restored(a).file
          /\ Step(a, [act[a] EXCEPT !.pc = "index"])
          /\ UNCHANGED out
       \/ /\ Restored(a).file # 0
          /\ Fails("restore")
          /\ FailUndo(a)
          /\ UNCHANGED file
    /\ UNCHANGED <<row, job, index, sidebar, backups, writes, ops, was>>

(* ... then what is missing in the index, as far as it can be written, and *)
(* in the sidebar, whose failure ends the undo.  Each may fail on its own. *)
RestoreIndex(a) ==
    /\ act[a].pc = "index"
    /\ Works \/ Fails("index")
    /\ \/ index' = (index \/ Restored(a).index)
       \/ "index" \in faults' /\ Restored(a).index /\ UNCHANGED index
    /\ \/ /\ sidebar' = (sidebar \/ Restored(a).sidebar)
          /\ IF act[a].pos < Len(act[a].undo)
             THEN /\ Step(a, [act[a] EXCEPT !.pc = "rows", !.pos = @ + 1])
                  /\ UNCHANGED out
             ELSE /\ out' = [out EXCEPT ![a].status = "undone"]
                  /\ Step(a, Idle)
       \/ /\ "index" \in faults' /\ Restored(a).sidebar
          /\ FailUndo(a)
          /\ UNCHANGED sidebar
    /\ UNCHANGED <<row, job, file, backups, writes, ops, was>>

-----------------------------------------------------------------------------
(* Outside: the app writes to the conversation or brings parts of it back, *)
(* gives the job to another conversation; a process is killed.             *)
AppWrites ==
    /\ writes < MaxWrites
    /\ writes' = writes + 1
    /\ \/ \E d \in Db : /\ row' = [row EXCEPT ![d] = writes + 2]
                        /\ UNCHANGED <<job, file, index, sidebar>>
       \/ file' = writes + 2 /\ UNCHANGED <<row, job, index, sidebar>>
       \/ \E d \in Db : /\ job[d] = "free"
                        /\ job' = [job EXCEPT ![d] = "other"]
                        /\ UNCHANGED <<row, file, index, sidebar>>
       \/ /\ index' = TRUE /\ sidebar' = TRUE
          /\ UNCHANGED <<row, job, file>>
    /\ UNCHANGED <<backups, act, out, faults, ops, was>>

Crash(a) ==
    /\ act[a].pc # "idle"
    /\ Fails("crash")
    /\ Step(a, Idle)
    /\ out' = [out EXCEPT ![a] = [status |-> "none", undo |-> <<>>]]
    /\ UNCHANGED <<store, backups, writes, ops, was>>

Delete(a) == \/ BeginDelete(a) \/ WriteBackup(a) \/ Commit(a) \/ RemoveFile(a)
             \/ Clean(a) \/ EndDelete(a)
Undo(a) == \/ BeginUndo(a) \/ CheckUndo(a) \/ RestoreRows(a) \/ RestoreFile(a)
           \/ RestoreIndex(a)

Next == (\E a \in Actors : Delete(a) \/ Undo(a) \/ Crash(a)) \/ AppWrites

Spec == Init /\ [][Next]_vars

-----------------------------------------------------------------------------
Versions == 0..MaxWrites + 1
TypeOK ==
    /\ row \in [Db -> Versions]
    /\ job \in [Db -> {"none", "ours", "free", "other"}]
    /\ file \in Versions
    /\ index \in BOOLEAN /\ sidebar \in BOOLEAN
    /\ backups \in Seq([db : Db, row : Versions \ {0}, job : BOOLEAN,
                        file : Versions, index : BOOLEAN, sidebar : BOOLEAN])
    /\ \A a \in Actors :
          /\ act[a].token \in 0..Len(backups)
          /\ Range(act[a].undo) \subseteq 1..Len(backups)
          /\ Range(out[a].undo) \subseteq 1..Len(backups)
          /\ out[a].status \in Statuses
    /\ faults \subseteq FaultKinds
    /\ writes \in 0..MaxWrites /\ ops \in 0..MaxOps

(* A row or a rollout that is removed is in a backup on disk by then,      *)
(* whichever call fails and whoever dies; what the app wrote after the     *)
(* backup was read is not (its version is higher).                         *)
RemovalsSaved ==
    /\ \A d \in Db : row[d] # 0 /\ row'[d] = 0
          => \E t \in DOMAIN backups :
                backups[t].db = d /\ (backups[t].row = row[d] \/ row[d] > 1)
    /\ file # 0 /\ file' = 0
          => \E t \in DOMAIN backups : backups[t].file # 0
                /\ (backups[t].file = file \/ file > 1)

(* The same of every step.                                                 *)
RemovedIsBackedUp == [][RemovalsSaved]_vars

(* A deletion that is reported, and met neither fault nor writer, is whole: *)
(* no database, no index and no sidebar shows the conversation again.      *)
ReportedIsGone ==
    \A a \in Actors :
       /\ act[a].pc = "end" /\ act'[a].pc = "idle"
       /\ out'[a].status = "deleted"
       /\ faults' = {} /\ writes = 0 /\ ops = 1
       => (\A d \in Db : row'[d] = 0) /\ ~index' /\ ~sidebar'

(* Undoing the first deletion gives back what was there before it, also    *)
(* when one of its databases could not be changed.                         *)
UndoneIsBack ==
    \A a \in Actors :
       /\ act[a].pc = "index" /\ out'[a].status = "undone" /\ act'[a].pc = "idle"
       /\ faults' \subseteq {"backup", "commit", "restore"}
       /\ writes = 0 /\ ops = 2
       => [row |-> row', job |-> job', file |-> file', index |-> index',
           sidebar |-> sidebar'] = was

(* The same of every step.                                                 *)
DeletedIsGone == [][ReportedIsGone]_vars
UndoGivesBack == [][UndoneIsBack]_vars

(* What a deletion and an undo report without a fault is what they did.      *)
ReportsAreTrue == []TypeOK /\ DeletedIsGone /\ UndoGivesBack

(* As long as no other process is at work and the app does not write, an   *)
(* undo writes over nothing: not a row, not a job that another conversation *)
(* has by now, and not a file, but one that it restored itself.            *)
OverwritesNothing ==
    \A a \in Actors :
       /\ act[a].pc \in {"rows", "file", "index"} /\ Undisturbed(a)
       /\ act'[a] # act[a] /\ UNCHANGED <<writes, ops>>
       => /\ \A d \in Db : row[d] # 0 => row'[d] = row[d]
          /\ \A d \in Db : job[d] = "other" => job'[d] = "other"
          /\ file # 0 /\ (\A i \in 1..act[a].pos - 1 :
                               backups[act[a].undo[i]].file = 0)
               => file' = file

(* The same of every step.                                                 *)
UndoOverwritesNothing == [][OverwritesNothing]_vars

(* A failed deletion returns a token (undo_token in the failed result): as *)
(* long as nobody writes and something is missing, the undo it offers does *)
(* not refuse.                                                             *)
OfferedUndoWorks ==
    [][ \A a \in Actors :
          /\ act[a].pc = "check" /\ act'[a].pc = "idle" /\ faults' = faults
          /\ "crash" \notin faults
          => writes > 0 \/ ops > 2
             \/ \A i \in DOMAIN act[a].undo : row[backups[act[a].undo[i]].db] # 0 ]_vars
=============================================================================
