------------------------ MODULE SessionStorageProofs ------------------------
(***************************************************************************)
(* Proofs about SessionStorage for any number of processes, databases,     *)
(* operations, writes of the app, faults and crashes.                      *)
(***************************************************************************)
EXTENDS SessionStorage, TLAPS

Backups == [db : Db, row : Nat, job : BOOLEAN, file : Nat,
            index : BOOLEAN, sidebar : BOOLEAN]
Results == [status : Statuses, undo : Seq(Nat)]
Acts == [pc : {"idle", "backup", "commit", "remove", "clean", "end",
               "check", "rows", "file", "index"},
         at : Nat, pos : Nat, token : Nat, undo : Seq(Nat), best : Results]

Shape ==
    /\ row \in [Db -> Nat] /\ file \in Nat /\ writes \in Nat
    /\ index \in BOOLEAN /\ sidebar \in BOOLEAN
    /\ backups \in Seq(Backups)
    /\ act \in [Actors -> Acts] /\ out \in [Actors -> Results]

(* The tokens in a sequence name backups.                                  *)
Name(undo) == \A i \in DOMAIN undo : undo[i] \in DOMAIN backups

(* A process works on a database there is, with the backup it made of it,  *)
(* or on a backup there is.                                                *)
Placed(m) ==
    /\ Name(m.undo) /\ Name(m.best.undo)
    /\ m.pc \in {"backup", "commit", "remove", "clean"} => m.pos \in DOMAIN Dbs
    /\ m.pc \in {"commit", "remove", "clean"} =>
          m.token \in DOMAIN backups /\ backups[m.token].db = Dbs[m.pos]
    /\ m.pc = "check" => m.undo # <<>>
    /\ m.pc \in {"rows", "file", "index"} => m.pos \in DOMAIN m.undo

AllPlaced == \A a \in Actors : Placed(act[a]) /\ Name(out[a].undo)

(* Once anything of a database, or of the file, is in a backup, the        *)
(* version that was there before the app wrote is: nothing brings that     *)
(* version back but a backup that has it.                                  *)
RowSaved(d) == \E t \in DOMAIN backups : backups[t].db = d /\ backups[t].row = 1
FileSaved == \E t \in DOMAIN backups : backups[t].file = 1
RowKept == \A d \in Db : row[d] = 1
              /\ (\E t \in DOMAIN backups : backups[t].db = d) => RowSaved(d)
FileKept == file = 1 /\ (\E t \in DOMAIN backups : backups[t].file # 0) => FileSaved

IInv == Shape /\ AllPlaced /\ RowKept /\ FileKept

Counted == ops \in 0..MaxOps /\ writes \in 0..MaxWrites

LEMMA DbType == Db # {} /\ \A i \in DOMAIN Dbs : Dbs[i] \in Db
  BY StorageAssumption DEF Db, Range

LEMMA ResultTypes ==
    /\ Nothing \in Results /\ Nothing.undo = <<>>
    /\ \A n \in Nat : Failed(n) \in Results /\ Deleted(n) \in Results
  BY DEF Nothing, Failed, Deleted, Results, Statuses

LEMMA IdleType == Idle \in Acts /\ Idle.pc = "idle" /\ Idle.undo = <<>>
                  /\ Idle.best = Nothing /\ Idle.best.undo = <<>>
                  /\ Idle.at = 0 /\ Idle.pos = 0 /\ Idle.token = 0
  BY ResultTypes DEF Idle, Acts

LEMMA ConcatType ==
    ASSUME NEW s \in Seq(Nat), NEW t \in Seq(Nat), NEW S,
           \A i \in DOMAIN s : s[i] \in S, \A i \in DOMAIN t : t[i] \in S
    PROVE  s \o t \in Seq(Nat) /\ \A i \in DOMAIN (s \o t) : (s \o t)[i] \in S
<1>1. s \o t \in Seq(Nat) /\ DOMAIN (s \o t) = 1 .. Len(s) + Len(t)
  OBVIOUS
<1>2. ASSUME NEW i \in 1 .. Len(s) + Len(t)
      PROVE  (s \o t)[i] \in S
  <2>1. CASE i <= Len(s)
    <3>1. i \in DOMAIN s /\ (s \o t)[i] = s[i]
      BY <2>1
    <3>2. QED
      BY <3>1
  <2>2. CASE i > Len(s)
    <3>1. i - Len(s) \in DOMAIN t /\ (s \o t)[i] = t[i - Len(s)]
      BY <2>2
    <3>2. QED
      BY <3>1
  <2>3. QED
    BY <2>1, <2>2
<1>3. QED
  BY <1>1, <1>2

(* Merging keeps types and adds no token but the candidate's.              *)
LEMMA MergedType ==
    ASSUME NEW best \in Results, NEW candidate \in Results,
           NEW S, \A i \in DOMAIN best.undo : best.undo[i] \in S,
           \A i \in DOMAIN candidate.undo : candidate.undo[i] \in S
    PROVE  /\ Merged(best, candidate) \in Results
           /\ \A i \in DOMAIN Merged(best, candidate).undo :
                 Merged(best, candidate).undo[i] \in S
<1> DEFINE both == best.undo \o candidate.undo
<1>1. /\ both \in Seq(Nat)
      /\ \A i \in DOMAIN both : both[i] \in S
  <2>1. best.undo \in Seq(Nat) /\ candidate.undo \in Seq(Nat)
    BY DEF Results
  <2>2. QED
    BY <2>1, ConcatType
<1> HIDE DEF both
<1>2. CASE candidate.status = "deleted" /\ best.status = "deleted"
  <2>1. Merged(best, candidate) = [candidate EXCEPT !.undo = both]
    BY <1>2 DEF Merged, both, Results
  <2>2. QED
    BY <1>1, <2>1 DEF Results
<1>3. CASE candidate.status = "deleted" /\ best.status # "deleted"
  <2>1. Merged(best, candidate) = candidate
    BY <1>3 DEF Merged, Results
  <2>2. QED
    BY <2>1
<1>4. CASE candidate.status # "deleted"
  BY <1>4 DEF Merged
<1>5. QED
  BY <1>2, <1>3, <1>4

(* The process that went on to its next database: m as NextDb makes it.    *)
LEMMA NextType ==
    ASSUME IInv, NEW a \in Actors, act[a].pc \in {"backup", "commit", "remove", "clean"},
           NEW candidate \in Results, Name(candidate.undo)
    PROVE  NextDb(a, candidate) \in Acts /\ Placed(NextDb(a, candidate))
<1> DEFINE m == act[a]
           merged == Merged(m.best, candidate)
           pc == IF m.pos < Len(Dbs) THEN "backup" ELSE "end"
           pos == IF m.pos < Len(Dbs) THEN m.pos + 1 ELSE m.pos
<1>1. m \in Acts /\ Placed(m)
  BY DEF IInv, Shape, AllPlaced
<1>2. m.pos \in DOMAIN Dbs /\ m.undo \in Seq(Nat) /\ m.best \in Results
  BY <1>1 DEF Placed, Acts
<1>3. merged \in Results /\ Name(merged.undo)
  <2>1. Name(m.best.undo)
    BY <1>1 DEF Placed
  <2>2. QED
    BY <1>2, <2>1, MergedType DEF Name
<1>4. pc \in {"backup", "end"} /\ pos \in Nat /\ pos \in DOMAIN Dbs
  BY <1>2, StorageAssumption
<1>5. NextDb(a, candidate) = [m EXCEPT !.best = merged, !.token = 0, !.pc = pc, !.pos = pos]
  BY <1>1 DEF NextDb, Acts
<1> HIDE DEF merged, pc, pos
<1> HIDE DEF m
<1>6. NextDb(a, candidate) \in Acts
  <2>1. NextDb(a, candidate) = [pc |-> pc, at |-> m.at, pos |-> pos, token |-> 0,
                                undo |-> m.undo, best |-> merged]
    BY <1>1, <1>5 DEF Acts
  <2>2. m.at \in Nat /\ m.undo \in Seq(Nat) /\ 0 \in Nat
    BY <1>1 DEF Acts
  <2>3. QED
    BY <1>3, <1>4, <2>1, <2>2 DEF Acts
<1>7. /\ NextDb(a, candidate).undo = m.undo /\ NextDb(a, candidate).best = merged
      /\ NextDb(a, candidate).pc = pc /\ NextDb(a, candidate).pos = pos
  BY <1>1, <1>3, <1>4, <1>5 DEF Acts
<1>8. QED
  BY <1>1, <1>3, <1>4, <1>6, <1>7 DEF Placed

(* What a step does that changes one process and, perhaps, what it gave.   *)
LEMMA StepKept ==
    ASSUME IInv, NEW a \in Actors, NEW m \in Acts, Placed(m),
           act' = [act EXCEPT ![a] = m], UNCHANGED <<backups, out>>
    PROVE  act' \in [Actors -> Acts] /\ out' \in [Actors -> Results] /\ AllPlaced'
<1>1. \A b \in Actors : act'[b] = IF b = a THEN m ELSE act[b]
  BY DEF IInv, Shape
<1>2. \A b \in Actors : Placed(act'[b])
  BY <1>1 DEF IInv, AllPlaced
<1>3. \A b \in Actors : Placed(act[b])'
  BY <1>2 DEF Placed, Name
<1>4. QED
  BY <1>3 DEF IInv, Shape, AllPlaced, Name

(* The same for a step that ends with a result.                            *)
LEMMA EndKept ==
    ASSUME IInv, NEW a \in Actors, NEW result \in Results, Name(result.undo),
           act' = [act EXCEPT ![a] = Idle], out' = [out EXCEPT ![a] = result],
           UNCHANGED backups
    PROVE  act' \in [Actors -> Acts] /\ out' \in [Actors -> Results] /\ AllPlaced'
<1>1. \A b \in Actors : act'[b] = IF b = a THEN Idle ELSE act[b]
  BY DEF IInv, Shape
<1>2. \A b \in Actors : out'[b] = IF b = a THEN result ELSE out[b]
  BY DEF IInv, Shape
<1>3. Placed(Idle)
  BY IdleType DEF Placed, Name
<1>4. \A b \in Actors : Placed(act'[b]) /\ Name(out'[b].undo)
  BY <1>1, <1>2, <1>3 DEF IInv, AllPlaced
<1>5. \A b \in Actors : Placed(act[b])' /\ Name(out[b].undo)'
  BY <1>4 DEF Placed, Name
<1>6. act' \in [Actors -> Acts] /\ out' \in [Actors -> Results]
  BY IdleType DEF IInv, Shape
<1>7. QED
  BY <1>5, <1>6 DEF AllPlaced

(* Rows and a file that no step brings back but from a backup.             *)
LEMMA VersionsKept ==
    ASSUME IInv, UNCHANGED backups,
           \A d \in Db : row'[d] = 1 => row[d] = 1 \/ RowSaved(d),
           file' = 1 => file = 1 \/ FileSaved
    PROVE  RowKept' /\ FileKept'
<1>1. \A d \in Db : RowSaved(d)' <=> RowSaved(d)
  BY DEF RowSaved
<1>2. FileSaved' <=> FileSaved
  BY DEF FileSaved
<1>3. RowKept'
  BY <1>1 DEF IInv, RowKept
<1>4. FileKept'
  BY <1>2 DEF IInv, FileKept
<1>5. QED
  BY <1>3, <1>4

(* An untouched store keeps its versions.                                  *)
LEMMA StoreKept ==
    ASSUME IInv, UNCHANGED <<row, file, index, sidebar, backups, writes>>,
           act' \in [Actors -> Acts], out' \in [Actors -> Results], AllPlaced'
    PROVE  IInv'
<1>1. RowKept' /\ FileKept'
  BY VersionsKept
<1>2. Shape'
  BY DEF IInv, Shape
<1>3. QED
  BY <1>1, <1>2 DEF IInv

(* A backup is made of what is there: the versions are saved, the tokens   *)
(* still name backups, and a new one names the new backup.                 *)
LEMMA BackupMade ==
    ASSUME IInv, NEW a \in Actors, act[a].pc = "backup", NEW b \in Backups,
           b.db = Current(a), b.row = row[b.db], b.file \in {0, file},
           UNCHANGED <<row, file, index, sidebar, out, writes>>,
           backups' = Append(backups, b),
           act' = [act EXCEPT ![a] = [act[a] EXCEPT !.pc = "commit",
                                                    !.token = Len(backups) + 1]]
    PROVE  IInv'
<1> DEFINE new == [act[a] EXCEPT !.pc = "commit",
                                 !.token = Len(backups) + 1]
<1>1. /\ backups \in Seq(Backups) /\ act \in [Actors -> Acts]
      /\ row \in [Db -> Nat] /\ file \in Nat /\ writes \in Nat
  BY DEF IInv, Shape
<1>2. /\ backups' \in Seq(Backups)
      /\ DOMAIN backups = 1 .. Len(backups) /\ DOMAIN backups' = 1 .. Len(backups) + 1
      /\ Len(backups) \in Nat
      /\ backups'[Len(backups) + 1] = b
      /\ \A t \in DOMAIN backups : t \in DOMAIN backups' /\ backups'[t] = backups[t]
  BY <1>1
<1>3. /\ act[a] \in Acts /\ Placed(act[a]) /\ act[a].pos \in DOMAIN Dbs
      /\ act[a].undo \in Seq(Nat) /\ act[a].pos \in Nat /\ act[a].best \in Results
      /\ act[a].at \in Nat
  BY <1>1 DEF IInv, AllPlaced, Placed, Acts
<1>4. new = [pc |-> "commit", at |-> act[a].at, pos |-> act[a].pos,
             token |-> Len(backups) + 1, undo |-> act[a].undo, best |-> act[a].best]
  <2> DEFINE m == act[a]
             n == Len(backups) + 1
  <2>1. m \in Acts
    BY <1>3
  <2>2. new = [m EXCEPT !.pc = "commit", !.token = n]
    OBVIOUS
  <2> HIDE DEF m, n, new
  <2>3. new = [pc |-> "commit", at |-> m.at, pos |-> m.pos, token |-> n,
               undo |-> m.undo, best |-> m.best]
    BY <2>1, <2>2 DEF Acts
  <2>4. QED
    BY <2>3 DEF m, n
<1>5. new \in Acts
  BY <1>1, <1>2, <1>3, <1>4 DEF Acts
<1>6. /\ new.undo = act[a].undo /\ new.best = act[a].best /\ new.pos = act[a].pos
      /\ new.pc = "commit" /\ new.token = Len(backups) + 1
  BY <1>4
<1>7. act' = [act EXCEPT ![a] = new]
  OBVIOUS
<1> HIDE DEF new
<1>8. act' \in [Actors -> Acts] /\ \A c \in Actors : act'[c] = IF c = a THEN new ELSE act[c]
  BY <1>1, <1>5, <1>7
<1>9. Shape'
  BY <1>2, <1>8 DEF IInv, Shape
<1>10. ASSUME NEW c \in Actors
       PROVE  Placed(act[c])' /\ Name(out[c].undo)'
  <2>1. Placed(act[c]) /\ Name(out[c].undo)
    BY DEF IInv, AllPlaced
  <2>2. Name(out[c].undo)'
    BY <1>2, <2>1 DEF Name
  <2>3. CASE c = a
    <3>1. act'[c] = new
      BY <1>8, <2>3
    <3>2. \A i \in DOMAIN new.undo : new.undo[i] \in DOMAIN backups'
      BY <1>2, <1>3, <1>6 DEF Placed, Name
    <3>3. \A i \in DOMAIN new.best.undo : new.best.undo[i] \in DOMAIN backups'
      BY <1>2, <1>3, <1>6 DEF Placed, Name
    <3>4. new.token \in DOMAIN backups' /\ backups'[new.token].db = Dbs[new.pos]
      BY <1>2, <1>6 DEF Current
    <3>5. QED
      BY <1>3, <1>6, <2>2, <3>1, <3>2, <3>3, <3>4 DEF Placed, Name
  <2>4. CASE c # a
    <3>1. act'[c] = act[c]
      BY <1>8, <2>4
    <3>2. QED
      BY <1>2, <2>1, <2>2, <3>1 DEF Placed, Name
  <2>5. QED
    BY <2>3, <2>4
<1>11. RowKept'
  <2>1. ASSUME NEW d \in Db, row[d] = 1, NEW t \in DOMAIN backups', backups'[t].db = d
        PROVE  \E u \in DOMAIN backups' : backups'[u].db = d /\ backups'[u].row = 1
    <3>1. CASE t = Len(backups) + 1
      BY <1>2, <2>1, <3>1
    <3>2. CASE t # Len(backups) + 1
      <4>1. t \in DOMAIN backups /\ backups[t].db = d
        BY <1>2, <2>1, <3>2
      <4>2. RowSaved(d)
        BY <2>1, <4>1 DEF IInv, RowKept
      <4>3. QED
        BY <1>2, <4>2 DEF RowSaved
    <3>3. QED
      BY <3>1, <3>2
  <2>2. QED
    BY <2>1 DEF RowKept, RowSaved
<1>12. FileKept'
  <2>1. ASSUME file = 1, NEW t \in DOMAIN backups', backups'[t].file # 0
        PROVE  \E u \in DOMAIN backups' : backups'[u].file = 1
    <3>1. CASE t = Len(backups) + 1
      BY <1>2, <2>1, <3>1
    <3>2. CASE t # Len(backups) + 1
      <4>1. t \in DOMAIN backups /\ backups[t].file # 0
        BY <1>2, <2>1, <3>2
      <4>2. FileSaved
        BY <2>1, <4>1 DEF IInv, FileKept
      <4>3. QED
        BY <1>2, <4>2 DEF FileSaved
    <3>3. QED
      BY <3>1, <3>2
  <2>2. QED
    BY <2>1 DEF FileKept, FileSaved
<1>13. QED
  BY <1>9, <1>10, <1>11, <1>12 DEF IInv, AllPlaced

LEMMA ActType ==
    ASSUME IInv, NEW a \in Actors
    PROVE  act[a] \in Acts /\ Placed(act[a]) /\ Name(out[a].undo)
           /\ out[a] \in Results /\ act[a].undo \in Seq(Nat)
           /\ act[a].pos \in Nat /\ act[a].token \in Nat /\ act[a].best \in Results
  BY DEF IInv, Shape, AllPlaced, Acts

(* A process that goes on where it is.                                     *)
LEMMA SamePlace ==
    ASSUME IInv, NEW a \in Actors, NEW pc,
           \/ act[a].pc = "commit" /\ pc = "remove"
           \/ act[a].pc = "remove" /\ pc = "clean"
           \/ act[a].pc = "rows" /\ pc = "file"
           \/ act[a].pc = "file" /\ pc = "index"
    PROVE  [act[a] EXCEPT !.pc = pc] \in Acts /\ Placed([act[a] EXCEPT !.pc = pc])
<1> DEFINE m == act[a]
<1>1. m \in Acts /\ Placed(m)
  BY ActType
<1>2. m.pc \in {"commit", "remove", "rows", "file"}
      /\ pc \in {"remove", "clean", "file", "index"}
      /\ (m.pc \in {"commit", "remove"} <=> pc \in {"remove", "clean"})
  OBVIOUS
<1> HIDE DEF m
<1>3. [m EXCEPT !.pc = pc] = [pc |-> pc, at |-> m.at, pos |-> m.pos,
            token |-> m.token, undo |-> m.undo, best |-> m.best]
  BY <1>1 DEF Acts
<1>4. [m EXCEPT !.pc = pc] \in Acts
  BY <1>1, <1>2, <1>3 DEF Acts
<1>5. Placed([m EXCEPT !.pc = pc])
  BY <1>1, <1>2, <1>3 DEF Placed
<1>6. QED
  BY <1>4, <1>5 DEF m

LEMMA RestoredType ==
    ASSUME IInv, NEW a \in Actors, act[a].pc \in {"rows", "file", "index"}
    PROVE  /\ act[a].undo[act[a].pos] \in DOMAIN backups
           /\ Restored(a) \in Backups
<1>1. act[a].undo[act[a].pos] \in DOMAIN backups
  BY ActType DEF Placed, Name
<1>2. backups \in Seq(Backups)
  BY DEF IInv, Shape
<1>3. QED
  BY <1>1, <1>2 DEF Restored

LEMMA TokenType ==
    ASSUME IInv, NEW a \in Actors, act[a].pc \in {"commit", "remove", "clean"}
    PROVE  /\ act[a].token \in Nat /\ act[a].token \in DOMAIN backups
           /\ act[a].token # 0 /\ act[a].pos \in DOMAIN Dbs
           /\ backups[act[a].token] \in Backups
           /\ backups[act[a].token].db = Current(a) /\ Current(a) \in Db
<1>1. act[a].token \in DOMAIN backups /\ act[a].pos \in DOMAIN Dbs
      /\ backups[act[a].token].db = Current(a)
  BY ActType DEF Placed, Current
<1>2. backups \in Seq(Backups)
  BY DEF IInv, Shape
<1>3. Current(a) \in Db
  BY <1>1, DbType DEF Current
<1>4. QED
  BY <1>1, <1>2, <1>3, ActType

(* On to the next database with a failure, or with a success, that has     *)
(* this database's token or none.                                          *)
LEMMA NextKept ==
    ASSUME IInv, NEW a \in Actors, act[a].pc \in {"backup", "commit", "remove", "clean"},
           NEW candidate \in {Failed(0), Failed(act[a].token), Deleted(act[a].token)},
           candidate = Failed(0) \/ act[a].pc # "backup",
           Step(a, NextDb(a, candidate)), UNCHANGED <<backups, out>>
    PROVE  act' \in [Actors -> Acts] /\ out' \in [Actors -> Results] /\ AllPlaced'
<1>1. candidate \in Results
  BY ResultTypes, ActType
<1>2. Name(candidate.undo)
  <2>1. CASE candidate = Failed(0)
    BY <2>1 DEF Failed, Name
  <2>2. CASE act[a].pc # "backup"
    <3>1. act[a].token \in DOMAIN backups
      BY <2>2, TokenType
    <3>2. candidate.undo = <<>> \/ candidate.undo = <<act[a].token>>
      BY DEF Failed, Deleted
    <3>3. QED
      BY <3>1, <3>2 DEF Name
  <2>3. QED
    BY <2>1, <2>2
<1>3. NextDb(a, candidate) \in Acts /\ Placed(NextDb(a, candidate))
  BY <1>1, <1>2, NextType
<1>4. QED
  BY <1>3, StepKept DEF Step

LEMMA WriteBackupKeeps ==
    ASSUME IInv, NEW a \in Actors, WriteBackup(a)
    PROVE  IInv'
<1>1. act[a].pc = "backup" /\ UNCHANGED <<row, job, file, index, sidebar, out, writes>>
  BY DEF WriteBackup, store
<1>2. CASE Step(a, NextDb(a, Failed(0))) /\ UNCHANGED backups
  <2>1. act' \in [Actors -> Acts] /\ out' \in [Actors -> Results] /\ AllPlaced'
    BY <1>1, <1>2, NextKept
  <2>2. QED
    BY <1>1, <1>2, <2>1, StoreKept
<1>3. CASE \E readable \in BOOLEAN :
             /\ backups' = Append(backups,
                   [db |-> Current(a), row |-> row[Current(a)],
                    job |-> job[Current(a)] = "ours",
                    file |-> IF readable THEN file ELSE 0,
                    index |-> index, sidebar |-> sidebar])
             /\ Step(a, [act[a] EXCEPT !.pc = "commit",
                                       !.token = Len(backups) + 1])
  <2>1. PICK readable \in BOOLEAN :
             /\ backups' = Append(backups,
                   [db |-> Current(a), row |-> row[Current(a)],
                    job |-> job[Current(a)] = "ours",
                    file |-> IF readable THEN file ELSE 0,
                    index |-> index, sidebar |-> sidebar])
             /\ Step(a, [act[a] EXCEPT !.pc = "commit",
                                       !.token = Len(backups) + 1])
    BY <1>3
  <2> DEFINE mine == job[Current(a)] = "ours"
             kept == IF readable THEN file ELSE 0
             b == [db |-> Current(a), row |-> row[Current(a)], job |-> mine,
                   file |-> kept, index |-> index, sidebar |-> sidebar]
  <2>2. mine \in BOOLEAN /\ kept \in {0, file} /\ kept \in Nat
    BY DEF IInv, Shape
  <2>3. Current(a) \in Db /\ row[Current(a)] \in Nat /\ index \in BOOLEAN
        /\ sidebar \in BOOLEAN
    <3>1. act[a].pos \in DOMAIN Dbs
      BY <1>1, ActType DEF Placed
    <3>2. Current(a) \in Db
      BY <3>1, DbType DEF Current
    <3>3. QED
      BY <3>2 DEF IInv, Shape
  <2>4. backups' = Append(backups, b)
    BY <2>1
  <2> HIDE DEF mine, kept
  <2>5. b \in Backups /\ b.db = Current(a) /\ b.row = row[b.db] /\ b.file \in {0, file}
    BY <2>2, <2>3 DEF Backups
  <2> HIDE DEF b
  <2>6. QED
    BY <1>1, <2>1, <2>4, <2>5, BackupMade DEF Step
<1>4. QED
  BY <1>2, <1>3 DEF WriteBackup

LEMMA CommitKeeps ==
    ASSUME IInv, NEW a \in Actors, Commit(a)
    PROVE  IInv'
<1> DEFINE m == [act[a] EXCEPT !.pc = "remove"]
<1>1. /\ act[a].pc = "commit"
      /\ UNCHANGED <<file, index, sidebar, backups, out, writes>>
  BY DEF Commit
<1>2. CASE Step(a, NextDb(a, Failed(act[a].token))) /\ UNCHANGED row
  <2>1. act' \in [Actors -> Acts] /\ out' \in [Actors -> Results] /\ AllPlaced'
    BY <1>1, <1>2, NextKept
  <2>2. QED
    BY <1>1, <1>2, <2>1, StoreKept
<1>3. CASE /\ row' = [row EXCEPT ![Current(a)] = 0]
           /\ act' = [act EXCEPT ![a] = m]
  <2>1. act' \in [Actors -> Acts] /\ out' \in [Actors -> Results] /\ AllPlaced'
    BY <1>1, <1>3, SamePlace, StepKept
  <2> HIDE DEF m
  <2>2. row' \in [Db -> Nat] /\ \A d \in Db : row'[d] = 1 => row[d] = 1
    <3>1. row \in [Db -> Nat] /\ 0 \in Nat
      BY DEF IInv, Shape
    <3>2. row' = [row EXCEPT ![Current(a)] = 0]
      BY <1>3
    <3>3. row' \in [Db -> Nat]
      BY <3>1, <3>2
    <3>4. \A d \in Db : row'[d] = IF d = Current(a) THEN 0 ELSE row[d]
      BY <3>1, <3>2
    <3>5. QED
      BY <3>3, <3>4
  <2>3. RowKept' /\ FileKept'
    BY <1>1, <2>2, VersionsKept
  <2>4. QED
    BY <1>1, <2>1, <2>2, <2>3 DEF IInv, Shape
<1>4. QED
  BY <1>2, <1>3 DEF Commit, Step

LEMMA RemoveFileKeeps ==
    ASSUME IInv, NEW a \in Actors, RemoveFile(a)
    PROVE  IInv'
<1>1. act[a].pc = "remove" /\ UNCHANGED <<row, sidebar, backups, out, writes>>
  BY DEF RemoveFile
<1>2. /\ file' = file \/ file' = 0
      /\ index' = index \/ index' = FALSE
      /\ \/ Step(a, NextDb(a, Failed(act[a].token)))
         \/ Step(a, [act[a] EXCEPT !.pc = "clean"])
  BY DEF RemoveFile
<1>3. act' \in [Actors -> Acts] /\ out' \in [Actors -> Results] /\ AllPlaced'
  BY <1>1, <1>2, NextKept, SamePlace, StepKept DEF Step
<1>4. RowKept' /\ FileKept'
  BY <1>1, <1>2, VersionsKept
<1>5. file' \in Nat /\ index' \in BOOLEAN
  <2>1. file \in Nat /\ 0 \in Nat /\ index \in BOOLEAN
    BY DEF IInv, Shape
  <2>2. (file' = file \/ file' = 0) /\ (index' = index \/ index' = FALSE)
    BY <1>2
  <2>3. QED
    BY <2>1, <2>2
<1>6. QED
  BY <1>1, <1>3, <1>4, <1>5 DEF IInv, Shape

LEMMA ForgetType ==
    ASSUME IInv, Forget
    PROVE  index' \in BOOLEAN /\ sidebar' \in BOOLEAN
  BY DEF Forget, IInv, Shape

LEMMA CleanKeeps ==
    ASSUME IInv, NEW a \in Actors, Clean(a)
    PROVE  IInv'
<1>1. act[a].pc = "clean" /\ UNCHANGED <<row, file, backups, out, writes>>
  BY DEF Clean
<1>2. act' \in [Actors -> Acts] /\ out' \in [Actors -> Results] /\ AllPlaced'
  BY <1>1, NextKept DEF Clean
<1>3. RowKept' /\ FileKept'
  BY <1>1, VersionsKept
<1>4. QED
  BY <1>1, <1>2, <1>3, ForgetType DEF IInv, Shape, Clean

LEMMA EndDeleteKeeps ==
    ASSUME IInv, NEW a \in Actors, EndDelete(a)
    PROVE  IInv'
<1> DEFINE best == act[a].best
<1>1. act[a].pc = "end" /\ UNCHANGED <<row, file, backups, writes>>
  BY DEF EndDelete
<1>2. best \in Results /\ Name(best.undo)
  BY ActType DEF Placed
<1>3. index' \in BOOLEAN /\ sidebar' \in BOOLEAN
  BY ForgetType DEF EndDelete, IInv, Shape
<1>4. PICK result \in Results : Name(result.undo) /\ out' = [out EXCEPT ![a] = result]
  <2>1. CASE best.status = "deleted"
    BY <1>2, <2>1 DEF EndDelete
  <2>2. CASE best.status # "deleted"
    <3> DEFINE status == IF index # index' \/ sidebar # sidebar'
                         THEN "deleted" ELSE best.status
               result == [best EXCEPT !.status = status]
    <3>1. status \in Statuses
      BY <1>2 DEF Results, Statuses
    <3>2. out' = [out EXCEPT ![a] = result]
      BY <2>2 DEF EndDelete
    <3> HIDE DEF status, best
    <3>3. result = [status |-> status, undo |-> best.undo]
      BY <1>2 DEF Results
    <3>4. result \in Results /\ Name(result.undo)
      BY <1>2, <3>1, <3>3 DEF Results
    <3>5. QED
      BY <3>2, <3>4
  <2>3. QED
    BY <2>1, <2>2
<1>5. act' \in [Actors -> Acts] /\ out' \in [Actors -> Results] /\ AllPlaced'
  BY <1>1, <1>4, EndKept DEF EndDelete, Step
<1>6. RowKept' /\ FileKept'
  BY <1>1, VersionsKept
<1>7. QED
  BY <1>1, <1>3, <1>5, <1>6 DEF IInv, Shape

LEMMA BeginDeleteKeeps ==
    ASSUME IInv, NEW a \in Actors, BeginDelete(a)
    PROVE  IInv'
<1> DEFINE m == [Idle EXCEPT !.pc = "backup", !.pos = 1]
<1>1. m = [pc |-> "backup", at |-> 0, pos |-> 1, token |-> 0, undo |-> <<>>,
           best |-> Nothing]
  <2> DEFINE base == Idle
  <2>1. /\ base \in Acts /\ base.at = 0 /\ base.pos = 0 /\ base.token = 0
        /\ base.undo = <<>> /\ base.best = Nothing
    BY IdleType
  <2>2. m = [base EXCEPT !.pc = "backup", !.pos = 1]
    OBVIOUS
  <2> HIDE DEF base, m
  <2>3. QED
    BY <2>1, <2>2 DEF Acts
<1>2. m \in Acts /\ Placed(m)
  <2>1. 1 \in DOMAIN Dbs /\ 0 \in Nat /\ 1 \in Nat /\ <<>> \in Seq(Nat)
    BY StorageAssumption
  <2> HIDE DEF m
  <2>2. QED
    BY <1>1, <2>1, ResultTypes DEF Acts, Placed, Name
<1>3. act' \in [Actors -> Acts] /\ out' \in [Actors -> Results] /\ AllPlaced'
  BY <1>2, StepKept DEF BeginDelete, Step, m
<1>4. QED
  BY <1>3, StoreKept DEF BeginDelete, store

LEMMA BeginUndoKeeps ==
    ASSUME IInv, NEW a \in Actors, BeginUndo(a)
    PROVE  IInv'
<1> DEFINE m == [Idle EXCEPT !.pc = "check", !.undo = out[a].undo]
<1>1. m = [pc |-> "check", at |-> 0, pos |-> 0, token |-> 0, undo |-> out[a].undo,
           best |-> Nothing]
  <2> DEFINE base == Idle
  <2>1. /\ base \in Acts /\ base.at = 0 /\ base.pos = 0 /\ base.token = 0
        /\ base.undo = <<>> /\ base.best = Nothing
    BY IdleType
  <2>2. m = [base EXCEPT !.pc = "check", !.undo = out[a].undo]
    OBVIOUS
  <2> HIDE DEF base, m
  <2>3. QED
    BY <2>1, <2>2 DEF Acts
<1>2. m \in Acts /\ Placed(m)
  <2>1. 0 \in Nat /\ out[a].undo \in Seq(Nat) /\ Name(out[a].undo)
        /\ out[a].undo # <<>>
    BY ActType DEF Results, BeginUndo
  <2> HIDE DEF m
  <2>2. QED
    BY <1>1, <2>1, ResultTypes DEF Acts, Placed, Name
<1>3. act' \in [Actors -> Acts] /\ out' \in [Actors -> Results] /\ AllPlaced'
  BY <1>2, StepKept DEF BeginUndo, Step, m
<1>4. QED
  BY <1>3, StoreKept DEF BeginUndo, store

(* An undo ends without success, or a process dies.                        *)
LEMMA FailType ==
    ASSUME IInv, NEW a \in Actors, NEW status \in Statuses,
           Step(a, Idle), out' = [out EXCEPT ![a].status = status],
           UNCHANGED backups
    PROVE  act' \in [Actors -> Acts] /\ out' \in [Actors -> Results] /\ AllPlaced'
<1> DEFINE old == out[a]
           result == [status |-> status, undo |-> old.undo]
<1>1. old \in Results /\ Name(old.undo)
  BY ActType
<1>2. out' = [out EXCEPT ![a] = [old EXCEPT !.status = status]]
  OBVIOUS
<1> HIDE DEF old
<1>3. [old EXCEPT !.status = status] = result
  BY <1>1 DEF Results
<1>4. result \in Results /\ Name(result.undo)
  BY <1>1 DEF Results
<1>5. QED
  BY <1>2, <1>3, <1>4, EndKept DEF Step

LEMMA CheckUndoKeeps ==
    ASSUME IInv, Counted, NEW a \in Actors, CheckUndo(a)
    PROVE  IInv'
<1>1. act[a].pc = "check"
      /\ UNCHANGED <<row, file, index, sidebar, backups, writes>>
  BY DEF CheckUndo, store
<1>2. CASE out' = [out EXCEPT ![a].status = "failed"] /\ Step(a, Idle)
  <2>1. act' \in [Actors -> Acts] /\ out' \in [Actors -> Results] /\ AllPlaced'
    BY <1>1, <1>2, FailType DEF Statuses
  <2>2. QED
    BY <1>1, <2>1, StoreKept
<1>3. CASE /\ ~\E i \in DOMAIN act[a].undo : Conflict(backups[act[a].undo[i]])
           /\ Step(a, [act[a] EXCEPT !.pc = "rows", !.pos = 1, !.at = Now(a)])
           /\ UNCHANGED out
  <2> DEFINE m == act[a]
             now == Now(a)
             new == [m EXCEPT !.pc = "rows", !.pos = 1, !.at = now]
  <2>1. m \in Acts /\ Placed(m) /\ now \in Nat
    BY ActType, StorageAssumption DEF Counted, Now
  <2>2. act' = [act EXCEPT ![a] = new]
    BY <1>3 DEF Step
  <2>3. new = [m EXCEPT !.pc = "rows", !.pos = 1, !.at = now]
    OBVIOUS
  <2>4. 1 \in DOMAIN m.undo
    BY <1>1, <2>1 DEF Placed, Acts
  <2> HIDE DEF m, now, new
  <2>5. new = [pc |-> "rows", at |-> now, pos |-> 1, token |-> m.token,
               undo |-> m.undo, best |-> m.best]
    BY <2>1, <2>3 DEF Acts
  <2>6. new \in Acts /\ Placed(new)
    BY <2>1, <2>4, <2>5 DEF Acts, Placed
  <2>7. act' \in [Actors -> Acts] /\ out' \in [Actors -> Results] /\ AllPlaced'
    BY <1>1, <1>3, <2>2, <2>6, StepKept
  <2>8. QED
    BY <1>1, <1>3, <2>7, StoreKept
<1>4. QED
  BY <1>2, <1>3 DEF CheckUndo

LEMMA RestoreRowsKeeps ==
    ASSUME IInv, NEW a \in Actors, RestoreRows(a)
    PROVE  IInv'
<1> DEFINE b == Restored(a)
           m == [act[a] EXCEPT !.pc = "file"]
<1>1. act[a].pc = "rows"
      /\ UNCHANGED <<file, index, sidebar, backups, writes>>
  BY DEF RestoreRows
<1>2. CASE FailUndo(a) /\ UNCHANGED row
  <2>1. act' \in [Actors -> Acts] /\ out' \in [Actors -> Results] /\ AllPlaced'
    BY <1>1, <1>2, FailType DEF FailUndo, Statuses
  <2>2. QED
    BY <1>1, <1>2, <2>1, StoreKept
<1>3. CASE row' = [row EXCEPT ![b.db] = b.row] /\ act' = [act EXCEPT ![a] = m]
           /\ UNCHANGED out
  <2>1. act' \in [Actors -> Acts] /\ out' \in [Actors -> Results] /\ AllPlaced'
    BY <1>1, <1>3, SamePlace, StepKept
  <2> HIDE DEF m
  <2>2. act[a].undo[act[a].pos] \in DOMAIN backups /\ b \in Backups
        /\ b = backups[act[a].undo[act[a].pos]]
    BY <1>1, RestoredType DEF Restored
  <2> HIDE DEF b
  <2>3. row \in [Db -> Nat] /\ b.db \in Db /\ b.row \in Nat
    BY <2>2 DEF IInv, Shape, Backups
  <2>4. row' \in [Db -> Nat]
    BY <1>3, <2>3
  <2>5. \A d \in Db : row'[d] = IF d = b.db THEN b.row ELSE row[d]
    BY <1>3, <2>3
  <2>6. ASSUME NEW d \in Db, row'[d] = 1
        PROVE  row[d] = 1 \/ RowSaved(d)
    BY <2>2, <2>5, <2>6 DEF RowSaved
  <2>7. RowKept' /\ FileKept'
    BY <1>1, <2>6, VersionsKept
  <2>8. QED
    BY <1>1, <2>1, <2>4, <2>7 DEF IInv, Shape
<1>4. QED
  BY <1>2, <1>3 DEF RestoreRows, Step

LEMMA RestoreFileKeeps ==
    ASSUME IInv, NEW a \in Actors, RestoreFile(a)
    PROVE  IInv'
<1> DEFINE b == Restored(a)
           m == [act[a] EXCEPT !.pc = "index"]
<1>1. act[a].pc = "file"
      /\ UNCHANGED <<row, index, sidebar, backups, writes>>
  BY DEF RestoreFile
<1>2. CASE FailUndo(a) /\ UNCHANGED file
  <2>1. act' \in [Actors -> Acts] /\ out' \in [Actors -> Results] /\ AllPlaced'
    BY <1>1, <1>2, FailType DEF FailUndo, Statuses
  <2>2. QED
    BY <1>1, <1>2, <2>1, StoreKept
<1>3. CASE file' = (IF b.file = 0 THEN file ELSE b.file)
           /\ act' = [act EXCEPT ![a] = m] /\ UNCHANGED out
  <2>1. act' \in [Actors -> Acts] /\ out' \in [Actors -> Results] /\ AllPlaced'
    BY <1>1, <1>3, SamePlace, StepKept
  <2> HIDE DEF m
  <2>2. act[a].undo[act[a].pos] \in DOMAIN backups /\ b \in Backups
        /\ b = backups[act[a].undo[act[a].pos]]
    BY <1>1, RestoredType DEF Restored
  <2> HIDE DEF b
  <2>3. file' \in Nat
    BY <1>3, <2>2 DEF IInv, Shape, Backups
  <2>4. file' = 1 => file = 1 \/ FileSaved
    BY <1>3, <2>2 DEF FileSaved
  <2>5. RowKept' /\ FileKept'
    BY <1>1, <2>4, VersionsKept
  <2>6. QED
    BY <1>1, <2>1, <2>3, <2>5 DEF IInv, Shape
<1>4. QED
  BY <1>2, <1>3 DEF RestoreFile, Step

LEMMA RestoreIndexKeeps ==
    ASSUME IInv, NEW a \in Actors, RestoreIndex(a)
    PROVE  IInv'
<1> DEFINE m == act[a]
<1>1. m.pc = "index" /\ UNCHANGED <<row, file, backups, writes>>
  BY DEF RestoreIndex
<1>2. index' \in BOOLEAN /\ sidebar' \in BOOLEAN
  <2>1. Restored(a) \in Backups
    BY <1>1, RestoredType
  <2>2. Restored(a).index \in BOOLEAN /\ Restored(a).sidebar \in BOOLEAN
    BY <2>1 DEF Backups
  <2>3. index \in BOOLEAN /\ sidebar \in BOOLEAN
    BY DEF IInv, Shape
  <2>4. index' = index \/ index' = (index \/ Restored(a).index)
    BY DEF RestoreIndex
  <2>5. sidebar' = sidebar \/ sidebar' = (sidebar \/ Restored(a).sidebar)
    BY DEF RestoreIndex
  <2>6. QED
    BY <2>2, <2>3, <2>4, <2>5
<1>3. act' \in [Actors -> Acts] /\ out' \in [Actors -> Results] /\ AllPlaced'
  <2>1. CASE /\ m.pos < Len(m.undo)
             /\ Step(a, [m EXCEPT !.pc = "rows", !.pos = @ + 1])
             /\ UNCHANGED out
    <3> DEFINE new == [m EXCEPT !.pc = "rows", !.pos = m.pos + 1]
    <3>1. m \in Acts /\ Placed(m) /\ m.pos \in Nat /\ m.undo \in Seq(Nat)
      BY ActType
    <3>2. m.pos + 1 \in DOMAIN m.undo
      BY <2>1, <3>1
    <3>3. act' = [act EXCEPT ![a] = new]
      BY <2>1 DEF Step
    <3>4. new = [m EXCEPT !.pc = "rows", !.pos = m.pos + 1]
      OBVIOUS
    <3>5. UNCHANGED <<backups, out>>
      BY <1>1, <2>1
    <3> HIDE DEF m, new
    <3>6. new = [pc |-> "rows", at |-> m.at, pos |-> m.pos + 1, token |-> m.token,
                 undo |-> m.undo, best |-> m.best]
      BY <3>1, <3>4 DEF Acts
    <3>7. new \in Acts /\ Placed(new)
      BY <3>1, <3>2, <3>6 DEF Acts, Placed
    <3>8. QED
      BY <3>3, <3>5, <3>7, StepKept
  <2>2. CASE \E status \in {"undone", "failed"} :
               out' = [out EXCEPT ![a].status = status] /\ Step(a, Idle)
    BY <1>1, <2>2, FailType DEF Statuses
  <2>3. QED
    BY <2>1, <2>2 DEF RestoreIndex, FailUndo
<1>4. RowKept' /\ FileKept'
  BY <1>1, VersionsKept
<1>5. QED
  BY <1>1, <1>2, <1>3, <1>4 DEF IInv, Shape

LEMMA CrashKeeps ==
    ASSUME IInv, NEW a \in Actors, Crash(a)
    PROVE  IInv'
<1> DEFINE result == [status |-> "none", undo |-> <<>>]
<1>1. result \in Results /\ Name(result.undo)
  BY DEF Results, Statuses, Name
<1>2. UNCHANGED <<row, file, index, sidebar, backups, writes>>
      /\ act' = [act EXCEPT ![a] = Idle] /\ out' = [out EXCEPT ![a] = result]
  BY DEF Crash, Step, store
<1> HIDE DEF result
<1>3. act' \in [Actors -> Acts] /\ out' \in [Actors -> Results] /\ AllPlaced'
  BY <1>1, <1>2, EndKept
<1>4. QED
  BY <1>2, <1>3, StoreKept

LEMMA AppWritesKeeps ==
    ASSUME IInv, AppWrites
    PROVE  IInv'
<1>1. UNCHANGED <<backups, act, out>> /\ writes' = writes + 1
  BY DEF AppWrites
<1>2. writes \in Nat /\ row \in [Db -> Nat] /\ file \in Nat
  BY DEF IInv, Shape
<1>3. row' = row \/ \E d \in Db : row' = [row EXCEPT ![d] = writes + 2]
  BY DEF AppWrites
<1>4. row' \in [Db -> Nat] /\ \A d \in Db : row'[d] = 1 => row[d] = 1
  BY <1>2, <1>3
<1>5. file' \in Nat /\ (file' = 1 => file = 1)
  BY <1>2 DEF AppWrites
<1>6. index' \in BOOLEAN /\ sidebar' \in BOOLEAN
  BY DEF AppWrites, IInv, Shape
<1>7. RowKept' /\ FileKept'
  BY <1>1, <1>4, <1>5, VersionsKept
<1>8. AllPlaced'
  BY <1>1 DEF IInv, AllPlaced, Placed, Name
<1>9. QED
  BY <1>1, <1>2, <1>4, <1>5, <1>6, <1>7, <1>8 DEF IInv, Shape

LEMMA InitHolds == Init => IInv
<1> SUFFICES ASSUME Init PROVE IInv
  OBVIOUS
<1>1. row \in [Db -> Nat] /\ file \in Nat /\ writes \in Nat
      /\ index \in BOOLEAN /\ sidebar \in BOOLEAN
  BY DEF Init
<1>2. backups = <<>> /\ backups \in Seq(Backups) /\ DOMAIN backups = {}
  BY DEF Init
<1>3. act \in [Actors -> Acts] /\ \A a \in Actors : Placed(act[a])
  BY IdleType DEF Init, Placed, Name
<1>4. out \in [Actors -> Results] /\ \A a \in Actors : Name(out[a].undo)
  <2> DEFINE result == [status |-> "none", undo |-> <<>>]
  <2>1. result \in Results /\ Name(result.undo)
    BY DEF Results, Statuses, Name
  <2>2. out = [a \in Actors |-> result]
    BY DEF Init
  <2> HIDE DEF result
  <2>3. QED
    BY <2>1, <2>2
<1>5. RowKept /\ FileKept
  BY <1>2 DEF RowKept, FileKept
<1>6. QED
  BY <1>1, <1>2, <1>3, <1>4, <1>5 DEF IInv, Shape, AllPlaced

LEMMA NextCounts == Counted /\ [Next]_vars => Counted'
<1> SUFFICES ASSUME Counted, [Next]_vars PROVE Counted'
  OBVIOUS
<1>1. CASE AppWrites
  BY <1>1, StorageAssumption DEF Counted, AppWrites
<1>2. ASSUME NEW a \in Actors, BeginDelete(a) \/ BeginUndo(a)
      PROVE  Counted'
  BY <1>2, StorageAssumption DEF Counted, BeginDelete, BeginUndo
<1>3. CASE UNCHANGED <<ops, writes>>
  BY <1>3 DEF Counted
<1>4. QED
  BY <1>1, <1>2, <1>3 DEF Next, vars, Delete, Undo, WriteBackup, Commit, RemoveFile,
     Clean, EndDelete, CheckUndo, RestoreRows, RestoreFile, RestoreIndex, Crash

LEMMA NextKeeps == IInv /\ Counted /\ [Next]_vars => IInv'
<1> SUFFICES ASSUME IInv, Counted, [Next]_vars PROVE IInv'
  OBVIOUS
<1>1. ASSUME NEW a \in Actors, Delete(a)
      PROVE  IInv'
  BY <1>1, BeginDeleteKeeps, WriteBackupKeeps, CommitKeeps, RemoveFileKeeps,
     CleanKeeps, EndDeleteKeeps DEF Delete
<1>2. ASSUME NEW a \in Actors, Undo(a)
      PROVE  IInv'
  BY <1>2, BeginUndoKeeps, CheckUndoKeeps, RestoreRowsKeeps, RestoreFileKeeps,
     RestoreIndexKeeps DEF Undo
<1>3. CASE UNCHANGED vars
  <2>1. AllPlaced' /\ act' \in [Actors -> Acts] /\ out' \in [Actors -> Results]
    BY <1>3 DEF vars, IInv, Shape, AllPlaced, Placed, Name
  <2>2. QED
    BY <1>3, <2>1, StoreKept DEF vars, store
<1>4. QED
  BY <1>1, <1>2, <1>3, CrashKeeps, AppWritesKeeps DEF Next

LEMMA RowRemoval ==
    ASSUME IInv, Next, NEW d \in Db, row[d] # 0, row'[d] = 0
    PROVE  \E t \in DOMAIN backups :
              backups[t].db = d /\ (backups[t].row = row[d] \/ row[d] > 1)
<1>1. row \in [Db -> Nat] /\ row[d] \in Nat /\ writes \in Nat
  BY DEF IInv, Shape
<1>2. PICK a \in Actors : Commit(a)
  <2>1. ~ AppWrites
    <3>1. SUFFICES ASSUME AppWrites PROVE FALSE
      OBVIOUS
    <3>2. PICK e \in Db : row' = [row EXCEPT ![e] = writes + 2]
      BY <3>1 DEF AppWrites
    <3>3. row'[d] = IF d = e THEN writes + 2 ELSE row[d]
      BY <1>1, <3>2
    <3>4. QED
      BY <1>1, <3>3
  <2>2. ASSUME NEW a \in Actors, RestoreRows(a) PROVE FALSE
    <3> DEFINE b == Restored(a)
    <3>1. row[b.db] = 0 /\ row' = [row EXCEPT ![b.db] = b.row]
      BY <2>2 DEF RestoreRows
    <3> HIDE DEF b
    <3>2. d # b.db
      BY <3>1
    <3>3. row'[d] = row[d]
      BY <1>1, <3>1, <3>2
    <3>4. QED
      BY <3>3
  <2>3. QED
    BY <2>1, <2>2 DEF Next, Delete, Undo, store, BeginDelete, WriteBackup,
       RemoveFile, Clean, EndDelete, BeginUndo, CheckUndo, RestoreFile,
       RestoreIndex, Crash
<1>3. act[a].pc = "commit" /\ row' \in {row, [row EXCEPT ![Current(a)] = 0]}
  BY <1>2 DEF Commit
<1>4. d = Current(a)
  BY <1>1, <1>3
<1>5. act[a].token \in DOMAIN backups /\ backups[act[a].token].db = d
  BY <1>3, <1>4, TokenType
<1>6. CASE row[d] = 1
  BY <1>5, <1>6 DEF IInv, RowKept, RowSaved
<1>7. CASE row[d] # 1
  BY <1>1, <1>5, <1>7
<1>8. QED
  BY <1>6, <1>7

LEMMA FileRemoval ==
    ASSUME IInv, Next, file # 0, file' = 0
    PROVE  \E t \in DOMAIN backups : backups[t].file # 0
              /\ (backups[t].file = file \/ file > 1)
<1>1. file \in Nat /\ writes \in Nat
  BY DEF IInv, Shape
<1>2. ~ AppWrites
  BY <1>1 DEF AppWrites
<1>3. ASSUME NEW a \in Actors, RestoreFile(a) PROVE FALSE
  BY <1>1, <1>3 DEF RestoreFile
<1>4. PICK a \in Actors : RemoveFile(a)
  BY <1>2, <1>3 DEF Next, Delete, Undo, store, BeginDelete, WriteBackup,
     Commit, Clean, EndDelete, BeginUndo, CheckUndo, RestoreRows,
     RestoreIndex, Crash
<1>5. act[a].pc = "remove" /\ backups[act[a].token].file # 0
  BY <1>4 DEF RemoveFile
<1>6. act[a].token \in DOMAIN backups
  BY <1>5, TokenType
<1>7. CASE file = 1
  BY <1>5, <1>6, <1>7 DEF IInv, FileKept, FileSaved
<1>8. CASE file # 1
  BY <1>1, <1>5, <1>6, <1>8
<1>9. QED
  BY <1>7, <1>8

(* Whatever call fails and whoever dies, what a deletion removes from a    *)
(* database, and the file it removes, is in a backup that was written      *)
(* before (delete_from_adapter writes the backup before its transaction):  *)
(* with any number of processes, databases, operations and faults.         *)
THEOREM RemovalsBackedUp == Spec => RemovedIsBackedUp
<1>1. Init => IInv /\ Counted
  BY InitHolds, StorageAssumption DEF Init, Counted
<1>2. IInv /\ Counted /\ [Next]_vars => IInv' /\ Counted'
  BY NextKeeps, NextCounts
<1>3. IInv /\ [Next]_vars => [RemovalsSaved]_vars
  BY RowRemoval, FileRemoval DEF RemovalsSaved
<1>4. QED
  BY <1>1, <1>2, <1>3, PTL DEF Spec, RemovedIsBackedUp

-----------------------------------------------------------------------------
(* The type invariant: versions within their bound, and what a backup      *)
(* holds is a row that was there.                                          *)
Saved == [db : Db, row : Versions \ {0}, job : BOOLEAN,
          file : Versions, index : BOOLEAN, sidebar : BOOLEAN]

Bounded == /\ row \in [Db -> Versions] /\ file \in Versions
           /\ job \in [Db -> {"none", "ours", "free", "other"}]
           /\ backups \in Seq(Saved)
           /\ \A a \in Actors : act[a].token \in 0..Len(backups)
           /\ faults \subseteq FaultKinds

LEMMA VersionBounds ==
    /\ Versions \subseteq Nat /\ 0 \in Versions /\ 1 \in Versions
    /\ \A n \in 0..MaxWrites : n < MaxWrites => n + 2 \in Versions
  BY StorageAssumption DEF Versions

LEMMA TypesAreTight == IInv /\ Counted /\ Bounded => TypeOK
<1> SUFFICES ASSUME IInv, Counted, Bounded PROVE TypeOK
  OBVIOUS
<1>1. index \in BOOLEAN /\ sidebar \in BOOLEAN
  BY DEF IInv, Shape
<1>2. ASSUME NEW a \in Actors
      PROVE  /\ act[a].token \in 0..Len(backups)
             /\ Range(act[a].undo) \subseteq 1..Len(backups)
             /\ Range(out[a].undo) \subseteq 1..Len(backups)
             /\ out[a].status \in Statuses
  <2>1. /\ act[a].undo \in Seq(Nat) /\ out[a].undo \in Seq(Nat)
        /\ out[a].status \in Statuses
    BY ActType DEF Acts, Results
  <2>2. Name(act[a].undo) /\ Name(out[a].undo)
    BY ActType DEF Placed
  <2>3. DOMAIN backups = 1..Len(backups)
    BY DEF Bounded
  <2>4. QED
    BY <2>1, <2>2, <2>3 DEF Bounded, Name, Range
<1>3. QED
  BY <1>1, <1>2 DEF TypeOK, Bounded, Counted, Saved

LEMMA FaultsTyped ==
    ASSUME faults \subseteq FaultKinds, [Next]_vars
    PROVE  faults' \subseteq FaultKinds
<1>1. CASE UNCHANGED faults
  BY <1>1
<1>2. CASE \E kind \in FaultKinds : Fails(kind)
  BY <1>2 DEF Fails
<1>3. QED
  BY <1>1, <1>2 DEF Next, vars, Delete, Undo, BeginDelete, WriteBackup, Commit,
     RemoveFile, Clean, EndDelete, BeginUndo, CheckUndo, RestoreRows, RestoreFile,
     RestoreIndex, Crash, AppWrites, Forget, Works, FaultKinds

(* What a step of a process leaves of the token it holds.                  *)
LEMMA TokensTyped ==
    ASSUME IInv, Bounded, NEW a \in Actors, Delete(a) \/ Undo(a) \/ Crash(a),
           Len(backups) \in Nat, Len(backups') \in Nat, Len(backups') >= Len(backups),
           WriteBackup(a) => act'[a].token \in {0, Len(backups')}
    PROVE  \A c \in Actors : act'[c].token \in 0..Len(backups')
<1> DEFINE m == act[a]
<1>1. act \in [Actors -> Acts] /\ m \in Acts
  BY DEF IInv, Shape
<1>2. \A n : Step(a, n) => act'[a] = n /\ \A c \in Actors \ {a} : act'[c] = act[c]
  BY <1>1 DEF Step
<1>3. m.token \in 0..Len(backups') /\ 0 \in 0..Len(backups')
  BY DEF Bounded
<1>4. CASE \E n : Step(a, n) /\ n.token \in {0, m.token, Len(backups')}
  BY <1>2, <1>3, <1>4 DEF Bounded
<1>5. \A c : NextDb(a, c).token = 0
  BY <1>1 DEF NextDb, Acts
<1>6. \A p : [m EXCEPT !.pc = p].token = m.token
  BY <1>1 DEF Acts
<1>7. \A p, q : [m EXCEPT !.pc = p, !.pos = q].token = m.token
  BY <1>1 DEF Acts
<1>8. \A p, q, r : [m EXCEPT !.pc = p, !.pos = q, !.at = r].token = m.token
  BY <1>1 DEF Acts
<1>9. CASE WriteBackup(a)
  BY <1>2, <1>4, <1>9 DEF WriteBackup
<1>10. CASE Commit(a)
  BY <1>4, <1>5, <1>6, <1>10 DEF Commit
<1>11. CASE RemoveFile(a)
  BY <1>4, <1>5, <1>6, <1>11 DEF RemoveFile
<1>12. CASE Clean(a)
  BY <1>4, <1>5, <1>12 DEF Clean
<1>13. CASE Step(a, Idle)
  BY <1>4, <1>13, IdleType
<1>14. CASE BeginDelete(a)
  <2>1. [Idle EXCEPT !.pc = "backup", !.pos = 1].token = 0
    BY IdleType DEF Acts
  <2>2. QED
    BY <1>4, <1>14, <2>1 DEF BeginDelete
<1>15. CASE BeginUndo(a)
  <2>1. [Idle EXCEPT !.pc = "check", !.undo = out[a].undo].token = 0
    BY IdleType DEF Acts
  <2>2. QED
    BY <1>4, <1>15, <2>1 DEF BeginUndo
<1>16. CASE CheckUndo(a)
  <2> DEFINE now == Now(a)
             n == [m EXCEPT !.pc = "rows", !.pos = 1, !.at = now]
  <2>1. Step(a, Idle) \/ Step(a, n)
    BY <1>16 DEF CheckUndo
  <2> HIDE DEF now
  <2>2. n.token = m.token
    BY <1>8
  <2> HIDE DEF n
  <2>3. QED
    BY <1>4, <1>13, <2>1, <2>2
<1>17. CASE RestoreRows(a) \/ RestoreFile(a)
  BY <1>4, <1>6, <1>13, <1>17 DEF RestoreRows, RestoreFile, FailUndo
<1>18. CASE RestoreIndex(a)
  BY <1>4, <1>7, <1>13, <1>18 DEF RestoreIndex, FailUndo
<1>19. QED
  BY <1>9, <1>10, <1>11, <1>12, <1>13, <1>14, <1>15, <1>16, <1>17, <1>18
     DEF Delete, Undo, EndDelete, Crash

LEMMA BoundedStep ==
    ASSUME IInv, Counted, Bounded, [Next]_vars
    PROVE  Bounded'
<1>1. faults' \subseteq FaultKinds
  BY FaultsTyped DEF Bounded
<1>2. /\ backups \in Seq(Saved) /\ Len(backups) \in Nat
      /\ row \in [Db -> Versions] /\ file \in Versions
      /\ job \in [Db -> {"none", "ours", "free", "other"}]
  BY DEF Bounded
<1>3. CASE UNCHANGED vars
  BY <1>1, <1>2, <1>3 DEF vars, store, Bounded
<1>4. CASE AppWrites
  <2>1. writes + 2 \in Versions /\ UNCHANGED <<act, backups>>
    BY <1>4, VersionBounds DEF AppWrites, Counted
  <2>2. file' \in Versions
    BY <1>2, <1>4, <2>1 DEF AppWrites
  <2>3. row' \in [Db -> Versions]
    <3>1. row' = row \/ \E d \in Db : row' = [row EXCEPT ![d] = writes + 2]
      BY <1>4 DEF AppWrites
    <3>2. QED
      BY <1>2, <2>1, <3>1
  <2>4. job' \in [Db -> {"none", "ours", "free", "other"}]
    <3>1. job' = job \/ \E d \in Db : job' = [job EXCEPT ![d] = "other"]
      BY <1>4 DEF AppWrites
    <3>2. QED
      BY <1>2, <3>1
  <2>5. QED
    BY <1>1, <2>1, <2>2, <2>3, <2>4 DEF Bounded
<1>5. ASSUME NEW a \in Actors, Delete(a) \/ Undo(a) \/ Crash(a)
      PROVE  Bounded'
  <2>1. CASE WriteBackup(a) /\ ~UNCHANGED backups
    <3>1. PICK readable \in BOOLEAN :
             /\ backups' = Append(backups,
                   [db |-> Current(a), row |-> row[Current(a)],
                    job |-> job[Current(a)] = "ours",
                    file |-> IF readable THEN file ELSE 0,
                    index |-> index, sidebar |-> sidebar])
             /\ Step(a, [act[a] EXCEPT !.pc = "commit", !.token = Len(backups) + 1])
             /\ row[Current(a)] # 0
      BY <2>1 DEF WriteBackup
    <3> DEFINE mine == job[Current(a)] = "ours"
               kept == IF readable THEN file ELSE 0
               b == [db |-> Current(a), row |-> row[Current(a)], job |-> mine,
                     file |-> kept, index |-> index, sidebar |-> sidebar]
    <3>2. mine \in BOOLEAN /\ kept \in Versions
      BY <1>2, VersionBounds
    <3>3. Current(a) \in Db
      <4>1. act[a].pos \in DOMAIN Dbs
        BY <2>1, ActType DEF WriteBackup, Placed
      <4>2. QED
        BY <4>1, DbType DEF Current
    <3>4. /\ row[Current(a)] \in Versions \ {0}
          /\ index \in BOOLEAN /\ sidebar \in BOOLEAN
      BY <1>2, <3>1, <3>3 DEF IInv, Shape
    <3>5. backups' = Append(backups, b)
      BY <3>1
    <3> HIDE DEF mine, kept
    <3>6. b \in Saved
      BY <3>2, <3>3, <3>4 DEF Saved
    <3> HIDE DEF b
    <3>7. backups' \in Seq(Saved) /\ Len(backups') = Len(backups) + 1
      BY <1>2, <3>5, <3>6
    <3>8. act'[a].token = Len(backups')
      <4> DEFINE m == act[a]
                 n == Len(backups) + 1
      <4>1. act \in [Actors -> Acts] /\ m \in Acts
        BY DEF IInv, Shape
      <4>2. act'[a] = [m EXCEPT !.pc = "commit", !.token = n]
        BY <3>1, <4>1 DEF Step
      <4>3. [m EXCEPT !.pc = "commit", !.token = n].token = n
        BY <4>1 DEF Acts
      <4>4. QED
        BY <3>7, <4>2, <4>3
    <3>9. \A c \in Actors : act'[c].token \in 0..Len(backups')
      BY <1>2, <1>5, <3>7, <3>8, TokensTyped
    <3>10. UNCHANGED <<row, file, job>>
      BY <2>1 DEF WriteBackup, store
    <3>11. QED
      BY <1>1, <1>2, <3>7, <3>9, <3>10 DEF Bounded
  <2>2. CASE UNCHANGED backups
    <3>1. WriteBackup(a) => act'[a].token \in {0, Len(backups')}
      <4>1. SUFFICES ASSUME WriteBackup(a) PROVE act'[a].token = 0
        OBVIOUS
      <4>2. \A b : backups' # Append(backups, b)
        BY <1>2, <2>2
      <4>3. \E c : Step(a, NextDb(a, c))
        BY <4>1, <4>2 DEF WriteBackup
      <4>4. act \in [Actors -> Acts] /\ act[a] \in Acts
        BY DEF IInv, Shape
      <4>5. \A c : NextDb(a, c).token = 0
        BY <4>4 DEF NextDb, Acts
      <4>6. QED
        BY <4>3, <4>4, <4>5 DEF Step
    <3>2. \A c \in Actors : act'[c].token \in 0..Len(backups')
      BY <1>2, <1>5, <2>2, <3>1, TokensTyped
    <3>3. file' \in Versions
      <4>1. file' \in {file, 0} \/ (RestoreFile(a) /\ file' = Restored(a).file)
        BY <1>5 DEF Delete, Undo, Crash, store, BeginDelete, WriteBackup, Commit,
           RemoveFile, Clean, EndDelete, BeginUndo, CheckUndo, RestoreRows,
           RestoreFile, RestoreIndex
      <4>2. RestoreFile(a) => Restored(a) \in Saved
        BY <1>2, RestoredType DEF RestoreFile, Restored
      <4>3. QED
        BY <1>2, <4>1, <4>2, VersionBounds DEF Saved
    <3>4. row' \in [Db -> Versions]
      <4>1. \/ row' = row
            \/ row' = [row EXCEPT ![Current(a)] = 0]
            \/ /\ RestoreRows(a)
               /\ row' = [row EXCEPT ![Restored(a).db] = Restored(a).row]
        BY <1>5 DEF Delete, Undo, Crash, store, BeginDelete, WriteBackup, Commit,
           RemoveFile, Clean, EndDelete, BeginUndo, CheckUndo, RestoreRows,
           RestoreFile, RestoreIndex
      <4>2. RestoreRows(a) => Restored(a) \in Saved
        <5>1. RestoreRows(a) => act[a].pc = "rows"
          BY DEF RestoreRows
        <5>2. QED
          BY <1>2, <5>1, RestoredType DEF Restored
      <4> DEFINE b == Restored(a)
      <4>3. b \in Saved => b.row \in Versions
        BY DEF Saved
      <4> HIDE DEF b
      <4>4. CASE row' = [row EXCEPT ![b.db] = b.row] /\ b.row \in Versions
        BY <1>2, <4>4
      <4>5. CASE row' = [row EXCEPT ![Current(a)] = 0]
        BY <1>2, <4>5, VersionBounds
      <4>6. QED
        BY <1>2, <4>1, <4>2, <4>3, <4>4, <4>5 DEF b
    <3>5. job' \in [Db -> {"none", "ours", "free", "other"}]
      <4>1. \/ job' = job
            \/ \E d : job' = [job EXCEPT ![d] = IF @ = "ours" THEN "free" ELSE @]
            \/ \E d : job' = [job EXCEPT ![d] = IF Restored(a).job THEN "ours" ELSE @]
        BY <1>5 DEF Delete, Undo, Crash, store, BeginDelete, WriteBackup, Commit,
           RemoveFile, Clean, EndDelete, BeginUndo, CheckUndo, RestoreRows,
           RestoreFile, RestoreIndex
      <4>2. QED
        BY <1>2, <4>1
    <3>6. QED
      BY <1>1, <1>2, <2>2, <3>2, <3>3, <3>4, <3>5 DEF Bounded
  <2>3. WriteBackup(a) \/ UNCHANGED backups
    BY <1>5 DEF Delete, Undo, Crash, BeginDelete, Commit, RemoveFile, Clean,
       EndDelete, BeginUndo, CheckUndo, RestoreRows, RestoreFile, RestoreIndex
  <2>4. QED
    BY <2>1, <2>2, <2>3
<1>6. QED
  BY <1>3, <1>4, <1>5 DEF Next

LEMMA BoundedInitially == Init => Bounded
<1> SUFFICES ASSUME Init PROVE Bounded
  OBVIOUS
<1>1. row \in [Db -> Versions] /\ file \in Versions
  BY VersionBounds DEF Init
<1>2. job \in [Db -> {"none", "ours", "free", "other"}]
  BY DEF Init
<1>3. backups = <<>> /\ faults = {} /\ \A a \in Actors : act[a] = Idle
  BY DEF Init
<1>4. QED
  BY <1>1, <1>2, <1>3, IdleType DEF Bounded
-----------------------------------------------------------------------------
(* An undo that nobody disturbs.  It knows that it is alone from the        *)
(* moment of its check on, since any operation begun and any write of the   *)
(* app moves the count; and while it has restored no file, none is there    *)
(* that a backup still to come would write over.                            *)
Restoring(m) == m.pc \in {"rows", "file", "index"}
Behind(m) == IF m.pc = "index" THEN m.pos ELSE m.pos - 1
NoFileYet(m, saved) == \A i \in 1..Behind(m) : saved[m.undo[i]].file = 0
WayIsFree(m, saved, there) ==
    \A i \in m.pos..Len(m.undo) : saved[m.undo[i]].file # 0 => there = 0

Stamped == \A a \in Actors : /\ act[a].at <= ops + writes
                             /\ act[a].pc # "idle" => ops > 0
AloneInUndo == \A a \in Actors : Restoring(act[a]) /\ Undisturbed(a)
                  => /\ Alone(a)
                     /\ NoFileYet(act[a], backups) => WayIsFree(act[a], backups, file)

(* A step of one process leaves the others where they are.                 *)
LEMMA OneMoves ==
    ASSUME IInv, NEW a \in Actors, Delete(a) \/ Undo(a) \/ Crash(a)
    PROVE  /\ \A b \in Actors \ {a} : act'[b] = act[b]
           /\ writes' = writes
           /\ act[a].pc # "idle" => ops' = ops
           /\ act[a].pc = "idle" => ops' = ops + 1
<1>1. act \in [Actors -> Acts]
  BY DEF IInv, Shape
<1>2. \E m : act' = [act EXCEPT ![a] = m]
  BY DEF Delete, Undo, Crash, BeginDelete, WriteBackup, Commit, RemoveFile, Clean,
     EndDelete, BeginUndo, CheckUndo, RestoreRows, RestoreFile, RestoreIndex,
     FailUndo, Step
<1>3. writes' = writes
  BY DEF Delete, Undo, Crash, BeginDelete, WriteBackup, Commit, RemoveFile, Clean,
     EndDelete, BeginUndo, CheckUndo, RestoreRows, RestoreFile, RestoreIndex
<1>4. act[a].pc # "idle" => ops' = ops
  BY DEF Delete, Undo, Crash, BeginDelete, WriteBackup, Commit, RemoveFile, Clean,
     EndDelete, BeginUndo, CheckUndo, RestoreRows, RestoreFile, RestoreIndex
<1>5. act[a].pc = "idle" => ops' = ops + 1
  BY DEF Delete, Undo, Crash, BeginDelete, WriteBackup, Commit, RemoveFile, Clean,
     EndDelete, BeginUndo, CheckUndo, RestoreRows, RestoreFile, RestoreIndex
<1>6. QED
  BY <1>1, <1>2, <1>3, <1>4, <1>5

(* Where a step of a process takes it, as far as an undo is concerned.     *)
LEMMA UndoMoves ==
    ASSUME IInv, Counted, NEW a \in Actors, Delete(a) \/ Undo(a) \/ Crash(a)
    PROVE  /\ act'[a].at \in {0, act[a].at, Now(a)}
           /\ act[a].pc = "idle" => act'[a].at = 0 /\ ~Restoring(act'[a])
           /\ act[a].pc # "idle" => act'[a].pc # "check"
           /\ Restoring(act'[a]) =>
                 \/ CheckUndo(a) /\ act'[a].at = Now(a) /\ act'[a].pos = 1
                       /\ act'[a].undo = act[a].undo /\ act'[a].pc = "rows"
                       /\ ~\E i \in DOMAIN act[a].undo :
                              Conflict(backups[act[a].undo[i]])
                 \/ RestoreRows(a) /\ act'[a].at = act[a].at /\ act'[a].pos = act[a].pos
                       /\ act'[a].undo = act[a].undo /\ act'[a].pc = "file"
                 \/ RestoreFile(a) /\ act'[a].at = act[a].at /\ act'[a].pos = act[a].pos
                       /\ act'[a].undo = act[a].undo /\ act'[a].pc = "index"
                       /\ file' = IF Restored(a).file = 0 THEN file
                                  ELSE Restored(a).file
                 \/ RestoreIndex(a) /\ act'[a].at = act[a].at
                       /\ act'[a].pos = act[a].pos + 1
                       /\ act'[a].undo = act[a].undo /\ act'[a].pc = "rows"
<1> DEFINE m == act[a]
<1>1. act \in [Actors -> Acts] /\ m \in Acts
  BY DEF IInv, Shape
<1>2. \A n : Step(a, n) => act'[a] = n
  BY <1>1 DEF Step
<1>3. CASE act'[a] = Idle
  BY <1>3, IdleType DEF Restoring
<1>4. CASE BeginDelete(a) \/ BeginUndo(a)
  <2>1. act'[a].at = 0 /\ act'[a].pc \in {"backup", "check"}
    BY <1>2, <1>4, IdleType DEF BeginDelete, BeginUndo, Idle
  <2>2. QED
    BY <1>4, <2>1 DEF Restoring, BeginDelete, BeginUndo
<1>5. CASE WriteBackup(a) \/ Commit(a) \/ RemoveFile(a) \/ Clean(a)
  <2>1. act[a].pc # "idle" /\ act[a].pc \in {"backup", "commit", "remove", "clean"}
    BY <1>5 DEF WriteBackup, Commit, RemoveFile, Clean
  <2>2. \A c : /\ NextDb(a, c).at = m.at
               /\ NextDb(a, c).pc \in {"backup", "end"}
    BY <1>1 DEF NextDb, Acts
  <2>3. act'[a].at = m.at /\ act'[a].pc \in {"backup", "end", "commit", "remove", "clean"}
    <3>1. CASE \E c : act'[a] = NextDb(a, c)
      BY <2>2, <3>1
    <3>2. CASE \E t \in Nat : act'[a] = [m EXCEPT !.pc = "commit", !.token = t]
      BY <1>1, <3>2 DEF Acts
    <3>3. CASE \E p \in {"remove", "clean"} : act'[a] = [m EXCEPT !.pc = p]
      BY <1>1, <3>3 DEF Acts
    <3>4. Len(backups) + 1 \in Nat
      BY DEF IInv, Shape
    <3>5. CASE WriteBackup(a)
      BY <1>2, <3>1, <3>2, <3>4, <3>5 DEF WriteBackup
    <3>6. CASE Commit(a)
      BY <1>2, <3>1, <3>3, <3>6 DEF Commit
    <3>7. CASE RemoveFile(a)
      BY <1>2, <3>1, <3>3, <3>7 DEF RemoveFile
    <3>8. CASE Clean(a)
      BY <1>2, <3>1, <3>8 DEF Clean
    <3>9. QED
      BY <1>5, <3>5, <3>6, <3>7, <3>8
  <2>4. QED
    BY <2>1, <2>3 DEF Restoring
<1>6. CASE CheckUndo(a) /\ act'[a] # Idle
  <2>1. /\ act[a].pc = "check"
        /\ act'[a] = [m EXCEPT !.pc = "rows", !.pos = 1, !.at = Now(a)]
        /\ ~\E i \in DOMAIN act[a].undo : Conflict(backups[act[a].undo[i]])
    BY <1>2, <1>6 DEF CheckUndo
  <2>2. act'[a].at = Now(a) /\ act'[a].pos = 1 /\ act'[a].undo = m.undo
        /\ act'[a].pc = "rows"
    <3> DEFINE now == Now(a)
    <3>1. act'[a] = [m EXCEPT !.pc = "rows", !.pos = 1, !.at = now]
      BY <2>1
    <3> HIDE DEF now
    <3>2. QED
      BY <1>1, <3>1 DEF Acts, now
  <2>3. QED
    BY <1>6, <2>1, <2>2
<1>7. CASE RestoreRows(a) /\ act'[a] # Idle
  <2>1. act[a].pc = "rows" /\ act'[a] = [m EXCEPT !.pc = "file"]
    BY <1>2, <1>7 DEF RestoreRows, FailUndo
  <2>2. QED
    BY <1>1, <1>7, <2>1 DEF Acts
<1>8. CASE RestoreFile(a) /\ act'[a] # Idle
  <2>1. act[a].pc = "file" /\ act'[a] = [m EXCEPT !.pc = "index"]
        /\ file' = IF Restored(a).file = 0 THEN file ELSE Restored(a).file
    BY <1>2, <1>8 DEF RestoreFile, FailUndo
  <2>2. QED
    BY <1>1, <1>8, <2>1 DEF Acts
<1>9. CASE RestoreIndex(a) /\ act'[a] # Idle
  <2>1. act[a].pc = "index" /\ act'[a] = [m EXCEPT !.pc = "rows", !.pos = @ + 1]
    BY <1>2, <1>9 DEF RestoreIndex, FailUndo
  <2>2. QED
    BY <1>1, <1>9, <2>1 DEF Acts
<1>10. CASE EndDelete(a) \/ Crash(a)
  BY <1>2, <1>3, <1>10 DEF EndDelete, Crash
<1>11. QED
  BY <1>3, <1>4, <1>5, <1>6, <1>7, <1>8, <1>9, <1>10 DEF Delete, Undo

LEMMA StampStep ==
    ASSUME IInv, Counted, Stamped, [Next]_vars
    PROVE  Stamped'
<1>1. ops \in Nat /\ writes \in Nat
  BY StorageAssumption DEF Counted
<1>2. ASSUME NEW a \in Actors, Delete(a) \/ Undo(a) \/ Crash(a)
      PROVE  Stamped'
  <2>1. /\ \A b \in Actors \ {a} : act'[b] = act[b]
        /\ writes' = writes /\ ops' \in {ops, ops + 1}
        /\ act[a].pc # "idle" => ops' = ops
        /\ act[a].pc = "idle" => ops' = ops + 1
    BY <1>2, OneMoves
  <2>2. act'[a].at \in {0, act[a].at, Now(a)} /\ act[a].at \in Nat
    BY <1>2, UndoMoves DEF IInv, Shape, Acts
  <2>3. Now(a) \in {0, ops + writes}
    BY DEF Now
  <2>4. act'[a].at <= ops' + writes'
    BY <1>1, <2>1, <2>2, <2>3 DEF Stamped
  <2>5. ops' > 0
    BY <1>1, <2>1 DEF Stamped
  <2>6. ASSUME NEW b \in Actors \ {a}
        PROVE  act'[b].at <= ops' + writes'
    <3>1. act[b].at <= ops + writes /\ act[b].at \in Nat
      BY DEF Stamped, IInv, Shape, Acts
    <3>2. QED
      BY <1>1, <2>1, <3>1
  <2>7. QED
    BY <2>1, <2>4, <2>5, <2>6 DEF Stamped
<1>3. CASE AppWrites
  <2>1. UNCHANGED <<act, ops>> /\ writes' = writes + 1
    BY <1>3 DEF AppWrites
  <2>2. ASSUME NEW a \in Actors
        PROVE  act'[a].at <= ops' + writes' /\ (act'[a].pc # "idle" => ops' > 0)
    <3>1. act[a].at <= ops + writes /\ act[a].at \in Nat
      BY DEF Stamped, IInv, Shape, Acts
    <3>2. QED
      BY <1>1, <2>1, <3>1 DEF Stamped
  <2>3. QED
    BY <2>2 DEF Stamped
<1>4. CASE UNCHANGED vars
  BY <1>4 DEF vars, Stamped
<1>5. QED
  BY <1>2, <1>3, <1>4 DEF Next

(* An undo that is undisturbed after a step was so before it.              *)
LEMMA UndisturbedBefore ==
    ASSUME IInv, Counted, Stamped, NEW a \in Actors, NEW c \in Actors,
           Delete(c) \/ Undo(c) \/ Crash(c), Undisturbed(a)', Restoring(act'[a])
    PROVE  /\ writes' = writes /\ ops' = ops
           /\ act[c].pc # "idle" /\ act[a].pc # "idle"
           /\ a = c \/ (Undisturbed(a) /\ Restoring(act[a]))
<1>1. ops \in Nat /\ writes \in Nat
  BY StorageAssumption DEF Counted
<1>2. /\ \A b \in Actors \ {c} : act'[b] = act[b]
      /\ writes' = writes
      /\ act[c].pc # "idle" => ops' = ops
      /\ act[c].pc = "idle" => ops' = ops + 1
  BY OneMoves
<1>3. act'[a].at = ops' + writes'
  BY DEF Undisturbed
<1>4. act[c].pc # "idle"
  <2>1. SUFFICES ASSUME act[c].pc = "idle" PROVE FALSE
    OBVIOUS
  <2>2. ~Restoring(act'[c])
    BY <2>1, UndoMoves
  <2>3. a # c
    BY <2>2
  <2>4. act'[a].at = act[a].at /\ act[a].at <= ops + writes /\ act[a].at \in Nat
    BY <1>2, <2>3 DEF Stamped, IInv, Shape, Acts
  <2>5. QED
    BY <1>1, <1>2, <1>3, <2>1, <2>4
<1>5. a # c => Undisturbed(a) /\ Restoring(act[a])
  BY <1>2, <1>3, <1>4 DEF Undisturbed
<1>6. QED
  BY <1>2, <1>4, <1>5 DEF Restoring

LEMMA AloneStep ==
    ASSUME IInv, IInv', Counted, Stamped, AloneInUndo, NEW c \in Actors,
           Delete(c) \/ Undo(c) \/ Crash(c),
           NEW a \in Actors, Restoring(act'[a]), Undisturbed(a)'
    PROVE  Alone(a)' /\ (NoFileYet(act'[a], backups') => WayIsFree(act'[a], backups', file'))
<1>1. ops \in Nat /\ writes \in Nat
  BY StorageAssumption DEF Counted
<1>2. /\ \A b \in Actors \ {c} : act'[b] = act[b]
      /\ writes' = writes /\ ops' = ops /\ act[c].pc # "idle"
  BY OneMoves, UndisturbedBefore
<1>3. act'[a].at = ops + writes
  BY <1>2 DEF Undisturbed
<1>4. a = c
  BY <1>2, UndisturbedBefore DEF AloneInUndo, Alone
<1>5. ops > 0
  BY <1>2 DEF Stamped
<1> DEFINE m == act[a]
<1>6. m \in Acts /\ Placed(m) /\ m.pos \in Nat /\ m.undo \in Seq(Nat)
  BY ActType
<1>7. CASE CheckUndo(a) /\ act'[a].at = Now(a) /\ act'[a].pos = 1
              /\ act'[a].undo = m.undo /\ act'[a].pc = "rows"
              /\ ~\E i \in DOMAIN m.undo : Conflict(backups[m.undo[i]])
  <2>1. Alone(a)
    BY <1>1, <1>3, <1>5, <1>7 DEF Now
  <2>2. Alone(a)'
    BY <1>2, <1>4, <2>1 DEF Alone
  <2>3. UNCHANGED <<backups, file>>
    BY <1>7 DEF CheckUndo, store
  <2>4. \A i \in 1..Len(m.undo) : backups[m.undo[i]].file # 0 => file = 0
    <3>1. \A b : ~Conflict(b) => (b.file # 0 => file = 0)
      BY Zenon DEF Conflict
    <3>2. \A i \in 1..Len(m.undo) : ~Conflict(backups[m.undo[i]])
      BY <1>6, <1>7
    <3>3. QED
      BY <3>1, <3>2
  <2>5. WayIsFree(act'[a], backups', file')
    BY <1>7, <2>3, <2>4 DEF WayIsFree
  <2>6. QED
    BY <2>2, <2>5
<1>8. CASE /\ Restoring(m) /\ Undisturbed(a)
           /\ UNCHANGED backups /\ act'[a].undo = m.undo
           /\ \/ m.pc = "rows" /\ act'[a].pc = "file" /\ act'[a].pos = m.pos
                    /\ UNCHANGED file
              \/ m.pc = "file" /\ act'[a].pc = "index" /\ act'[a].pos = m.pos
                    /\ file' = IF backups[m.undo[m.pos]].file = 0 THEN file
                               ELSE backups[m.undo[m.pos]].file
              \/ m.pc = "index" /\ act'[a].pc = "rows" /\ act'[a].pos = m.pos + 1
                    /\ UNCHANGED file
  <2>1. Alone(a) /\ (NoFileYet(m, backups) => WayIsFree(m, backups, file))
    BY <1>8 DEF AloneInUndo
  <2>2. Alone(a)'
    BY <1>2, <1>4, <2>1 DEF Alone
  <2>3. ASSUME NoFileYet(act'[a], backups')
        PROVE  WayIsFree(act'[a], backups', file')
    <3>1. \A i \in 1..Behind(act'[a]) : backups[m.undo[i]].file = 0
      BY <1>8, <2>3 DEF NoFileYet
    <3>2. /\ Behind(m) \in {m.pos, m.pos - 1}
          /\ Behind(act'[a]) = IF m.pc = "rows" THEN m.pos - 1 ELSE m.pos
      BY <1>6, <1>8 DEF Behind
    <3>3. Behind(m) = IF m.pc = "index" THEN m.pos ELSE m.pos - 1
      BY DEF Behind
    <3>4. 1..Behind(m) \subseteq 1..Behind(act'[a])
      BY <1>6, <3>2, <3>3
    <3>5. WayIsFree(m, backups, file)
      BY <2>1, <3>1, <3>4 DEF NoFileYet
    <3>6. m.pos \in 1..Len(m.undo)
      BY <1>6, <1>8 DEF Placed, Restoring
    <3>7. file' = file
      <4>1. CASE m.pc = "file"
        <5>1. m.pos \in 1..Behind(act'[a])
          BY <1>6, <3>2, <3>6, <4>1
        <5>2. QED
          BY <1>8, <3>1, <4>1, <5>1
      <4>2. QED
        BY <1>8, <4>1
    <3>8. act'[a].pos \in {m.pos, m.pos + 1}
      BY <1>8
    <3>9. act'[a].pos..Len(m.undo) \subseteq m.pos..Len(m.undo)
      BY <1>6, <3>8
    <3>10. QED
      BY <1>8, <3>5, <3>7, <3>9 DEF WayIsFree
  <2>4. QED
    BY <2>2, <2>3
<1>9. CASE RestoreRows(a) /\ act'[a].at = m.at /\ act'[a].pos = m.pos
              /\ act'[a].undo = m.undo /\ act'[a].pc = "file"
  BY <1>3, <1>8, <1>9 DEF RestoreRows, Restoring, Undisturbed
<1>10. CASE RestoreFile(a) /\ act'[a].at = m.at /\ act'[a].pos = m.pos
              /\ act'[a].undo = m.undo /\ act'[a].pc = "index"
              /\ file' = IF Restored(a).file = 0 THEN file ELSE Restored(a).file
  BY <1>3, <1>8, <1>10 DEF RestoreFile, Restoring, Undisturbed, Restored
<1>11. CASE RestoreIndex(a) /\ act'[a].at = m.at /\ act'[a].pos = m.pos + 1
              /\ act'[a].undo = m.undo /\ act'[a].pc = "rows"
  BY <1>3, <1>8, <1>11 DEF RestoreIndex, Restoring, Undisturbed
<1>12. QED
  BY <1>4, <1>7, <1>9, <1>10, <1>11, UndoMoves

LEMMA AloneHolds ==
    ASSUME IInv, IInv', Counted, Stamped, AloneInUndo, [Next]_vars
    PROVE  AloneInUndo'
<1>1. ASSUME NEW c \in Actors, Delete(c) \/ Undo(c) \/ Crash(c)
      PROVE  AloneInUndo'
  <2>1. ASSUME NEW a \in Actors, Restoring(act'[a]), Undisturbed(a)'
        PROVE  /\ Alone(a)'
               /\ NoFileYet(act'[a], backups') => WayIsFree(act'[a], backups', file')
    BY <1>1, <2>1, AloneStep
  <2>2. QED
    BY <2>1 DEF AloneInUndo
<1>2. CASE AppWrites
  <2>1. UNCHANGED <<act, ops>> /\ writes' = writes + 1
    BY <1>2 DEF AppWrites
  <2>2. ASSUME NEW a \in Actors PROVE ~Undisturbed(a)'
    <3>1. ops \in Nat /\ writes \in Nat
      BY StorageAssumption DEF Counted
    <3>2. act[a].at <= ops + writes /\ act[a].at \in Nat
      BY DEF Stamped, IInv, Shape, Acts
    <3>3. QED
      BY <2>1, <3>1, <3>2 DEF Undisturbed
  <2>3. QED
    BY <2>2 DEF AloneInUndo
<1>3. CASE UNCHANGED vars
  BY <1>3 DEF vars, store, AloneInUndo, Alone, Undisturbed
<1>4. QED
  BY <1>1, <1>2, <1>3 DEF Next

LEMMA NothingOverwritten ==
    ASSUME IInv, Counted, Bounded, Stamped, AloneInUndo, Next
    PROVE  OverwritesNothing
<1> SUFFICES ASSUME NEW a \in Actors, Restoring(act[a]), Undisturbed(a),
                    act'[a] # act[a], UNCHANGED <<writes, ops>>
             PROVE  /\ \A d \in Db : row[d] # 0 => row'[d] = row[d]
                    /\ \A d \in Db : job[d] = "other" => job'[d] = "other"
                    /\ file # 0 /\ (\A i \in 1..act[a].pos - 1 :
                                       backups[act[a].undo[i]].file = 0)
                         => file' = file
  BY DEF OverwritesNothing, Restoring
<1>1. Undo(a) \/ Crash(a)
  <2>1. ~AppWrites
    BY DEF AppWrites
  <2>2. PICK c \in Actors : Delete(c) \/ Undo(c) \/ Crash(c)
    BY <2>1 DEF Next
  <2>3. a = c
    BY <2>2, OneMoves
  <2>4. ~Delete(a)
    BY DEF Delete, BeginDelete, WriteBackup, Commit, RemoveFile, Clean, EndDelete,
       Restoring
  <2>5. QED
    BY <2>2, <2>3, <2>4
<1>2. row \in [Db -> Nat] /\ job \in [Db -> {"none", "ours", "free", "other"}]
  BY DEF Bounded, IInv, Shape
<1>3. CASE RestoreRows(a) /\ ~UNCHANGED <<row, job>>
  <2> DEFINE b == Restored(a)
  <2>1. /\ row[b.db] = 0 /\ row' = [row EXCEPT ![b.db] = b.row]
        /\ b.job => job[b.db] = "free"
        /\ job' = [job EXCEPT ![b.db] = IF b.job THEN "ours" ELSE @]
        /\ file' = file
    BY <1>3 DEF RestoreRows
  <2>2. b \in Backups
    BY <1>3, RestoredType DEF RestoreRows
  <2> HIDE DEF b
  <2>3. \A d \in Db : row[d] # 0 => row'[d] = row[d]
    BY <1>2, <2>1
  <2>4. \A d \in Db : job[d] = "other" => job'[d] = "other"
    <3>1. CASE b.job
      BY <1>2, <2>1, <3>1
    <3>2. CASE ~b.job
      BY <1>2, <2>1, <3>2
    <3>3. QED
      BY <3>1, <3>2
  <2>5. QED
    BY <2>1, <2>3, <2>4
<1>4. CASE RestoreFile(a) /\ ~UNCHANGED file
  <2>1. /\ act[a].pc = "file" /\ UNCHANGED <<row, job>>
        /\ Restored(a).file # 0
    BY <1>4 DEF RestoreFile
  <2>2. ASSUME \A i \in 1..act[a].pos - 1 : backups[act[a].undo[i]].file = 0
        PROVE  file = 0
    <3>1. NoFileYet(act[a], backups)
      BY <2>1, <2>2 DEF NoFileYet, Behind
    <3>2. WayIsFree(act[a], backups, file)
      BY <3>1 DEF AloneInUndo
    <3>3. act[a].pos \in act[a].pos..Len(act[a].undo)
      BY <2>1, ActType DEF Placed
    <3>4. QED
      BY <2>1, <3>2, <3>3 DEF WayIsFree, Restored
  <2>3. QED
    BY <2>1, <2>2
<1>5. UNCHANGED <<row, job, file>> \/ (RestoreRows(a) /\ ~UNCHANGED <<row, job>>)
         \/ (RestoreFile(a) /\ ~UNCHANGED file)
  BY <1>1 DEF Undo, Crash, store, BeginUndo, CheckUndo, RestoreRows, RestoreFile,
     RestoreIndex
<1>6. QED
  BY <1>3, <1>4, <1>5

(* An undo that is alone, while the app does not write, writes over no row, *)
(* no job another conversation has, and no file but one it restored itself, *)
(* though only the rows are looked at again after the check of the backups  *)
(* (restore_backups): with any number of databases, processes and faults.   *)
THEOREM UndosOverwriteNothing == Spec => UndoOverwritesNothing
<1> DEFINE Inv == IInv /\ Counted /\ Bounded /\ Stamped /\ AloneInUndo
<1>1. Init => Inv
  <2>1. Init => IInv /\ Counted /\ Bounded
    BY InitHolds, BoundedInitially, StorageAssumption DEF Init, Counted
  <2>2. ASSUME Init PROVE Stamped /\ AloneInUndo
    <3>1. \A a \in Actors : act[a] = Idle
      BY <2>2 DEF Init
    <3>2. ops = 0 /\ writes = 0
      BY <2>2 DEF Init
    <3>3. QED
      BY <3>1, <3>2, IdleType DEF Stamped, AloneInUndo, Restoring
  <2>3. QED
    BY <2>1, <2>2
<1>2. Inv /\ [Next]_vars => Inv'
  <2>1. IInv /\ Counted /\ [Next]_vars => IInv' /\ Counted'
    BY NextKeeps, NextCounts
  <2>2. IInv /\ Counted /\ Stamped /\ [Next]_vars => Stamped'
    BY StampStep
  <2>3. IInv /\ Counted /\ Bounded /\ [Next]_vars => Bounded'
    BY BoundedStep
  <2>4. QED
    BY <2>1, <2>2, <2>3, AloneHolds
<1>3. Inv /\ [Next]_vars => [OverwritesNothing]_vars
  BY NothingOverwritten
<1>4. QED
  BY <1>1, <1>2, <1>3, PTL DEF Spec, UndoOverwritesNothing

-----------------------------------------------------------------------------
(* The first two operations, while the app writes nothing and only backups, *)
(* transactions and restored rows fail.  What is missing against what was  *)
(* there is in a backup whose token is among those in "left".              *)
Mild == {"backup", "commit", "restore"}
Calm == writes = 0 /\ faults \subseteq Mild
Freed(j) == IF j = "ours" THEN "free" ELSE j

RowsBack(left, rows, jobs, saved, w) ==
    \A d \in Db : \/ rows[d] = w.row[d] /\ jobs[d] = w.job[d]
                  \/ /\ rows[d] = 0 /\ jobs[d] = Freed(w.job[d])
                     /\ \E t \in left : saved[t].db = d
FileBack(left, there, saved, w) ==
    /\ there \in {0, w.file}
    /\ there = w.file \/ \E t \in left : saved[t].file # 0
RefsBack(left, listed, shown, saved, w) ==
    /\ listed => w.index
    /\ shown => w.sidebar
    /\ w.index => listed \/ \E t \in left : saved[t].index
    /\ w.sidebar => shown \/ \E t \in left : saved[t].sidebar

(* A backup holds what was there, or a part of it.                         *)
TrueBackup(b, w) == /\ b.row = w.row[b.db] /\ b.row # 0
                    /\ b.job <=> w.job[b.db] = "ours"
                    /\ b.file \in {0, w.file}
                    /\ b.index => w.index
                    /\ b.sidebar => w.sidebar
BackupsTrue(saved, w) == \A t \in DOMAIN saved : TrueBackup(saved[t], w)

(* The tokens a deletion has so far, with the one of the database it is at. *)
Done(m) == IF m.best.status = "deleted" THEN Range(m.best.undo) ELSE {}
Gone(m) == IF m.pc \in {"remove", "clean"} THEN Done(m) \cup {m.token} ELSE Done(m)
Deleting(m) == m.pc \in {"backup", "commit", "remove", "clean", "end"}

RowsStand(undo, rows, saved) == \A t \in Range(undo) : rows[saved[t].db] # 0

(* A deletion under way: what it removed is in its backups; what a failure *)
(* would offer to undo is still there.                                     *)
DeletionStands(m, rows, jobs, there, listed, shown, saved, w) ==
    /\ RowsBack(Gone(m), rows, jobs, saved, w)
    /\ FileBack(Gone(m), there, saved, w)
    /\ RefsBack(Gone(m), listed, shown, saved, w)
    /\ m.pc \in {"commit", "remove", "clean"} =>
          /\ listed <=> saved[m.token].index
          /\ shown <=> saved[m.token].sidebar
    /\ m.pc = "commit" => rows[saved[m.token].db] # 0
    /\ m.pc \in {"backup", "commit", "end"} /\ m.best.status # "deleted" =>
          RowsStand(m.best.undo, rows, saved)

(* What a finished deletion offers to undo: either the undo will refuse, or *)
(* the backups have all that is missing.                                   *)
OfferStands(undo, rows, jobs, there, listed, shown, saved, w) ==
    \/ RowsStand(undo, rows, saved)
    \/ /\ RowsBack(Range(undo), rows, jobs, saved, w)
       /\ FileBack(Range(undo), there, saved, w)
       /\ RefsBack(Range(undo), listed, shown, saved, w)

(* An undo under way: what is missing is in the backups still to come.     *)
From(undo, p) == {undo[i] : i \in p..Len(undo)}
UndoStands(m, rows, jobs, there, listed, shown, saved, w) ==
    /\ RowsBack(From(m.undo, IF m.pc = "rows" THEN m.pos ELSE m.pos + 1),
                rows, jobs, saved, w)
    /\ FileBack(From(m.undo, IF m.pc = "index" THEN m.pos + 1 ELSE m.pos),
                there, saved, w)
    /\ RefsBack(From(m.undo, m.pos), listed, shown, saved, w)

LEMMA RowsReturned ==
    ASSUME NEW undo \in Seq(Nat), NEW p \in 1..Len(undo), NEW rows \in [Db -> Nat],
           NEW jobs \in [Db -> {"none", "ours", "free", "other"}], NEW saved, NEW w, NEW b,
           b = saved[undo[p]], b.db \in Db, TrueBackup(b, w),
           RowsBack(From(undo, p), rows, jobs, saved, w),
           rows[b.db] = 0, b.job => jobs[b.db] = "free",
           NEW rows2, rows2 = [rows EXCEPT ![b.db] = b.row],
           NEW jobs2, jobs2 = [jobs EXCEPT ![b.db] = IF b.job THEN "ours" ELSE @]
    PROVE  RowsBack(From(undo, p + 1), rows2, jobs2, saved, w)
<1> DEFINE d == b.db
<1>1. d \in Db /\ rows[d] = 0 /\ w.row[d] # 0 /\ b.row = w.row[d]
  BY DEF TrueBackup
<1>2. jobs[d] = Freed(w.job[d])
  BY <1>1 DEF RowsBack
<1>3. jobs2[d] = w.job[d]
  <2>1. CASE b.job
    <3>1. w.job[d] = "ours"
      BY <2>1 DEF TrueBackup
    <3>2. jobs2[d] = "ours"
      BY <1>1, <2>1
    <3>3. QED
      BY <3>1, <3>2
  <2>2. CASE ~b.job
    <3>1. w.job[d] # "ours"
      BY <2>2 DEF TrueBackup
    <3>2. jobs2[d] = jobs[d]
      BY <1>1, <2>2
    <3>3. QED
      BY <1>2, <3>1, <3>2 DEF Freed
  <2>3. QED
    BY <2>1, <2>2
<1>4. rows2[d] = w.row[d]
  BY <1>1
<1>5. ASSUME NEW e \in Db, e # d
      PROVE  /\ rows2[e] = rows[e] /\ jobs2[e] = jobs[e]
             /\ (\E t \in From(undo, p) : saved[t].db = e)
                   => \E t \in From(undo, p + 1) : saved[t].db = e
  <2>1. rows2[e] = rows[e] /\ jobs2[e] = jobs[e]
    BY <1>1, <1>5
  <2>2. ASSUME NEW i \in p..Len(undo), saved[undo[i]].db = e
        PROVE  \E t \in From(undo, p + 1) : saved[t].db = e
    <3>1. i # p
      BY <1>5, <2>2
    <3>2. i \in p + 1..Len(undo)
      BY <3>1
    <3>3. undo[i] \in From(undo, p + 1)
      BY <3>2 DEF From
    <3>4. QED
      BY <2>2, <3>3
  <2>3. QED
    BY <2>1, <2>2 DEF From
<1> HIDE DEF d
<1>6. ASSUME NEW e \in Db, e # d
      PROVE  \/ rows2[e] = w.row[e] /\ jobs2[e] = w.job[e]
             \/ /\ rows2[e] = 0 /\ jobs2[e] = Freed(w.job[e])
                /\ \E t \in From(undo, p + 1) : saved[t].db = e
  <2>1. \/ rows[e] = w.row[e] /\ jobs[e] = w.job[e]
        \/ /\ rows[e] = 0 /\ jobs[e] = Freed(w.job[e])
           /\ \E t \in From(undo, p) : saved[t].db = e
    BY DEF RowsBack
  <2>2. QED
    BY <1>5, <1>6, <2>1
<1>7. QED
  BY <1>3, <1>4, <1>6, Zenon DEF RowsBack

LEMMA FileReturned ==
    ASSUME NEW undo \in Seq(Nat), NEW p \in 1..Len(undo), NEW there,
           NEW saved, NEW w, NEW b, b = saved[undo[p]], TrueBackup(b, w),
           FileBack(From(undo, p), there, saved, w),
           NEW there2, there2 = IF b.file = 0 THEN there ELSE b.file
    PROVE  FileBack(From(undo, p + 1), there2, saved, w)
<1>1. CASE b.file # 0
  BY <1>1 DEF FileBack, TrueBackup
<1>2. CASE b.file = 0
  <2>1. ASSUME NEW i \in p..Len(undo), saved[undo[i]].file # 0
        PROVE  \E t \in From(undo, p + 1) : saved[t].file # 0
    <3>1. i \in p + 1..Len(undo)
      BY <1>2, <2>1
    <3>2. undo[i] \in From(undo, p + 1)
      BY <3>1 DEF From
    <3>3. QED
      BY <2>1, <3>2
  <2>2. QED
    BY <1>2, <2>1 DEF FileBack, From
<1>3. QED
  BY <1>1, <1>2

LEMMA FromSplits ==
    ASSUME NEW undo \in Seq(Nat), NEW p \in 1..Len(undo)
    PROVE  \A t \in From(undo, p) : t = undo[p] \/ t \in From(undo, p + 1)
<1>1. ASSUME NEW i \in p..Len(undo)
      PROVE  i = p \/ i \in p + 1..Len(undo)
  OBVIOUS
<1>2. QED
  BY <1>1 DEF From

LEMMA ConcatHas ==
    ASSUME NEW s \in Seq(Nat), NEW t \in Seq(Nat)
    PROVE  /\ s \o t \in Seq(Nat)
           /\ \A i \in DOMAIN s : i \in DOMAIN (s \o t) /\ (s \o t)[i] = s[i]
           /\ \A i \in DOMAIN t : /\ Len(s) + i \in DOMAIN (s \o t)
                                 /\ (s \o t)[Len(s) + i] = t[i]
<1>1. s \o t \in Seq(Nat) /\ DOMAIN (s \o t) = 1 .. Len(s) + Len(t)
  OBVIOUS
<1>2. DOMAIN s = 1 .. Len(s) /\ DOMAIN t = 1 .. Len(t) /\ Len(s) \in Nat /\ Len(t) \in Nat
  OBVIOUS
<1>3. ASSUME NEW i \in 1 .. Len(s)
      PROVE  i \in 1 .. Len(s) + Len(t) /\ (s \o t)[i] = s[i]
  BY <1>2
<1>4. ASSUME NEW i \in 1 .. Len(t)
      PROVE  Len(s) + i \in 1 .. Len(s) + Len(t) /\ (s \o t)[Len(s) + i] = t[i]
  BY <1>2
<1>5. QED
  BY <1>1, <1>2, <1>3, <1>4

(* What going on to the next database makes of the tokens.                 *)
LEMMA NextTokens ==
    ASSUME IInv, NEW a \in Actors, act[a].pc \in {"backup", "commit", "clean"},
           NEW candidate \in Results, NEW n, n = NextDb(a, candidate)
    PROVE  /\ n.pc \in {"backup", "end"} /\ Done(act[a]) \subseteq Done(n)
           /\ candidate.status = "deleted" =>
                 Range(candidate.undo) \subseteq Done(n) /\ n.best.status = "deleted"
           /\ n.best.status # "deleted" => n.best = candidate
<1> DEFINE m == act[a]
           merged == Merged(m.best, candidate)
<1>1. m \in Acts /\ m.best \in Results
  BY ActType
<1>2. n.pc \in {"backup", "end"} /\ n.best = merged
  BY <1>1 DEF NextDb, Acts
<1>3. m.best.undo \in Seq(Nat) /\ candidate.undo \in Seq(Nat)
  BY <1>1 DEF Results
<1>4. CASE candidate.status = "deleted" /\ m.best.status = "deleted"
  <2> DEFINE s == m.best.undo
             t == candidate.undo
             both == s \o t
  <2>1. both \in Seq(Nat)
        /\ (\A i \in DOMAIN s : i \in DOMAIN both /\ both[i] = s[i])
        /\ \A i \in DOMAIN t : Len(s) + i \in DOMAIN both /\ both[Len(s) + i] = t[i]
    BY <1>3, ConcatHas
  <2>2. merged = [candidate EXCEPT !.undo = both]
    BY <1>1, <1>4 DEF Merged, Results
  <2> HIDE DEF both
  <2>3. merged.status = "deleted" /\ merged.undo = both
    BY <1>4, <2>1, <2>2 DEF Results
  <2> HIDE DEF merged
  <2>4. Range(s) \subseteq Range(both) /\ Range(t) \subseteq Range(both)
    BY <2>1 DEF Range
  <2>5. QED
    BY <1>2, <1>4, <2>3, <2>4 DEF Done
<1>5. CASE candidate.status = "deleted" /\ m.best.status # "deleted"
  <2>1. merged = candidate
    BY <1>1, <1>5 DEF Merged, Results
  <2>2. QED
    BY <1>2, <1>5, <2>1 DEF Done
<1>6. CASE candidate.status # "deleted"
  <2>1. merged = IF m.best.status = "deleted" THEN m.best ELSE candidate
    BY <1>6 DEF Merged
  <2>2. QED
    BY <1>2, <1>6, <2>1 DEF Done
<1>7. QED
  BY <1>4, <1>5, <1>6

Untouched == row = was.row /\ job = was.job /\ file = was.file
             /\ index = was.index /\ sidebar = was.sidebar
Snapshots == [row : [Db -> {0, 1}], job : [Db -> {"ours", "none"}], file : {0, 1},
              index : BOOLEAN, sidebar : BOOLEAN]
Undoing(m) == m.pc \in {"check", "rows", "file", "index"}

NothingOffered == \A b \in Actors : out[b].undo = <<>>
OnlyOffer(a) == /\ \A b \in Actors : act[b].pc = "idle"
                /\ \A b \in Actors \ {a} : out[b].undo = <<>>

Before == ops = 0 =>
    /\ backups = <<>>
    /\ \A a \in Actors : act[a].pc = "idle" /\ out[a].undo = <<>>
    /\ writes = 0 => Untouched

First == ops = 1 /\ Calm =>
    /\ BackupsTrue(backups, was)
    /\ \A a \in Actors :
          /\ act[a].pc # "idle" =>
                /\ Deleting(act[a]) /\ Alone(a) /\ NothingOffered
                /\ DeletionStands(act[a], row, job, file, index, sidebar, backups, was)
          /\ out[a].undo # <<>> =>
                /\ OnlyOffer(a)
                /\ OfferStands(out[a].undo, row, job, file, index, sidebar, backups, was)

Second == ops = 2 /\ Calm =>
    \A a \in Actors : Undoing(act[a]) =>
        /\ BackupsTrue(backups, was) /\ Alone(a)
        /\ act[a].pc = "check" =>
              OfferStands(act[a].undo, row, job, file, index, sidebar, backups, was)
        /\ Restoring(act[a]) =>
              UndoStands(act[a], row, job, file, index, sidebar, backups, was)

Story == was \in Snapshots /\ Before /\ First /\ Second

(* Everything a step needs of the types.                                   *)
Sound == IInv /\ Counted /\ Bounded /\ Stamped

LEMMA SoundStep == Sound /\ [Next]_vars => Sound'
  BY NextKeeps, NextCounts, BoundedStep, StampStep DEF Sound

LEMMA SoundInitially == Init => Sound
<1> SUFFICES ASSUME Init PROVE Sound
  OBVIOUS
<1>1. IInv /\ Counted /\ Bounded
  BY InitHolds, BoundedInitially, StorageAssumption DEF Init, Counted
<1>2. \A a \in Actors : act[a] = Idle
  BY DEF Init
<1>3. Stamped
  BY <1>2, IdleType DEF Stamped, Init
<1>4. QED
  BY <1>1, <1>3 DEF Sound

LEMMA SoundTypes ==
    ASSUME Sound
    PROVE  /\ row \in [Db -> Nat] /\ job \in [Db -> {"none", "ours", "free", "other"}]
           /\ index \in BOOLEAN /\ sidebar \in BOOLEAN
           /\ ops \in Nat /\ writes \in Nat
           /\ act \in [Actors -> Acts] /\ out \in [Actors -> Results]
           /\ backups \in Seq(Saved) /\ backups \in Seq(Backups)
           /\ DOMAIN backups = 1..Len(backups) /\ Len(backups) \in Nat
  BY StorageAssumption DEF Sound, IInv, Shape, Counted, Bounded

(* Calm does not come back.                                                *)
LEMMA CalmBefore ==
    ASSUME Sound, [Next]_vars, Calm'
    PROVE  Calm /\ ~AppWrites /\ faults \subseteq faults'
<1>1. writes \in Nat
  BY SoundTypes
<1>2. ~AppWrites
  BY <1>1 DEF AppWrites, Calm
<1>3. UNCHANGED writes
  <2>1. \A a \in Actors : Delete(a) \/ Undo(a) \/ Crash(a) => UNCHANGED writes
    BY OneMoves DEF Sound
  <2>2. QED
    BY <1>2, <2>1 DEF Next, vars
<1>4. faults \subseteq faults'
  <2>1. CASE UNCHANGED faults
    BY <2>1
  <2>2. CASE \E kind : Fails(kind)
    BY <2>2 DEF Fails
  <2>3. QED
    BY <2>1, <2>2 DEF Next, vars, Delete, Undo, BeginDelete, WriteBackup, Commit,
       RemoveFile, Clean, EndDelete, BeginUndo, CheckUndo, RestoreRows, RestoreFile,
       RestoreIndex, Crash, AppWrites, Forget, Works
<1>5. QED
  BY <1>2, <1>3, <1>4 DEF Calm

(* A step of a deletion, from state to state.                              *)
LEMMA BackupStands ==
    ASSUME Sound, Sound', was \in Snapshots, Calm', NEW a \in Actors, WriteBackup(a),
           BackupsTrue(backups, was),
           DeletionStands(act[a], row, job, file, index, sidebar, backups, was)
    PROVE  /\ BackupsTrue(backups', was) /\ Deleting(act'[a])
           /\ DeletionStands(act'[a], row', job', file', index', sidebar', backups', was)
<1> DEFINE m == act[a]
           d == Current(a)
<1>1. /\ m.pc = "backup" /\ UNCHANGED <<row, job, file, index, sidebar>>
  BY DEF WriteBackup, store
<1>2. act \in [Actors -> Acts] /\ m \in Acts /\ Placed(m) /\ IInv /\ m.best \in Results
  BY ActType, SoundTypes DEF Sound
<1>3. d \in Db /\ m.pos \in DOMAIN Dbs
  <2>1. m.pos \in DOMAIN Dbs
    BY <1>1, <1>2 DEF Placed
  <2>2. QED
    BY <2>1, DbType DEF Current
<1>4. Gone(m) = Done(m) /\ Done(m) \subseteq DOMAIN backups
  BY <1>1, <1>2 DEF Gone, Done, Placed, Name, Range
<1>5. CASE Step(a, NextDb(a, Failed(0))) /\ UNCHANGED backups
  <2> DEFINE n == NextDb(a, Failed(0))
  <2>1. act'[a] = n
    BY <1>2, <1>5 DEF Step
  <2>2. Failed(0) \in Results /\ Failed(0).undo = <<>>
    BY ResultTypes DEF Failed
  <2>3. /\ n.pc \in {"backup", "end"} /\ Done(m) \subseteq Done(n)
        /\ n.best.status # "deleted" => n.best = Failed(0)
    BY <1>1, <1>2, <2>2, NextTokens
  <2> HIDE DEF n
  <2>4. Done(n) \subseteq Gone(n) /\ Done(m) \subseteq Gone(n)
    BY <2>3 DEF Gone
  <2>5. n.best.status # "deleted" => RowsStand(n.best.undo, row, backups)
    BY <2>2, <2>3 DEF RowsStand, Range
  <2>6. DeletionStands(n, row, job, file, index, sidebar, backups, was)
    BY <1>4, <2>3, <2>4, <2>5 DEF DeletionStands, RowsBack, FileBack, RefsBack
  <2>7. QED
    BY <1>1, <1>5, <2>1, <2>3, <2>6 DEF Deleting
<1>6. CASE ~UNCHANGED backups
  <2>1. PICK readable \in BOOLEAN :
           /\ backups' = Append(backups,
                 [db |-> Current(a), row |-> row[Current(a)],
                  job |-> job[Current(a)] = "ours",
                  file |-> IF readable THEN file ELSE 0,
                  index |-> index, sidebar |-> sidebar])
           /\ Step(a, [act[a] EXCEPT !.pc = "commit", !.token = Len(backups) + 1])
           /\ row[Current(a)] # 0
    BY <1>6 DEF WriteBackup
  <2> DEFINE mine == job[d] = "ours"
             kept == IF readable THEN file ELSE 0
             b == [db |-> d, row |-> row[d], job |-> mine,
                   file |-> kept, index |-> index, sidebar |-> sidebar]
             k == Len(backups) + 1
             n == [m EXCEPT !.pc = "commit", !.token = k]
  <2>2. backups' = Append(backups, b) /\ act'[a] = n
    BY <1>2, <2>1 DEF Step
  <2>3. RowsBack(Done(m), row, job, backups, was)
        /\ FileBack(Done(m), file, backups, was)
        /\ RefsBack(Done(m), index, sidebar, backups, was)
    BY <1>4 DEF DeletionStands
  <2>4. row[d] = was.row[d] /\ job[d] = was.job[d]
    BY <1>3, <2>1, <2>3 DEF RowsBack
  <2>5. kept \in {0, was.file}
    BY <2>3 DEF FileBack
  <2> HIDE DEF kept
  <2>6. b.row = was.row[b.db] /\ b.row # 0 /\ b.db = d /\ b.file \in {0, was.file}
    BY <2>1, <2>4, <2>5
  <2>7. b.job <=> was.job[b.db] = "ours"
    BY <2>4
  <2>8. (b.index <=> index) /\ (b.sidebar <=> sidebar)
    OBVIOUS
  <2> HIDE DEF mine, b
  <2>9. TrueBackup(b, was)
    BY <2>3, <2>6, <2>7, <2>8 DEF TrueBackup, RefsBack
  <2>10. /\ DOMAIN backups' = 1..Len(backups) + 1 /\ backups'[k] = b
         /\ \A t \in DOMAIN backups : t \in DOMAIN backups' /\ backups'[t] = backups[t]
    BY <2>2, SoundTypes
  <2>11. BackupsTrue(backups', was)
    <3>1. ASSUME NEW t \in DOMAIN backups' PROVE TrueBackup(backups'[t], was)
      <4>1. t = k \/ t \in DOMAIN backups
        BY <2>10, SoundTypes
      <4>2. QED
        BY <2>9, <2>10, <4>1 DEF BackupsTrue
    <3>2. QED
      BY <3>1 DEF BackupsTrue
  <2>12. n.pc = "commit" /\ n.token = k /\ n.best = m.best
    BY <1>2 DEF Acts
  <2> HIDE DEF n, k
  <2>13. Gone(n) = Done(m)
    BY <2>12 DEF Gone, Done
  <2>14. RowsBack(Done(m), row, job, backups', was)
         /\ FileBack(Done(m), file, backups', was)
         /\ RefsBack(Done(m), index, sidebar, backups', was)
    BY <1>4, <2>3, <2>10 DEF RowsBack, FileBack, RefsBack
  <2>15. m.best.status # "deleted" => RowsStand(m.best.undo, row, backups')
    <3>1. m.best.status # "deleted" => RowsStand(m.best.undo, row, backups)
      BY <1>1 DEF DeletionStands
    <3>2. Range(m.best.undo) \subseteq DOMAIN backups
      BY <1>2 DEF Placed, Name, Range
    <3>3. QED
      BY <2>10, <3>1, <3>2 DEF RowsStand
  <2>16. DeletionStands(n, row, job, file, index, sidebar, backups', was)
    <3>1. backups'[n.token] = b /\ n.pc = "commit" /\ n.best = m.best
      BY <2>10, <2>12
    <3>2. row[backups'[n.token].db] # 0
      BY <2>1, <2>6, <3>1
    <3>3. /\ index <=> backups'[n.token].index
          /\ sidebar <=> backups'[n.token].sidebar
      BY <2>8, <3>1
    <3>4. QED
      BY <2>13, <2>14, <2>15, <3>1, <3>2, <3>3, Zenon DEF DeletionStands
  <2>17. QED
    BY <1>1, <2>2, <2>11, <2>12, <2>16 DEF Deleting
<1>7. QED
  <2>1. ASSUME UNCHANGED backups PROVE Step(a, NextDb(a, Failed(0)))
    <3>1. backups \in Seq(Saved)
      BY SoundTypes
    <3>2. \A b : backups' # Append(backups, b)
      BY <2>1, <3>1
    <3>3. QED
      BY <3>2 DEF WriteBackup
  <2>2. QED
    BY <1>5, <1>6, <2>1

LEMMA CommitStands ==
    ASSUME Sound, Sound', was \in Snapshots, Calm', NEW a \in Actors, Commit(a),
           BackupsTrue(backups, was),
           DeletionStands(act[a], row, job, file, index, sidebar, backups, was)
    PROVE  /\ Deleting(act'[a])
           /\ DeletionStands(act'[a], row', job', file', index', sidebar', backups', was)
<1> DEFINE m == act[a]
           d == Current(a)
           t == m.token
<1>1. m.pc = "commit" /\ UNCHANGED <<file, index, sidebar, backups>>
  BY DEF Commit
<1>2. act \in [Actors -> Acts] /\ m \in Acts /\ Placed(m) /\ IInv /\ m.best \in Results
  BY ActType, SoundTypes DEF Sound
<1>3. t \in Nat /\ d \in Db /\ backups[t].db = d
  BY <1>1, <1>2, TokenType
<1>4. /\ RowsBack(Done(m), row, job, backups, was)
      /\ FileBack(Done(m), file, backups, was)
      /\ RefsBack(Done(m), index, sidebar, backups, was)
      /\ index <=> backups[t].index
      /\ sidebar <=> backups[t].sidebar
      /\ row[d] # 0
  BY <1>1, <1>3 DEF DeletionStands, Gone
<1>5. CASE Step(a, NextDb(a, Failed(t))) /\ UNCHANGED <<row, job>>
  <2> DEFINE n == NextDb(a, Failed(t))
             f == Failed(t)
  <2>1. act'[a] = n
    BY <1>2, <1>5 DEF Step
  <2>2. f \in Results /\ Range(f.undo) \subseteq {t}
    BY <1>3, ResultTypes DEF Failed, Range
  <2>3. /\ n.pc \in {"backup", "end"} /\ Done(m) \subseteq Done(n)
        /\ n.best.status # "deleted" => n.best = f
    BY <1>1, <1>2, <2>2, NextTokens
  <2> HIDE DEF n, f
  <2>4. Done(m) \subseteq Gone(n)
    BY <2>3 DEF Gone
  <2>5. n.best.status # "deleted" => RowsStand(n.best.undo, row, backups)
    BY <1>3, <1>4, <2>2, <2>3 DEF RowsStand
  <2>6. DeletionStands(n, row, job, file, index, sidebar, backups, was)
    BY <1>4, <2>3, <2>4, <2>5 DEF DeletionStands, RowsBack, FileBack, RefsBack
  <2>7. QED
    BY <1>1, <1>5, <2>1, <2>3, <2>6 DEF Deleting
<1>6. CASE /\ row' = [row EXCEPT ![d] = 0]
           /\ job' = [job EXCEPT ![d] = IF @ = "ours" THEN "free" ELSE @]
           /\ Step(a, [act[a] EXCEPT !.pc = "remove"])
  <2> DEFINE n == [m EXCEPT !.pc = "remove"]
  <2>1. act'[a] = n
    BY <1>2, <1>6 DEF Step
  <2>2. n.pc = "remove" /\ n.best = m.best /\ n.token = t
    BY <1>2 DEF Acts
  <2> HIDE DEF n
  <2>3. Gone(n) = Done(m) \cup {t}
    BY <2>2 DEF Gone, Done
  <2>4. RowsBack(Gone(n), row', job', backups, was)
    <3>1. row \in [Db -> Nat] /\ job \in [Db -> {"none", "ours", "free", "other"}]
      BY SoundTypes
    <3>2. Done(m) \subseteq Gone(n) /\ t \in Gone(n)
      BY <2>3
    <3> DEFINE left == Done(m)
               more == Gone(n)
               rows == row'
               jobs == job'
    <3>3. /\ left \subseteq more /\ t \in more
          /\ \A e \in Db : /\ rows[e] = (IF e = d THEN 0 ELSE row[e])
                           /\ jobs[e] = (IF e = d THEN Freed(job[e]) ELSE job[e])
      BY <1>6, <3>1, <3>2 DEF Freed
    <3> HIDE DEF d, t, left, more, rows, jobs
    <3>4. RowsBack(left, row, job, backups, was)
      BY <1>4 DEF left
    <3>5. RowsBack(more, rows, jobs, backups, was)
      <4>1. ASSUME NEW e \in Db
            PROVE  \/ rows[e] = was.row[e] /\ jobs[e] = was.job[e]
                   \/ /\ rows[e] = 0 /\ jobs[e] = Freed(was.job[e])
                      /\ \E u \in more : backups[u].db = e
        <5>1. CASE e = d
          <6>1. rows[e] = 0 /\ jobs[e] = Freed(job[e])
            BY <3>3, <5>1
          <6>2. Freed(job[e]) = Freed(was.job[e])
            BY <3>4 DEF RowsBack, Freed
          <6>3. t \in more /\ backups[t].db = e
            BY <1>3, <3>3, <5>1
          <6>4. QED
            BY <6>1, <6>2, <6>3
        <5>2. CASE e # d
          <6>1. rows[e] = row[e] /\ jobs[e] = job[e]
            BY <3>3, <5>2
          <6>2. left \subseteq more
            BY <3>3
          <6>3. QED
            BY <3>4, <6>1, <6>2 DEF RowsBack
        <5>3. QED
          BY <5>1, <5>2
      <4>2. QED
        BY <4>1 DEF RowsBack
    <3>6. QED
      BY <3>5 DEF more, rows, jobs
  <2>5. FileBack(Gone(n), file, backups, was)
        /\ RefsBack(Gone(n), index, sidebar, backups, was)
    BY <1>4, <2>3 DEF FileBack, RefsBack
  <2>6. DeletionStands(n, row', job', file, index, sidebar, backups, was)
    BY <1>4, <2>2, <2>4, <2>5, Zenon DEF DeletionStands
  <2>7. QED
    BY <1>1, <2>1, <2>2, <2>6 DEF Deleting
<1>7. QED
  BY <1>5, <1>6 DEF Commit

LEMMA RemovalStands ==
    ASSUME Sound, Sound', was \in Snapshots, Calm', NEW a \in Actors, RemoveFile(a),
           BackupsTrue(backups, was),
           DeletionStands(act[a], row, job, file, index, sidebar, backups, was)
    PROVE  /\ Deleting(act'[a])
           /\ DeletionStands(act'[a], row', job', file', index', sidebar', backups', was)
<1> DEFINE m == act[a]
           t == m.token
           n == [m EXCEPT !.pc = "clean"]
<1>1. ~Fails("file")
  BY DEF Fails, Calm, Mild
<1>2. /\ m.pc = "remove" /\ UNCHANGED <<row, job, sidebar, index, backups>>
      /\ file' = IF backups[t].file = 0 THEN file ELSE 0
      /\ Step(a, n)
  BY <1>1 DEF RemoveFile
<1>3. act \in [Actors -> Acts] /\ m \in Acts
  BY ActType, SoundTypes DEF Sound
<1>4. act'[a] = n
  BY <1>2, <1>3 DEF Step
<1>5. n.pc = "clean" /\ n.best = m.best /\ n.token = t
  BY <1>3 DEF Acts
<1> HIDE DEF n
<1>6. Gone(n) = Gone(m) /\ t \in Gone(m)
  BY <1>2, <1>5 DEF Gone, Done
<1>7. /\ RowsBack(Gone(m), row, job, backups, was)
      /\ FileBack(Gone(m), file, backups, was)
      /\ RefsBack(Gone(m), index, sidebar, backups, was)
      /\ index <=> backups[t].index
      /\ sidebar <=> backups[t].sidebar
  BY <1>2 DEF DeletionStands
<1>8. FileBack(Gone(m), file', backups, was)
  BY <1>2, <1>6, <1>7 DEF FileBack
<1>9. DeletionStands(n, row, job, file', index, sidebar, backups, was)
  BY <1>5, <1>6, <1>7, <1>8, Zenon DEF DeletionStands
<1>10. QED
  BY <1>2, <1>4, <1>5, <1>9 DEF Deleting

LEMMA CleaningStands ==
    ASSUME Sound, Sound', was \in Snapshots, Calm', NEW a \in Actors, Clean(a),
           BackupsTrue(backups, was),
           DeletionStands(act[a], row, job, file, index, sidebar, backups, was)
    PROVE  /\ Deleting(act'[a])
           /\ DeletionStands(act'[a], row', job', file', index', sidebar', backups', was)
<1> DEFINE m == act[a]
           t == m.token
           f == Deleted(t)
           n == NextDb(a, f)
<1>1. ~Fails("index")
  BY DEF Fails, Calm, Mild
<1>2. /\ m.pc = "clean" /\ UNCHANGED <<row, job, file, backups>>
      /\ index' = FALSE /\ sidebar' = FALSE
      /\ Step(a, n)
  BY <1>1 DEF Clean, Forget
<1>3. act \in [Actors -> Acts] /\ m \in Acts /\ IInv
  BY ActType, SoundTypes DEF Sound
<1>4. act'[a] = n /\ t \in Nat
  BY <1>2, <1>3 DEF Step, Acts
<1>5. f \in Results /\ f.status = "deleted" /\ t \in Range(f.undo)
  <2>1. f = [status |-> "deleted", undo |-> <<t>>]
    BY DEF Deleted
  <2>2. 1 \in DOMAIN f.undo /\ f.undo[1] = t
    BY <2>1
  <2>3. QED
    BY <1>4, <2>1, <2>2, ResultTypes DEF Range
<1> HIDE DEF f
<1>6. /\ n.pc \in {"backup", "end"} /\ Done(m) \subseteq Done(n)
      /\ t \in Done(n) /\ n.best.status = "deleted"
  BY <1>2, <1>3, <1>5, NextTokens
<1> HIDE DEF n
<1>7. Gone(m) \subseteq Gone(n) /\ t \in Gone(n)
  BY <1>2, <1>6 DEF Gone
<1>8. /\ RowsBack(Gone(m), row, job, backups, was)
      /\ FileBack(Gone(m), file, backups, was)
      /\ RefsBack(Gone(m), index, sidebar, backups, was)
      /\ index <=> backups[t].index
      /\ sidebar <=> backups[t].sidebar
  BY <1>2 DEF DeletionStands
<1>9. RowsBack(Gone(n), row, job, backups, was) /\ FileBack(Gone(n), file, backups, was)
  BY <1>7, <1>8 DEF RowsBack, FileBack
<1>10. RefsBack(Gone(n), FALSE, FALSE, backups, was)
  BY <1>7, <1>8 DEF RefsBack
<1>11. DeletionStands(n, row, job, file, FALSE, FALSE, backups, was)
  BY <1>6, <1>9, <1>10 DEF DeletionStands
<1>12. QED
  BY <1>2, <1>4, <1>6, <1>11 DEF Deleting

(* The end of a deletion leaves an offer.                                  *)
LEMMA EndStands ==
    ASSUME Sound, Sound', Calm', NEW a \in Actors, EndDelete(a),
           DeletionStands(act[a], row, job, file, index, sidebar, backups, was)
    PROVE  /\ act'[a].pc = "idle" /\ UNCHANGED backups
           /\ \A b \in Actors \ {a} : out'[b] = out[b]
           /\ OfferStands(out'[a].undo, row', job', file', index', sidebar', backups', was)
<1> DEFINE best == act[a].best
<1>1. act[a].pc = "end" /\ UNCHANGED <<row, job, file, backups>> /\ Step(a, Idle)
  BY DEF EndDelete
<1>2. act \in [Actors -> Acts] /\ act[a] \in Acts /\ best \in Results
      /\ out \in [Actors -> Results]
  BY ActType, SoundTypes DEF Sound
<1>3. act'[a].pc = "idle"
  BY <1>1, <1>2, IdleType DEF Step
<1>4. /\ RowsBack(Done(act[a]), row, job, backups, was)
      /\ FileBack(Done(act[a]), file, backups, was)
      /\ RefsBack(Done(act[a]), index, sidebar, backups, was)
      /\ best.status # "deleted" => RowsStand(best.undo, row, backups)
  BY <1>1 DEF DeletionStands, Gone
<1>5. CASE best.status = "deleted"
  <2>1. out' = [out EXCEPT ![a] = best] /\ UNCHANGED <<index, sidebar>>
    BY <1>5 DEF EndDelete
  <2>2. out'[a] = best /\ \A b \in Actors \ {a} : out'[b] = out[b]
    BY <1>2, <2>1
  <2>3. Done(act[a]) = Range(best.undo)
    BY <1>5 DEF Done
  <2>4. OfferStands(best.undo, row, job, file, index, sidebar, backups, was)
    BY <1>4, <2>3 DEF OfferStands
  <2>5. QED
    BY <1>1, <1>3, <2>1, <2>2, <2>4
<1>6. CASE best.status # "deleted"
  <2>1. PICK status : out' = [out EXCEPT ![a] = [best EXCEPT !.status = status]]
    BY <1>6 DEF EndDelete
  <2>2. [best EXCEPT !.status = status].undo = best.undo
    BY <1>2 DEF Results
  <2>3. out'[a].undo = best.undo /\ \A b \in Actors \ {a} : out'[b] = out[b]
    BY <1>2, <2>1, <2>2
  <2>4. OfferStands(best.undo, row, job, file, index', sidebar', backups, was)
    BY <1>4, <1>6 DEF OfferStands
  <2>5. QED
    BY <1>1, <1>3, <2>3, <2>4
<1>7. QED
  BY <1>5, <1>6

(* A step of an undo, from state to state.                                 *)
LEMMA FromAll == ASSUME NEW undo \in Seq(Nat) PROVE From(undo, 1) = Range(undo)
  BY DEF From, Range

LEMMA RestoredTrue ==
    ASSUME Sound, NEW a \in Actors, Restoring(act[a]), BackupsTrue(backups, was)
    PROVE  /\ act[a] \in Acts /\ act[a].undo \in Seq(Nat)
           /\ act[a].pos \in 1..Len(act[a].undo)
           /\ Restored(a) = backups[act[a].undo[act[a].pos]]
           /\ Restored(a).db \in Db /\ TrueBackup(Restored(a), was)
<1>1. act[a] \in Acts /\ act[a].undo \in Seq(Nat) /\ Placed(act[a]) /\ IInv
  BY ActType DEF Sound
<1>2. act[a].undo[act[a].pos] \in DOMAIN backups /\ Restored(a) \in Backups
  BY <1>1, RestoredType DEF Restoring
<1>3. QED
  BY <1>1, <1>2 DEF Placed, Restoring, Restored, BackupsTrue, Backups

LEMMA CheckStands ==
    ASSUME Sound, NEW a \in Actors, act[a].pc = "check", NEW n, n.pc = "rows",
           n.pos = 1, n.undo = act[a].undo,
           ~\E i \in DOMAIN act[a].undo : Conflict(backups[act[a].undo[i]]),
           OfferStands(act[a].undo, row, job, file, index, sidebar, backups, was)
    PROVE  UndoStands(n, row, job, file, index, sidebar, backups, was)
<1> DEFINE undo == act[a].undo
<1>1. undo \in Seq(Nat) /\ undo # <<>>
  BY ActType DEF Sound, Placed
<1>2. 1 \in DOMAIN undo
  BY <1>1
<1>3. ~Conflict(backups[undo[1]])
  BY <1>2
<1>4. row[backups[undo[1]].db] = 0
  <2>1. \A b : ~Conflict(b) => row[b.db] = 0
    BY Zenon DEF Conflict
  <2>2. QED
    BY <1>3, <2>1
<1>5. ~RowsStand(undo, row, backups)
  BY <1>2, <1>4 DEF RowsStand, Range
<1>6. /\ RowsBack(Range(undo), row, job, backups, was)
      /\ FileBack(Range(undo), file, backups, was)
      /\ RefsBack(Range(undo), index, sidebar, backups, was)
  BY <1>5 DEF OfferStands
<1>7. QED
  BY <1>1, <1>6, FromAll DEF UndoStands

LEMMA RowsStandIn ==
    ASSUME Sound, NEW a \in Actors, RestoreRows(a), act'[a].pos = act[a].pos,
           act'[a].undo = act[a].undo, act'[a].pc = "file",
           BackupsTrue(backups, was),
           UndoStands(act[a], row, job, file, index, sidebar, backups, was)
    PROVE  UndoStands(act'[a], row', job', file', index', sidebar', backups', was)
<1> DEFINE m == act[a]
           b == Restored(a)
<1>1. act[a].pc = "rows" /\ UNCHANGED <<file, index, sidebar, backups>>
  BY DEF RestoreRows
<1>2. /\ act \in [Actors -> Acts] /\ row \in [Db -> Nat]
      /\ job \in [Db -> {"none", "ours", "free", "other"}]
  BY SoundTypes
<1>3. /\ row[b.db] = 0 /\ row' = [row EXCEPT ![b.db] = b.row]
      /\ b.job => job[b.db] = "free"
      /\ job' = [job EXCEPT ![b.db] = IF b.job THEN "ours" ELSE @]
  <2>1. ~FailUndo(a)
    BY <1>2, IdleType DEF FailUndo, Step
  <2>2. QED
    BY <2>1 DEF RestoreRows
<1>4. /\ m.undo \in Seq(Nat) /\ m.pos \in 1..Len(m.undo) /\ m.pos \in Nat
      /\ b = backups[m.undo[m.pos]] /\ b.db \in Db /\ TrueBackup(b, was)
  BY <1>1, RestoredTrue DEF Restoring
<1> HIDE DEF b
<1>5. /\ RowsBack(From(m.undo, m.pos), row, job, backups, was)
      /\ FileBack(From(m.undo, m.pos), file, backups, was)
      /\ RefsBack(From(m.undo, m.pos), index, sidebar, backups, was)
  BY <1>1 DEF UndoStands
<1>6. RowsBack(From(m.undo, m.pos + 1), row', job', backups, was)
  <2> DEFINE rows == row'
             jobs == job'
             undo == m.undo
             p == m.pos
  <2>1. /\ rows = [row EXCEPT ![b.db] = b.row]
        /\ jobs = [job EXCEPT ![b.db] = IF b.job THEN "ours" ELSE @]
    BY <1>3
  <2>2. /\ undo \in Seq(Nat) /\ p \in 1..Len(undo) /\ b = backups[undo[p]]
        /\ b.db \in Db /\ TrueBackup(b, was)
        /\ RowsBack(From(undo, p), row, job, backups, was)
    BY <1>4, <1>5
  <2> HIDE DEF rows, jobs, undo, p
  <2>3. RowsBack(From(undo, p + 1), rows, jobs, backups, was)
    BY <1>2, <1>3, <2>1, <2>2, RowsReturned
  <2>4. QED
    BY <2>3 DEF rows, jobs, undo, p
<1>7. QED
  BY <1>1, <1>5, <1>6 DEF UndoStands

LEMMA FileStandsIn ==
    ASSUME Sound, NEW a \in Actors, RestoreFile(a), act'[a].pos = act[a].pos,
           act'[a].undo = act[a].undo, act'[a].pc = "index",
           file' = IF Restored(a).file = 0 THEN file ELSE Restored(a).file,
           BackupsTrue(backups, was),
           UndoStands(act[a], row, job, file, index, sidebar, backups, was)
    PROVE  UndoStands(act'[a], row', job', file', index', sidebar', backups', was)
<1> DEFINE m == act[a]
           b == Restored(a)
<1>1. act[a].pc = "file" /\ UNCHANGED <<row, job, index, sidebar, backups>>
  BY DEF RestoreFile
<1>2. /\ m.undo \in Seq(Nat) /\ m.pos \in 1..Len(m.undo)
      /\ b = backups[m.undo[m.pos]] /\ TrueBackup(b, was)
  BY <1>1, RestoredTrue DEF Restoring
<1>3. file' = IF b.file = 0 THEN file ELSE b.file
  OBVIOUS
<1> HIDE DEF b
<1>4. /\ RowsBack(From(m.undo, m.pos + 1), row, job, backups, was)
      /\ FileBack(From(m.undo, m.pos), file, backups, was)
      /\ RefsBack(From(m.undo, m.pos), index, sidebar, backups, was)
  BY <1>1 DEF UndoStands
<1>5. FileBack(From(m.undo, m.pos + 1), file', backups, was)
  BY <1>2, <1>3, <1>4, FileReturned
<1>6. QED
  BY <1>1, <1>4, <1>5 DEF UndoStands

(* What is back after the index and the sidebar, at the last backup or not. *)
LEMMA RefsStandIn ==
    ASSUME Sound, Calm', NEW a \in Actors, RestoreIndex(a),
           out'[a].status = "undone" \/ act'[a].pc = "rows",
           BackupsTrue(backups, was),
           UndoStands(act[a], row, job, file, index, sidebar, backups, was)
    PROVE  /\ RowsBack(From(act[a].undo, act[a].pos + 1), row', job', backups', was)
           /\ FileBack(From(act[a].undo, act[a].pos + 1), file', backups', was)
           /\ RefsBack(From(act[a].undo, act[a].pos + 1), index', sidebar', backups', was)
           /\ act'[a].pc = "idle" => act[a].pos >= Len(act[a].undo)
<1> DEFINE m == act[a]
           b == Restored(a)
<1>1. m.pc = "index" /\ UNCHANGED <<row, job, file, backups>>
  BY DEF RestoreIndex
<1>2. /\ m.undo \in Seq(Nat) /\ m.pos \in 1..Len(m.undo) /\ m \in Acts
      /\ b = backups[m.undo[m.pos]] /\ TrueBackup(b, was)
  BY <1>1, RestoredTrue DEF Restoring
<1>3. act \in [Actors -> Acts] /\ out \in [Actors -> Results]
  BY SoundTypes
<1>4. ~FailUndo(a)
  <2>1. SUFFICES ASSUME FailUndo(a) PROVE FALSE
    OBVIOUS
  <2>2. act'[a].pc = "idle"
    BY <1>3, <2>1, IdleType DEF FailUndo, Step
  <2>3. out'[a].status = "failed"
    <3> DEFINE old == out[a]
    <3>1. out' = [out EXCEPT ![a] = [old EXCEPT !.status = "failed"]] /\ old \in Results
      BY <1>3, <2>1 DEF FailUndo
    <3> HIDE DEF old
    <3>2. out'[a] = [old EXCEPT !.status = "failed"]
      BY <1>3, <3>1
    <3>3. QED
      BY <3>1, <3>2 DEF Results
  <2>4. QED
    BY <2>2, <2>3
<1>5. "index" \notin faults'
  BY DEF Calm, Mild
<1>6. index' = (index \/ b.index) /\ sidebar' = (sidebar \/ b.sidebar)
  BY <1>4, <1>5 DEF RestoreIndex, Fails
<1>7. act'[a].pc = "idle" => m.pos >= Len(m.undo)
  <2>1. SUFFICES ASSUME m.pos < Len(m.undo) PROVE act'[a].pc = "rows"
    BY <1>2
  <2>2. act'[a] = [m EXCEPT !.pc = "rows", !.pos = @ + 1]
    BY <1>3, <1>4, <2>1 DEF RestoreIndex, Step
  <2>3. QED
    BY <1>2, <2>2 DEF Acts
<1>8. (index' <=> (index \/ b.index)) /\ (sidebar' <=> (sidebar \/ b.sidebar))
  BY <1>6
<1> HIDE DEF b
<1>9. /\ RowsBack(From(m.undo, m.pos + 1), row, job, backups, was)
      /\ FileBack(From(m.undo, m.pos + 1), file, backups, was)
      /\ RefsBack(From(m.undo, m.pos), index, sidebar, backups, was)
  BY <1>1 DEF UndoStands
<1>10. RefsBack(From(m.undo, m.pos + 1), index', sidebar', backups, was)
  <2>1. \A t \in From(m.undo, m.pos) :
           backups[t].index => b.index \/ t \in From(m.undo, m.pos + 1)
    BY <1>2, FromSplits
  <2>2. \A t \in From(m.undo, m.pos) :
           backups[t].sidebar => b.sidebar \/ t \in From(m.undo, m.pos + 1)
    BY <1>2, FromSplits
  <2>3. QED
    BY <1>2, <1>8, <1>9, <2>1, <2>2, Zenon DEF RefsBack, TrueBackup
<1>11. QED
  BY <1>1, <1>7, <1>9, <1>10

(* A process that is at work lets no other begin an operation unseen.      *)
LEMMA StepsOf ==
    ASSUME Sound, NEW c \in Actors, Delete(c) \/ Undo(c) \/ Crash(c)
    PROVE  /\ \A b \in Actors \ {c} : act'[b] = act[b] /\ out'[b] = out[b]
           /\ writes' = writes /\ was' = was
           /\ act[c].pc # "idle" => ops' = ops /\ ops > 0
           /\ act[c].pc = "idle" => ops' = ops + 1 /\ (BeginDelete(c) \/ BeginUndo(c))
<1>1. /\ \A b \in Actors \ {c} : act'[b] = act[b]
      /\ writes' = writes
      /\ act[c].pc # "idle" => ops' = ops
      /\ act[c].pc = "idle" => ops' = ops + 1
  BY OneMoves DEF Sound
<1>2. was' = was
  BY DEF Delete, Undo, Crash, BeginDelete, WriteBackup, Commit, RemoveFile, Clean,
     EndDelete, BeginUndo, CheckUndo, RestoreRows, RestoreFile, RestoreIndex
<1>3. act[c].pc # "idle" => ops > 0
  BY DEF Sound, Stamped
<1>4. act[c].pc = "idle" => BeginDelete(c) \/ BeginUndo(c)
  BY DEF Delete, Undo, Crash, WriteBackup, Commit, RemoveFile, Clean,
     EndDelete, CheckUndo, RestoreRows, RestoreFile, RestoreIndex
<1>5. out' = out \/ \E r : out' = [out EXCEPT ![c] = r]
  BY DEF Delete, Undo, Crash, BeginDelete, WriteBackup, Commit, RemoveFile, Clean,
     EndDelete, BeginUndo, CheckUndo, RestoreRows, RestoreFile, RestoreIndex, FailUndo
<1>6. \A b \in Actors \ {c} : out'[b] = out[b]
  BY <1>5, SoundTypes
<1>7. QED
  BY <1>1, <1>2, <1>3, <1>4, <1>6

LEMMA BeginStands ==
    ASSUME Sound, Story, Calm, ops = 0, NEW c \in Actors, BeginDelete(c)
    PROVE  First'
<1>1. /\ backups = <<>> /\ Untouched
      /\ \A a \in Actors : act[a].pc = "idle" /\ out[a].undo = <<>>
  BY DEF Story, Before, Calm
<1>2. UNCHANGED <<store, backups, out, writes, faults, was>>
      /\ act' = [act EXCEPT ![c] = [Idle EXCEPT !.pc = "backup", !.pos = 1]]
  BY DEF BeginDelete, Step
<1>3. \A a \in Actors : act'[a] =
         IF a = c THEN [Idle EXCEPT !.pc = "backup", !.pos = 1] ELSE act[a]
  BY <1>2, SoundTypes
<1> DEFINE n == [Idle EXCEPT !.pc = "backup", !.pos = 1]
<1>4. n.pc = "backup" /\ n.best = Nothing
  <2> DEFINE base == Idle
  <2>1. base \in Acts /\ base.best = Nothing
    BY IdleType
  <2>2. n = [base EXCEPT !.pc = "backup", !.pos = 1]
    OBVIOUS
  <2> HIDE DEF base, n
  <2>3. QED
    BY <2>1, <2>2 DEF Acts
<1>5. act'[c] = n /\ \A a \in Actors \ {c} : act'[a] = act[a]
  BY <1>3
<1> HIDE DEF n
<1>6. Gone(n) = {} /\ n.best.status # "deleted" /\ n.best.undo = <<>>
  BY <1>4 DEF Gone, Done, Nothing
<1>7. was.file = file /\ (was.index <=> index) /\ (was.sidebar <=> sidebar)
      /\ was.row = row /\ was.job = job
  BY <1>1 DEF Untouched
<1>8. RowsBack({}, row, job, backups, was) /\ FileBack({}, file, backups, was)
  BY <1>7 DEF RowsBack, FileBack
<1>9. RefsBack({}, index, sidebar, backups, was)
  BY <1>7 DEF RefsBack
<1>10. RowsStand(n.best.undo, row, backups)
  BY <1>6 DEF RowsStand, Range
<1>11. DeletionStands(n, row, job, file, index, sidebar, backups, was)
  BY <1>4, <1>6, <1>8, <1>9, <1>10 DEF DeletionStands
<1>12. BackupsTrue(backups, was)
  BY <1>1 DEF BackupsTrue
<1>13. Alone(c)' /\ Deleting(n)
  BY <1>1, <1>4, <1>5 DEF Alone, Deleting
<1>14. NothingOffered'
  BY <1>1, <1>2 DEF NothingOffered
<1>15. UNCHANGED <<row, job, file, index, sidebar, backups, was, out>>
  BY <1>2 DEF store
<1>16. DeletionStands(act'[c], row', job', file', index', sidebar', backups', was')
       /\ BackupsTrue(backups', was') /\ Deleting(act'[c])
  BY <1>5, <1>11, <1>12, <1>13, <1>15
<1>17. QED
  BY <1>1, <1>5, <1>13, <1>14, <1>15, <1>16 DEF First

LEMMA FirstStep ==
    ASSUME Sound, Sound', Story, NEW c \in Actors, Delete(c) \/ Undo(c) \/ Crash(c),
           Calm, Calm', ops' = 1
    PROVE  First'
<1>1. /\ \A b \in Actors \ {c} : act'[b] = act[b] /\ out'[b] = out[b]
      /\ writes' = writes /\ was' = was
      /\ act[c].pc # "idle" => ops' = ops /\ ops > 0
      /\ act[c].pc = "idle" => ops' = ops + 1 /\ (BeginDelete(c) \/ BeginUndo(c))
  BY StepsOf
<1>2. ops \in Nat
  BY SoundTypes
<1>3. CASE act[c].pc = "idle"
  <2>1. ops = 0
    BY <1>1, <1>2, <1>3
  <2>2. ~BeginUndo(c)
    BY <2>1 DEF Story, Before, BeginUndo
  <2>3. QED
    BY <1>1, <1>3, <2>1, <2>2, BeginStands
<1>4. CASE act[c].pc # "idle"
  <2>1. /\ BackupsTrue(backups, was)
        /\ Deleting(act[c]) /\ Alone(c) /\ NothingOffered
        /\ DeletionStands(act[c], row, job, file, index, sidebar, backups, was)
    BY <1>1, <1>4 DEF Story, First
  <2>2. ~Crash(c)
    BY DEF Crash, Fails, Calm, Mild
  <2>3. WriteBackup(c) \/ Commit(c) \/ RemoveFile(c) \/ Clean(c) \/ EndDelete(c)
    BY <1>4, <2>1, <2>2 DEF Deleting, Delete, Undo, BeginDelete, BeginUndo, CheckUndo,
       RestoreRows, RestoreFile, RestoreIndex
  <2>4. was \in Snapshots /\ \A b \in Actors \ {c} : act'[b].pc = "idle"
    BY <1>1, <2>1 DEF Story, Alone
  <2>5. CASE ~EndDelete(c)
    <3>1. /\ Deleting(act'[c]) /\ BackupsTrue(backups', was')
          /\ DeletionStands(act'[c], row', job', file', index', sidebar', backups', was')
      <4>1. UNCHANGED backups \/ WriteBackup(c)
        BY <2>3, <2>5 DEF Commit, RemoveFile, Clean
      <4>2. QED
        BY <1>1, <2>1, <2>3, <2>4, <2>5, <4>1, BackupStands, CommitStands,
           RemovalStands, CleaningStands
    <3>2. NothingOffered'
      <4>1. UNCHANGED out
        BY <2>3, <2>5 DEF WriteBackup, Commit, RemoveFile, Clean
      <4>2. QED
        BY <2>1, <4>1 DEF NothingOffered
    <3>3. Alone(c)'
      BY <2>4 DEF Alone
    <3>4. QED
      BY <2>4, <3>1, <3>2, <3>3 DEF First, NothingOffered
  <2>6. CASE EndDelete(c)
    <3>1. /\ act'[c].pc = "idle" /\ UNCHANGED backups
          /\ OfferStands(out'[c].undo, row', job', file', index', sidebar', backups', was)
      BY <2>1, <2>6, EndStands
    <3>2. OnlyOffer(c)'
      BY <1>1, <2>1, <2>4, <3>1 DEF OnlyOffer, NothingOffered
    <3>3. \A b \in Actors \ {c} : out'[b].undo = <<>>
      BY <1>1, <2>1 DEF NothingOffered
    <3>4. \A b \in Actors : act'[b].pc = "idle"
      BY <2>4, <3>1
    <3>5. BackupsTrue(backups', was')
      BY <1>1, <2>1, <3>1
    <3>6. OfferStands(out'[c].undo, row', job', file', index', sidebar', backups', was')
      BY <1>1, <3>1
    <3>7. QED
      BY <3>2, <3>3, <3>4, <3>5, <3>6 DEF First
  <2>7. QED
    BY <2>5, <2>6
<1>5. QED
  BY <1>3, <1>4

LEMMA SecondStep ==
    ASSUME Sound, Sound', Story, NEW c \in Actors, Delete(c) \/ Undo(c) \/ Crash(c),
           Calm, Calm', ops' = 2
    PROVE  Second'
<1>1. /\ \A b \in Actors \ {c} : act'[b] = act[b] /\ out'[b] = out[b]
      /\ writes' = writes /\ was' = was
      /\ act[c].pc # "idle" => ops' = ops /\ ops > 0
      /\ act[c].pc = "idle" => ops' = ops + 1 /\ (BeginDelete(c) \/ BeginUndo(c))
  BY StepsOf
<1>2. ops \in Nat
  BY SoundTypes
<1>3. CASE act[c].pc = "idle"
  <2>1. ops = 1
    BY <1>1, <1>2, <1>3
  <2>2. UNCHANGED <<row, job, file, index, sidebar, backups, was>>
    BY <1>1, <1>3 DEF BeginDelete, BeginUndo, store
  <2>3. act'[c].pc = IF BeginUndo(c) THEN "check" ELSE "backup"
    <3>1. [Idle EXCEPT !.pc = "backup", !.pos = 1].pc = "backup"
      BY IdleType DEF Acts
    <3>2. [Idle EXCEPT !.pc = "check", !.undo = out[c].undo].pc = "check"
      BY IdleType DEF Acts
    <3>3. QED
      BY <1>1, <1>3, <3>1, <3>2, SoundTypes DEF BeginDelete, BeginUndo, Step
  <2>4. \A a \in Actors \ {c} : ~Undoing(act'[a])
    BY <1>1, <2>1 DEF Story, First, Deleting, Undoing
  <2>5. CASE ~BeginUndo(c)
    BY <2>3, <2>4, <2>5 DEF Second, Undoing
  <2>6. CASE BeginUndo(c)
    <3>1. out[c].undo # <<>> /\ act'[c].undo = out[c].undo
      <4>1. [Idle EXCEPT !.pc = "check", !.undo = out[c].undo].undo = out[c].undo
        BY IdleType DEF Acts
      <4>2. QED
        BY <2>6, <4>1, SoundTypes DEF BeginUndo, Step
    <3>2. /\ BackupsTrue(backups, was) /\ OnlyOffer(c)
          /\ OfferStands(out[c].undo, row, job, file, index, sidebar, backups, was)
      BY <2>1, <3>1 DEF Story, First
    <3>3. Alone(c)'
      BY <1>1, <3>2 DEF Alone, OnlyOffer
    <3>4. BackupsTrue(backups', was')
          /\ OfferStands(act'[c].undo, row', job', file', index', sidebar', backups', was')
      BY <2>2, <3>1, <3>2
    <3>5. ~Restoring(act'[c])
      BY <2>3, <2>6 DEF Restoring
    <3>6. QED
      BY <2>4, <3>3, <3>4, <3>5 DEF Second
  <2>7. QED
    BY <2>5, <2>6
<1>4. CASE act[c].pc # "idle"
  <2>1. ops = 2
    BY <1>1, <1>4
  <2>2. ASSUME NEW a \in Actors, Undoing(act'[a])
        PROVE  /\ BackupsTrue(backups', was') /\ Alone(a)'
               /\ act'[a].pc = "check" =>
                     OfferStands(act'[a].undo, row', job', file', index', sidebar',
                                 backups', was')
               /\ Restoring(act'[a]) =>
                     UndoStands(act'[a], row', job', file', index', sidebar',
                                backups', was')
    <3>1. a = c
      <4>1. SUFFICES ASSUME a # c PROVE FALSE
        OBVIOUS
      <4>2. Undoing(act[a])
        BY <1>1, <2>2, <4>1
      <4>3. Alone(a)
        BY <2>1, <4>2 DEF Story, Second
      <4>4. QED
        BY <1>4, <4>1, <4>3 DEF Alone
    <3>2. ~Crash(c)
      BY DEF Crash, Fails, Calm, Mild
    <3>3. act'[c].pc # "check"
      BY <1>4, UndoMoves DEF Sound
    <3>4. Restoring(act'[c])
      BY <2>2, <3>1, <3>3 DEF Undoing, Restoring
    <3>5. Undoing(act[c]) /\ UNCHANGED backups
      BY <3>4, UndoMoves DEF Sound, Undoing, CheckUndo, RestoreRows, RestoreFile,
         RestoreIndex
    <3>6. /\ BackupsTrue(backups, was) /\ Alone(c)
          /\ act[c].pc = "check" =>
                OfferStands(act[c].undo, row, job, file, index, sidebar, backups, was)
          /\ Restoring(act[c]) =>
                UndoStands(act[c], row, job, file, index, sidebar, backups, was)
      BY <2>1, <3>5 DEF Story, Second
    <3>7. Alone(c)'
      BY <1>1, <3>6 DEF Alone
    <3>8. UndoStands(act'[c], row', job', file', index', sidebar', backups', was)
      <4>1. CASE CheckUndo(c) /\ act'[c].pos = 1 /\ act'[c].undo = act[c].undo
                 /\ act'[c].pc = "rows"
                 /\ ~\E i \in DOMAIN act[c].undo : Conflict(backups[act[c].undo[i]])
        <5>1. act[c].pc = "check" /\ UNCHANGED <<row, job, file, index, sidebar, backups>>
          BY <4>1 DEF CheckUndo, store
        <5>2. UndoStands(act'[c], row, job, file, index, sidebar, backups, was)
          BY <3>6, <4>1, <5>1, CheckStands
        <5>3. QED
          BY <5>1, <5>2
      <4>2. CASE RestoreRows(c) /\ act'[c].pos = act[c].pos
                 /\ act'[c].undo = act[c].undo /\ act'[c].pc = "file"
        <5>1. Restoring(act[c])
          BY <4>2 DEF RestoreRows, Restoring
        <5>2. QED
          BY <3>6, <4>2, <5>1, RowsStandIn
      <4>3. CASE RestoreFile(c) /\ act'[c].pos = act[c].pos
                 /\ act'[c].undo = act[c].undo /\ act'[c].pc = "index"
                 /\ file' = IF Restored(c).file = 0 THEN file ELSE Restored(c).file
        <5>1. Restoring(act[c])
          BY <4>3 DEF RestoreFile, Restoring
        <5>2. QED
          BY <3>6, <4>3, <5>1, FileStandsIn
      <4>4. CASE RestoreIndex(c) /\ act'[c].pos = act[c].pos + 1
                 /\ act'[c].undo = act[c].undo /\ act'[c].pc = "rows"
        <5>1. Restoring(act[c])
          BY <4>4 DEF RestoreIndex, Restoring
        <5>2. /\ RowsBack(From(act[c].undo, act[c].pos + 1), row', job', backups', was)
              /\ FileBack(From(act[c].undo, act[c].pos + 1), file', backups', was)
              /\ RefsBack(From(act[c].undo, act[c].pos + 1), index', sidebar',
                          backups', was)
          BY <3>6, <4>4, <5>1, RefsStandIn
        <5>3. QED
          BY <4>4, <5>2 DEF UndoStands
      <4>5. QED
        BY <3>4, <4>1, <4>2, <4>3, <4>4, UndoMoves DEF Sound
    <3>9. QED
      BY <1>1, <3>1, <3>3, <3>5, <3>6, <3>7, <3>8
  <2>3. QED
    BY <2>2 DEF Second
<1>5. QED
  BY <1>3, <1>4

LEMMA StoryStep == Sound /\ Sound' /\ Story /\ [Next]_vars => Story'
<1> SUFFICES ASSUME Sound, Sound', Story, [Next]_vars PROVE Story'
  OBVIOUS
<1>1. ops \in Nat /\ writes \in Nat
  BY SoundTypes
<1>2. CASE UNCHANGED vars
  BY <1>2 DEF vars, store, Story, Before, First, Second, Untouched, Calm, Alone,
     NothingOffered, OnlyOffer
<1>3. CASE AppWrites
  <2>1. UNCHANGED <<backups, act, out, ops, was>> /\ writes' = writes + 1
    BY <1>3 DEF AppWrites
  <2>2. ~Calm' /\ writes' # 0
    BY <1>1, <2>1 DEF Calm
  <2>3. QED
    BY <2>1, <2>2 DEF Story, Before, First, Second
<1>4. ASSUME NEW c \in Actors, Delete(c) \/ Undo(c) \/ Crash(c)
      PROVE  Story'
  <2>1. /\ writes' = writes /\ was' = was
        /\ act[c].pc # "idle" => ops' = ops /\ ops > 0
        /\ act[c].pc = "idle" => ops' = ops + 1
    BY <1>4, StepsOf
  <2>2. ops' # 0
    BY <1>1, <2>1
  <2>3. Calm' => Calm
    BY CalmBefore
  <2>4. First'
    BY <1>4, <2>3, FirstStep DEF First
  <2>5. Second'
    BY <1>4, <2>3, SecondStep DEF Second
  <2>6. QED
    BY <2>1, <2>2, <2>4, <2>5 DEF Story, Before
<1>5. QED
  BY <1>2, <1>3, <1>4 DEF Next

LEMMA StoryInitially == Init => Story
<1> SUFFICES ASSUME Init PROVE Story
  OBVIOUS
<1>1. was = [row |-> row, job |-> job, file |-> file, index |-> index,
             sidebar |-> sidebar]
  BY DEF Init
<1>2. Untouched
  BY <1>1 DEF Untouched
<1>3. was \in Snapshots
  <2>1. job \in [Db -> {"ours", "none"}]
    BY DEF Init
  <2>2. QED
    BY <1>1, <2>1 DEF Snapshots, Init
<1>4. \A a \in Actors : act[a].pc = "idle" /\ out[a].undo = <<>>
  BY IdleType DEF Init
<1>5. ops = 0 /\ backups = <<>>
  BY DEF Init
<1>6. QED
  BY <1>2, <1>3, <1>4, <1>5 DEF Story, Before, First, Second

(* Undone is back to the state before the deletion.                        *)
LEMMA UndoneStep ==
    ASSUME Sound, Sound', Story, Next
    PROVE  UndoneIsBack
<1> SUFFICES ASSUME NEW a \in Actors, act[a].pc = "index",
                    out'[a].status = "undone", act'[a].pc = "idle",
                    faults' \subseteq Mild, writes = 0, ops = 2
             PROVE  [row |-> row', job |-> job', file |-> file', index |-> index',
                     sidebar |-> sidebar'] = was
  BY DEF UndoneIsBack, Mild
<1>1. ~AppWrites
  BY DEF AppWrites
<1>2. PICK c \in Actors : Delete(c) \/ Undo(c) \/ Crash(c)
  BY <1>1 DEF Next
<1>3. a = c
  BY <1>2, StepsOf
<1>4. writes' = writes /\ was' = was
  BY <1>2, StepsOf
<1>5. Calm' /\ Calm
  BY <1>4, CalmBefore DEF Calm
<1>6. RestoreIndex(a)
  <2>1. ~Crash(a)
    BY DEF Crash, Fails, Mild
  <2>2. QED
    BY <1>2, <1>3, <2>1 DEF Delete, Undo, BeginDelete, WriteBackup, Commit, RemoveFile,
       Clean, EndDelete, BeginUndo, CheckUndo, RestoreRows, RestoreFile
<1>7. /\ BackupsTrue(backups, was)
      /\ UndoStands(act[a], row, job, file, index, sidebar, backups, was)
  BY <1>5 DEF Story, Second, Undoing, Restoring
<1> DEFINE rest == From(act[a].undo, act[a].pos + 1)
<1>8. /\ RowsBack(rest, row', job', backups', was)
      /\ FileBack(rest, file', backups', was)
      /\ RefsBack(rest, index', sidebar', backups', was)
      /\ act[a].pos >= Len(act[a].undo)
  BY <1>5, <1>6, <1>7, RefsStandIn
<1>9. rest = {}
  <2>1. act[a].undo \in Seq(Nat) /\ act[a].pos \in Nat
    BY ActType DEF Sound
  <2>2. QED
    BY <1>8, <2>1 DEF From
<1> HIDE DEF rest
<1>10. was \in Snapshots /\ row' \in [Db -> Nat]
       /\ job' \in [Db -> {"none", "ours", "free", "other"}]
       /\ index' \in BOOLEAN /\ sidebar' \in BOOLEAN
  <2>1. row' \in [Db -> Nat] /\ index' \in BOOLEAN /\ sidebar' \in BOOLEAN
    BY DEF Sound, IInv, Shape
  <2>2. job' \in [Db -> {"none", "ours", "free", "other"}]
    BY DEF Sound, Bounded
  <2>3. QED
    BY <2>1, <2>2 DEF Story
<1>11. \A d \in Db : row'[d] = was.row[d] /\ job'[d] = was.job[d]
  BY <1>8, <1>9 DEF RowsBack
<1>12. row' = was.row /\ job' = was.job
  BY <1>10, <1>11 DEF Snapshots
<1>13. file' = was.file
  BY <1>8, <1>9 DEF FileBack
<1>14. index' = was.index /\ sidebar' = was.sidebar
  <2>1. was.index \in BOOLEAN /\ was.sidebar \in BOOLEAN
    BY <1>10 DEF Snapshots
  <2>2. (index' <=> was.index) /\ (sidebar' <=> was.sidebar)
    BY <1>8, <1>9, Zenon DEF RefsBack
  <2>3. QED
    BY <1>10, <2>1, <2>2
<1>15. QED
  <2>1. was = [row |-> was.row, job |-> was.job, file |-> was.file,
               index |-> was.index, sidebar |-> was.sidebar]
    BY <1>10 DEF Snapshots
  <2>2. QED
    BY <1>12, <1>13, <1>14, <2>1

-----------------------------------------------------------------------------
(* A deletion without a fault.  It leaves no row behind it, and once one of *)
(* its databases succeeded the index and the sidebar are clean.            *)
Flawless == ops = 1 /\ writes = 0 /\ faults = {}
SweptBy(m, rows, listed, shown) ==
    /\ \A i \in 1..m.pos - 1 : rows[Dbs[i]] = 0
    /\ m.pc \in {"remove", "clean", "end"} => rows[Dbs[m.pos]] = 0
    /\ m.pc = "end" => m.pos = Len(Dbs)
    /\ m.best.status = "deleted" => ~listed /\ ~shown
Swept == Flawless =>
    \A a \in Actors : Deleting(act[a]) => SweptBy(act[a], row, index, sidebar)

LEMMA SweptNext ==
    ASSUME IInv, NEW a \in Actors, act[a].pc \in {"backup", "clean"},
           NEW rows, NEW listed, NEW shown, rows[Dbs[act[a].pos]] = 0,
           \A i \in 1..act[a].pos - 1 : rows[Dbs[i]] = 0,
           NEW candidate \in Results, NEW n, n = NextDb(a, candidate),
           act[a].best.status = "deleted" \/ candidate.status = "deleted"
              => ~listed /\ ~shown
    PROVE  SweptBy(n, rows, listed, shown)
<1> DEFINE m == act[a]
           merged == Merged(m.best, candidate)
           pc == IF m.pos < Len(Dbs) THEN "backup" ELSE "end"
           pos == IF m.pos < Len(Dbs) THEN m.pos + 1 ELSE m.pos
<1>1. m \in Acts /\ m.best \in Results /\ Placed(m)
  BY ActType
<1>2. m.pos \in 1..Len(Dbs) /\ m.pos \in Nat /\ Len(Dbs) \in Nat
  BY <1>1, StorageAssumption DEF Placed
<1>3. n.pc = pc /\ n.pos = pos /\ n.best = merged
  BY <1>1 DEF NextDb, Acts
<1>4. merged.status = "deleted" => ~listed /\ ~shown
  <2>1. merged.status \in {m.best.status, candidate.status}
    <3>1. CASE candidate.status = "deleted"
      <4> DEFINE undo == IF m.best.status = "deleted" THEN m.best.undo \o candidate.undo
                         ELSE candidate.undo
      <4>1. merged = [candidate EXCEPT !.undo = undo]
        BY <1>1, <3>1 DEF Merged, Results
      <4> HIDE DEF undo, merged
      <4>2. QED
        BY <4>1 DEF Results
    <3>2. CASE candidate.status # "deleted"
      BY <3>2 DEF Merged
    <3>3. QED
      BY <3>1, <3>2
  <2>2. QED
    BY <2>1
<1> HIDE DEF merged
<1>5. \A i \in 1..m.pos : rows[Dbs[i]] = 0
  BY <1>2
<1>6. CASE m.pos < Len(Dbs)
  BY <1>2, <1>3, <1>4, <1>5, <1>6 DEF SweptBy
<1>7. CASE ~(m.pos < Len(Dbs))
  BY <1>2, <1>3, <1>4, <1>5, <1>7 DEF SweptBy
<1>8. QED
  BY <1>6, <1>7

LEMMA SweptStep ==
    ASSUME Sound, Sound', Story, Swept, [Next]_vars
    PROVE  Swept'
<1> SUFFICES ASSUME Flawless', NEW a \in Actors, Deleting(act'[a])
             PROVE  SweptBy(act'[a], row', index', sidebar')
  BY DEF Swept
<1>1. ops \in Nat /\ writes \in Nat /\ act \in [Actors -> Acts]
  BY SoundTypes
<1>2. Calm'
  BY DEF Flawless, Calm
<1>3. Calm /\ ~AppWrites /\ faults \subseteq faults' /\ faults' = {} /\ faults = {}
  BY <1>2, CalmBefore DEF Flawless
<1>4. \A kind : ~Fails(kind)
  BY <1>3 DEF Fails
<1>5. CASE UNCHANGED vars
  BY <1>5 DEF vars, store, Swept, Flawless
<1>6. ASSUME NEW c \in Actors, Delete(c) \/ Undo(c) \/ Crash(c)
      PROVE  SweptBy(act'[a], row', index', sidebar')
  <2>1. /\ \A b \in Actors \ {c} : act'[b] = act[b]
        /\ act[c].pc # "idle" => ops' = ops
        /\ act[c].pc = "idle" => ops' = ops + 1 /\ (BeginDelete(c) \/ BeginUndo(c))
    BY <1>6, StepsOf
  <2>2. CASE act[c].pc = "idle"
    <3>1. ops = 0
      BY <1>1, <2>1, <2>2 DEF Flawless
    <3>2. \A b \in Actors : act[b].pc = "idle" /\ out[b].undo = <<>>
      BY <3>1 DEF Story, Before
    <3>3. a = c /\ BeginDelete(c)
      BY <2>1, <2>2, <3>2 DEF Deleting, BeginUndo
    <3> DEFINE n == [Idle EXCEPT !.pc = "backup", !.pos = 1]
    <3>4. act'[a] = n
      BY <1>1, <3>3 DEF BeginDelete, Step
    <3>5. n.pc = "backup" /\ n.pos = 1 /\ n.best = Nothing
      <4> DEFINE base == Idle
      <4>1. base \in Acts /\ base.best = Nothing
        BY IdleType
      <4>2. n = [base EXCEPT !.pc = "backup", !.pos = 1]
        OBVIOUS
      <4> HIDE DEF base, n
      <4>3. QED
        BY <4>1, <4>2 DEF Acts
    <3> HIDE DEF n
    <3>6. QED
      BY <3>4, <3>5 DEF SweptBy, Nothing
  <2>3. CASE act[c].pc # "idle"
    <3>1. Deleting(act[c]) /\ Alone(c) /\ Flawless
      BY <1>2, <1>3, <1>6, <2>1, <2>3, StepsOf DEF Story, First, Flawless
    <3>2. a = c
      BY <2>1, <3>1 DEF Deleting, Alone
    <3> DEFINE m == act[a]
               t == m.token
    <3>3. SweptBy(m, row, index, sidebar)
      BY <3>1, <3>2 DEF Swept
    <3>4. /\ IInv /\ m \in Acts /\ m.pos \in Nat /\ t \in Nat
          /\ m.pc \in {"backup", "commit", "remove", "clean"} => m.pos \in 1..Len(Dbs)
      BY StorageAssumption, ActType DEF Sound, Placed
    <3>5. CASE WriteBackup(a) /\ Step(a, NextDb(a, Failed(0)))
      <4> DEFINE n == NextDb(a, Failed(0))
                 f == Failed(0)
      <4>1. m.pc = "backup" /\ UNCHANGED <<row, index, sidebar>> /\ act'[a] = n
        BY <1>1, <3>5 DEF WriteBackup, store, Step
      <4>2. row[Dbs[m.pos]] = 0
        <5>1. CASE row[Current(a)] = 0
          BY <5>1 DEF Current
        <5>2. CASE row[Current(a)] # 0
          <6>1. \E readable \in BOOLEAN :
                   Step(a, [act[a] EXCEPT !.pc = "commit", !.token = Len(backups) + 1])
            BY <1>4, <3>5, <5>2 DEF WriteBackup
          <6>2. act'[a].pc = "commit"
            <7> DEFINE k == Len(backups) + 1
            <7>1. act'[a] = [m EXCEPT !.pc = "commit", !.token = k]
              BY <1>1, <6>1 DEF Step
            <7> HIDE DEF k
            <7>2. QED
              BY <3>4, <7>1 DEF Acts
          <6>3. n.pc \in {"backup", "end"}
            BY <3>4 DEF NextDb, Acts
          <6>4. QED
            BY <4>1, <6>2, <6>3
        <5>3. QED
          BY <5>1, <5>2
      <4>3. f \in Results /\ f.status # "deleted"
        BY ResultTypes DEF Failed
      <4> HIDE DEF f
      <4>4. n = NextDb(a, f)
        BY DEF f
      <4> HIDE DEF n
      <4>5. SweptBy(n, row, index, sidebar)
        BY <3>3, <3>4, <4>1, <4>2, <4>3, <4>4, SweptNext DEF SweptBy
      <4>6. QED
        BY <4>1, <4>5
    <3>6. CASE WriteBackup(a) /\ ~Step(a, NextDb(a, Failed(0)))
      <4> DEFINE k == Len(backups) + 1
                 n == [m EXCEPT !.pc = "commit", !.token = k]
      <4>1. m.pc = "backup" /\ UNCHANGED <<row, index, sidebar>>
        BY <3>6 DEF WriteBackup, store
      <4>2. act'[a] = n
        BY <1>1, <3>6 DEF WriteBackup, Step
      <4> HIDE DEF k
      <4>3. n.pc = "commit" /\ n.pos = m.pos /\ n.best = m.best
        BY <3>4 DEF Acts
      <4> HIDE DEF n
      <4>4. QED
        BY <3>3, <4>1, <4>2, <4>3 DEF SweptBy
    <3>7. CASE Commit(a)
      <4> DEFINE n == [m EXCEPT !.pc = "remove"]
                 d == Current(a)
      <4>1. /\ m.pc = "commit" /\ UNCHANGED <<index, sidebar>>
            /\ row' = [row EXCEPT ![d] = 0] /\ act'[a] = n
        BY <1>1, <1>4, <3>7 DEF Commit, Step
      <4>2. n.pc = "remove" /\ n.pos = m.pos /\ n.best = m.best
        BY <3>4 DEF Acts
      <4> HIDE DEF n
      <4>3. d = Dbs[m.pos] /\ \A i \in 1..Len(Dbs) : Dbs[i] \in Db
        BY StorageAssumption, DbType DEF Current
      <4>4. row \in [Db -> Nat] /\ m.pos \in 1..Len(Dbs)
        BY <3>4, <4>1, SoundTypes
      <4> HIDE DEF d
      <4>5. \A i \in 1..Len(Dbs) :
               row'[Dbs[i]] = IF Dbs[i] = d THEN 0 ELSE row[Dbs[i]]
        BY <4>1, <4>3, <4>4
      <4>6. \A i \in 1..m.pos - 1 : row'[Dbs[i]] = 0
        <5>1. \A i \in 1..m.pos - 1 : i \in 1..Len(Dbs)
          BY <3>4, <4>4
        <5>2. QED
          BY <3>3, <4>5, <5>1 DEF SweptBy
      <4>7. row'[Dbs[m.pos]] = 0
        BY <4>3, <4>4, <4>5
      <4>8. QED
        BY <3>3, <4>1, <4>2, <4>6, <4>7 DEF SweptBy
    <3>8. CASE RemoveFile(a)
      <4> DEFINE n == [m EXCEPT !.pc = "clean"]
      <4>1. m.pc = "remove" /\ UNCHANGED <<row, index, sidebar>> /\ act'[a] = n
        BY <1>1, <1>4, <3>8 DEF RemoveFile, Step
      <4>2. n.pc = "clean" /\ n.pos = m.pos /\ n.best = m.best
        BY <3>4 DEF Acts
      <4> HIDE DEF n
      <4>3. QED
        BY <3>3, <4>1, <4>2 DEF SweptBy
    <3>9. CASE Clean(a)
      <4> DEFINE f == Deleted(t)
                 n == NextDb(a, f)
      <4>1. /\ m.pc = "clean" /\ UNCHANGED row /\ act'[a] = n
            /\ index' = FALSE /\ sidebar' = FALSE
        BY <1>1, <1>4, <3>9 DEF Clean, Forget, Step
      <4>2. f \in Results
        BY <3>4, ResultTypes
      <4> HIDE DEF f
      <4>3. n = NextDb(a, f)
        OBVIOUS
      <4> HIDE DEF n
      <4>4. SweptBy(n, row, FALSE, FALSE)
        BY <3>3, <3>4, <4>1, <4>2, <4>3, SweptNext DEF SweptBy
      <4>5. QED
        BY <4>1, <4>4
    <3>10. ~EndDelete(a)
      BY <1>1, IdleType DEF EndDelete, Step, Deleting
    <3>11. ~Crash(a)
      BY <1>4 DEF Crash
    <3>12. QED
      BY <1>6, <2>3, <3>1, <3>2, <3>5, <3>6, <3>7, <3>8, <3>9, <3>10, <3>11
         DEF Delete, Undo, BeginDelete, BeginUndo, CheckUndo, RestoreRows,
         RestoreFile, RestoreIndex, Deleting
  <2>4. QED
    BY <2>2, <2>3
<1>7. QED
  BY <1>3, <1>5, <1>6 DEF Next

LEMMA ReportedStep ==
    ASSUME Sound, Sound', Story, Swept, Next
    PROVE  ReportedIsGone
<1> SUFFICES ASSUME NEW a \in Actors, act[a].pc = "end", act'[a].pc = "idle",
                    faults' = {}, writes = 0, ops = 1
             PROVE  (\A d \in Db : row'[d] = 0) /\ ~index' /\ ~sidebar'
  BY DEF ReportedIsGone
<1>1. ~AppWrites
  BY DEF AppWrites
<1>2. PICK c \in Actors : Delete(c) \/ Undo(c) \/ Crash(c)
  BY <1>1 DEF Next
<1>3. a = c /\ writes' = writes
  BY <1>2, StepsOf
<1>4. Calm'
  BY <1>3 DEF Calm
<1>5. faults = {} /\ \A kind : ~Fails(kind)
  BY <1>4, CalmBefore DEF Fails
<1>6. EndDelete(a)
  BY <1>2, <1>3, <1>5 DEF Delete, Undo, BeginDelete, WriteBackup, Commit, RemoveFile,
     Clean, BeginUndo, CheckUndo, RestoreRows, RestoreFile, RestoreIndex, Crash
<1> DEFINE m == act[a]
<1>7. SweptBy(m, row, index, sidebar)
  BY <1>5 DEF Swept, Flawless, Deleting
<1>8. \A d \in Db : row[d] = 0
  <2>1. /\ m.pos = Len(Dbs) /\ row[Dbs[m.pos]] = 0
        /\ \A i \in 1..m.pos - 1 : row[Dbs[i]] = 0
    BY <1>7 DEF SweptBy
  <2>2. \A i \in 1..Len(Dbs) : row[Dbs[i]] = 0
    <3>1. \A i \in 1..Len(Dbs) : i = Len(Dbs) \/ i \in 1..Len(Dbs) - 1
      BY StorageAssumption
    <3>2. QED
      BY <2>1, <3>1
  <2>3. \A d \in Db : \E i \in 1..Len(Dbs) : Dbs[i] = d
    BY StorageAssumption DEF Db, Range
  <2>4. QED
    BY <2>2, <2>3
<1>9. UNCHANGED row
  BY <1>6 DEF EndDelete
<1>10. CASE m.best.status = "deleted"
  <2>1. UNCHANGED <<index, sidebar>>
    BY <1>6, <1>10 DEF EndDelete
  <2>2. ~index /\ ~sidebar
    BY <1>7, <1>10 DEF SweptBy
  <2>3. QED
    BY <1>8, <1>9, <2>1, <2>2
<1>11. CASE m.best.status # "deleted"
  <2>1. index' = FALSE /\ sidebar' = FALSE
    BY <1>5, <1>6, <1>11 DEF EndDelete, Forget
  <2>2. QED
    BY <1>8, <1>9, <2>1
<1>12. QED
  BY <1>10, <1>11

(* What a report says is so, with any number of databases and processes: a *)
(* deletion that reports success with no fault and no writer left neither a *)
(* row nor a reference (delete_local_from_paths); an undo that reports     *)
(* success brought every row, job, file and reference back as it was before *)
(* the deletion, though some of its databases had failed (restore_backups); *)
(* and the types hold throughout.                                          *)
THEOREM ReportsHold == Spec => ReportsAreTrue
<1> DEFINE Inv == Sound /\ Story /\ Swept
<1>1. Init => Inv
  <2>1. Init => Sound /\ Story
    BY SoundInitially, StoryInitially
  <2>2. Init => Swept
    BY DEF Init, Swept, Flawless
  <2>3. QED
    BY <2>1, <2>2
<1>2. Inv /\ [Next]_vars => Inv'
  <2>1. Sound /\ [Next]_vars => Sound'
    BY SoundStep
  <2>2. QED
    BY <2>1, StoryStep, SweptStep
<1>3. Inv => TypeOK
  BY TypesAreTight DEF Sound
<1>4. Inv /\ [Next]_vars => [ReportedIsGone]_vars
  BY <1>2, ReportedStep
<1>5. Inv /\ [Next]_vars => [UndoneIsBack]_vars
  BY <1>2, UndoneStep
<1>6. Spec => []TypeOK
  BY <1>1, <1>2, <1>3, PTL DEF Spec
<1>7. Spec => [][ReportedIsGone]_vars
  BY <1>1, <1>2, <1>4, PTL DEF Spec
<1>8. Spec => [][UndoneIsBack]_vars
  BY <1>1, <1>2, <1>5, PTL DEF Spec
<1>9. QED
  BY <1>6, <1>7, <1>8 DEF ReportsAreTrue, DeletedIsGone, UndoGivesBack
=============================================================================
