------------------------------ MODULE TxnIndex ------------------------------
(***************************************************************************)
(* `unredo index build`, `update` and `check` (internal/txnindex): JSONL   *)
(* indexes of the transactions in a directory of archived binlogs, written *)
(* to a temporary file and renamed into place, while the archive grows, is *)
(* rewritten or purged and several commands run.                           *)
(*                                                                         *)
(* Files are named by their number, in the order of their names; a         *)
(* transaction is its GTID.  Modification times never repeat.              *)
(***************************************************************************)
EXTENDS Integers, Sequences, Functions, FiniteSetsExt

CONSTANTS
  Build, Update,  \* the commands of either kind
  Path,           \* where indexes may be
  Existing,       \* the index an update reads
  Output,         \* --output of a command
  Gtid,
  None,
  MaxFiles,       \* bound: binlogs in the archive
  MaxOps          \* bound: changes of the archive, and switches of an index

Command  == Build \cup Update
File     == 1..MaxFiles
LogFiles == [name : File, size : Nat, mtime : Nat]   \* ports.LogFile
Entry    == [gtid : Gtid, file : File]
Binlog   == [txns : Seq(Gtid), mtime : Nat]
Index    == [files : SUBSET LogFiles, entries : Seq(Entry)]

ASSUME IndexAssumption ==
  /\ None \notin Gtid \cup Binlog \cup Index
  /\ Build \cap Update = {}
  /\ Existing \in [Update -> Path] /\ Output \in [Command -> Path]
  /\ MaxFiles \in Nat /\ MaxOps \in Nat

VARIABLES
  archive,        \* per file: [txns, mtime], or None
  disk,           \* per path: the index there, or None
  ops,            \* how much of MaxOps is spent; also the clock of the archive
  \* per command
  pc,
  header,         \* update: the file snapshot of the existing index
  listed,         \* ListLogFiles, when it was called
  todo,           \* the files still to scan
  entries         \* the temporary file

cmdVars == <<pc, header, listed, todo, entries>>
vars    == <<archive, disk, ops, cmdVars>>

\* ports.LogFile: name, size and modification time.
LogFile(f) == [name |-> f, size |-> Len(archive[f].txns), mtime |-> archive[f].mtime]
Snapshot   == {LogFile(f) : f \in {g \in File : archive[g] # None}}
NamesIn(files) == {x.name : x \in files}

\* A command's seen map: GTIDs already written.  One transaction is written once.
Add(out, e) == IF \E i \in DOMAIN out : out[i].gtid = e.gtid THEN out ELSE Append(out, e)

\* The entries es are added one after the other, those of the files `skip` left out.
AddAll(out, es, skip) ==
  LET upTo[i \in 0 .. Len(es)] == IF i = 0 THEN out
                                 ELSE IF es[i].file \in skip THEN upTo[i - 1]
                                 ELSE Add(upTo[i - 1], es[i])
  IN  upTo[Len(es)]

EntriesOf(f) == [i \in DOMAIN archive[f].txns |-> [gtid |-> archive[f].txns[i], file |-> f]]
Scanned(out, f) == AddAll(out, EntriesOf(f), {})

-----------------------------------------------------------------------------
(* The archive and its owner.                                              *)

Change == ops < MaxOps /\ ops' = ops + 1
Names  == {f \in File : archive[f] # None}

\* A transaction is appended to the last file, or to a new one, not always the next.
Grow(f, g) ==
  /\ Change
  /\ IF f \in Names THEN f = Max(Names) ELSE TRUE
  /\ archive' = [archive EXCEPT ![f] =
       [txns |-> IF @ = None THEN <<g>> ELSE Append(@.txns, g), mtime |-> ops + 1]]
  /\ UNCHANGED <<disk, cmdVars>>

\* A file is replaced by another one.
Rewrite(f, g) ==
  /\ Change /\ f \in Names
  /\ archive' = [archive EXCEPT ![f] = [txns |-> <<g>>, mtime |-> ops + 1]]
  /\ UNCHANGED <<disk, cmdVars>>

Purge(f) ==
  /\ Change /\ f \in Names
  /\ archive' = [archive EXCEPT ![f] = None]
  /\ UNCHANGED <<disk, cmdVars>>

\* The DBA puts a newer index in the place of an older one.
Newer(old, new) == \A x \in old : \E y \in new : y.name = x.name /\ y.mtime >= x.mtime
Switch(p, q) ==
  /\ Change /\ disk[p] # None /\ disk[q] # None
  /\ Newer(disk[p].files, disk[q].files)
  /\ disk' = [disk EXCEPT ![p] = disk[q]]
  /\ UNCHANGED <<archive, cmdVars>>

-----------------------------------------------------------------------------
(* A command.                                                              *)

Goto(c, l) == pc' = [pc EXCEPT ![c] = l]
Fail(c)    == Goto(c, "failed")

\* requireAbsent.  (The first one is a faulty variant.)
AbsentAlways(p) == TRUE
Absent(p)       == disk[p] = None

Start(c) ==
  /\ pc[c] = "idle"
  /\ IF ~Absent(Output[c]) THEN Fail(c)
     ELSE Goto(c, IF c \in Update THEN "header" ELSE "list")
  /\ UNCHANGED <<archive, disk, ops, header, listed, todo, entries>>

\* An empty directory is an error of ListLogFiles.
List(c) ==
  /\ pc[c] = "list" /\ c \in Build
  /\ listed' = [listed EXCEPT ![c] = Snapshot]
  /\ todo' = [todo EXCEPT ![c] = Names]
  /\ IF Names = {} THEN Fail(c) ELSE Goto(c, "scan")
  /\ UNCHANGED <<archive, disk, ops, header, entries>>

\* ReadHeader and validateFileSnapshot of the existing index.
ReadHeader(c) ==
  /\ pc[c] = "header"
  /\ IF disk[Existing[c]] = None THEN Fail(c) /\ UNCHANGED header
     ELSE header' = [header EXCEPT ![c] = disk[Existing[c]].files] /\ Goto(c, "compare")
  /\ UNCHANGED <<archive, disk, ops, listed, todo, entries>>

\* CompareFiles.
Added(old, new)   == {x \in new : x.name \notin NamesIn(old)}
Removed(old, new) == {x \in old : x.name \notin NamesIn(new)}
Changed(old, new) == {x \in new : x.name \in NamesIn(old) /\ x \notin old}

LastOf(files) == CHOOSE x \in files : \A y \in files : y.name <= x.name

\* safeAppendPlan: only the last file may have grown, and only later files may be new.
\* (The first one is a faulty variant.)
RescanAdded(old, new) == NamesIn(Added(old, new))
AppendOnly(old, new) ==
  /\ Removed(old, new) = {}
  /\ \A x \in Changed(old, new) : x.name = LastOf(old).name /\ x.size > LastOf(old).size
  /\ \A x \in Added(old, new) : x.name > LastOf(old).name
Rescan(old, new) == NamesIn(Added(old, new)) \cup NamesIn(Changed(old, new))

\* "current": the archive is as it was, and nothing is written.
Compare(c) ==
  /\ pc[c] = "compare"
  /\ listed' = [listed EXCEPT ![c] = Snapshot]
  /\ todo' = [todo EXCEPT ![c] = Rescan(header[c], Snapshot)]
  /\ CASE Names = {}                               -> Fail(c)
       [] Names # {} /\ Snapshot = header[c]       -> Goto(c, "current")
       [] Names # {} /\ Snapshot # header[c]       ->
            IF AppendOnly(header[c], Snapshot) THEN Goto(c, "copy") ELSE Fail(c)
  /\ UNCHANGED <<archive, disk, ops, header, entries>>

\* The existing index is opened again: entries of files that are rescanned are left out, one
\* of a file the header did not name is an error.
CopyOld(c) ==
  LET old == disk[Existing[c]] IN
  /\ pc[c] = "copy"
  /\ IF old = None \/ \E i \in DOMAIN old.entries : old.entries[i].file \notin NamesIn(header[c])
     THEN Fail(c) /\ UNCHANGED entries
     ELSE /\ entries' = [entries EXCEPT ![c] = AddAll(<<>>, old.entries, todo[c])]
          /\ Goto(c, "scan")
  /\ UNCHANGED <<archive, disk, ops, header, listed, todo>>

\* The next file is scanned, as it is now; one that is gone is an error.
ScanFile(c) ==
  LET f == Min(todo[c]) IN
  /\ pc[c] = "scan" /\ todo[c] # {}
  /\ IF f \notin Names THEN Fail(c) /\ UNCHANGED <<todo, entries>>
     ELSE /\ entries' = [entries EXCEPT ![c] = Scanned(@, f)]
          /\ todo' = [todo EXCEPT ![c] = @ \ {f}]
          /\ UNCHANGED pc
  /\ UNCHANGED <<archive, disk, ops, header, listed>>

\* The output must still be absent ...
Recheck(c) ==
  /\ pc[c] = "scan" /\ todo[c] = {}
  /\ IF Absent(Output[c]) THEN Goto(c, "publish") ELSE Fail(c)
  /\ UNCHANGED <<archive, disk, ops, header, listed, todo, entries>>

\* ... and is then replaced, whatever it is: rename(2) overwrites.
Publish(c) ==
  /\ pc[c] = "publish"
  /\ disk' = [disk EXCEPT ![Output[c]] = [files |-> listed[c], entries |-> entries[c]]]
  /\ Goto(c, "published")
  /\ UNCHANGED <<archive, ops, header, listed, todo, entries>>

Init ==
  /\ archive = [f \in File |-> None]
  /\ disk = [p \in Path |-> None]
  /\ ops = 0
  /\ pc = [c \in Command |-> "idle"]
  /\ header = [c \in Command |-> {}] /\ listed = [c \in Command |-> {}]
  /\ todo = [c \in Command |-> {}]
  /\ entries = [c \in Command |-> <<>>]

Next ==
  \/ \E f \in File, g \in Gtid : Grow(f, g) \/ Rewrite(f, g)
  \/ \E f \in File : Purge(f)
  \/ \E p, q \in Path : Switch(p, q)
  \/ \E c \in Command : \/ Start(c) \/ List(c) \/ ReadHeader(c) \/ Compare(c) \/ CopyOld(c)
                        \/ ScanFile(c) \/ Recheck(c) \/ Publish(c)

Spec == Init /\ [][Next]_vars

-----------------------------------------------------------------------------
(* What must be true.                                                      *)

\* The type invariant of the archive, the indexes and the commands.
TypeOK ==
  /\ archive \in [File -> Binlog \cup {None}]
  /\ \A p \in Path : disk[p] # None => disk[p].files \subseteq LogFiles /\ disk[p].entries \in Seq(Entry)
  /\ ops \in 0..MaxOps
  /\ pc \in [Command -> {"idle", "list", "header", "compare", "copy", "scan", "publish",
                         "published", "current", "failed"}]
  /\ \A c \in Command : /\ header[c] \subseteq LogFiles /\ listed[c] \subseteq LogFiles
                        /\ todo[c] \subseteq NamesIn(listed[c]) /\ entries[c] \in Seq(Entry)

\* `index check` says CURRENT: the archive looks as it did when the index at p was made.
Current(p) == disk[p] # None /\ disk[p].files = Snapshot

\* When `index check` says CURRENT the index tells where every transaction of the archive
\* is, once, in the file where the archive has it first and in the order of the archive, and
\* nothing else, whether it was built or updated, however often, and whatever happened to the
\* archive meanwhile.
Carries(f, g) == f \in Names /\ g \in Range(archive[f].txns)
FirstIn(f, g) == CHOOSE i \in DOMAIN archive[f].txns :
                   archive[f].txns[i] = g /\ \A j \in 1 .. i - 1 : archive[f].txns[j] # g
CurrentIsComplete ==
  \A p \in Path : Current(p) =>
    LET idx == disk[p].entries IN
    /\ \A f \in File, g \in Gtid : Carries(f, g) => \E j \in DOMAIN idx : idx[j].gtid = g
    /\ \A j \in DOMAIN idx : /\ Carries(idx[j].file, idx[j].gtid)
                            /\ \A f \in 1 .. idx[j].file - 1 : ~Carries(f, idx[j].gtid)
    /\ \A j, k \in DOMAIN idx : j < k =>
         \/ idx[j].file < idx[k].file
         \/ /\ idx[j].file = idx[k].file
            /\ FirstIn(idx[j].file, idx[j].gtid) < FirstIn(idx[k].file, idx[k].gtid)

\* An index that exists is never modified by a command: README, "绝不覆盖已有路径" and
\* "旧索引永远不会被修改".  Only the DBA switches indexes.
NeverOverwritten ==
  [][\A p \in Path : disk[p] # None => disk'[p] = disk[p] \/ ops' # ops]_vars
=============================================================================
