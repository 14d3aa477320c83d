--------------------------- MODULE TxnIndexProofs ---------------------------
(***************************************************************************)
(* No command modifies an index, and an index that `check` calls CURRENT   *)
(* tells everything, for any number of files, transactions and commands,   *)
(* if no two commands are given the same output.                           *)
(***************************************************************************)
EXTENDS TxnIndex, DataInduction

\* An update that is told to write the index it reads, and the condition on the other commands.
InPlace == {u \in Update : Existing[u] = Output[u]}
OutputsDiffer ==
  \A c, d \in Command : c # d /\ Output[c] = Output[d] => c \in InPlace \/ d \in InPlace

Labels == {"idle", "list", "header", "compare", "copy", "scan", "publish", "published",
           "current", "failed"}

\* A command that is about to publish has nothing in its way: the file was absent when it looked,
\* and nobody else creates it.  An update in place never comes so far, because the index it has
\* read is still there when it looks.
Unobstructed ==
  /\ pc \in [Command -> Labels]
  /\ disk = [p \in Path |-> disk[p]]
  /\ \A u \in Update : pc[u] # "list"
  /\ \A c \in Command : pc[c] = "publish" => disk[Output[c]] = None /\ c \notin InPlace
  /\ \A u \in InPlace : pc[u] \in {"compare", "copy", "scan"} => disk[Output[u]] # None

\* What a step of a command that does not publish leaves of it.
LEMMA Quietly ==
  ASSUME Unobstructed, NEW c \in Command, NEW l \in Labels, Goto(c, l), disk' = disk,
         l = "list" => c \notin Update,
         l = "publish" => disk[Output[c]] = None /\ c \notin InPlace,
         c \in InPlace /\ l \in {"compare", "copy", "scan"} => disk[Output[c]] # None
  PROVE  Unobstructed'
<1>1. pc' = [pc EXCEPT ![c] = l] /\ pc \in [Command -> Labels]
  BY DEF Goto, Unobstructed
<1>2. pc' \in [Command -> Labels] /\ pc'[c] = l /\ \A d \in Command \ {c} : pc'[d] = pc[d]
  BY <1>1
<1>3. InPlace \subseteq Update /\ Update \subseteq Command
  BY DEF InPlace, Command
<1> QED BY <1>2, <1>3 DEF Unobstructed

\* A command that fails is out of the way.
LEMMA FailStep ==
  ASSUME Unobstructed, NEW c \in Command, Fail(c), disk' = disk
  PROVE  Unobstructed'
BY Quietly DEF Fail, Labels

LEMMA CommandStep ==
  ASSUME Unobstructed, NEW c \in Command,
         \/ Start(c) \/ List(c) \/ ReadHeader(c) \/ Compare(c) \/ CopyOld(c)
         \/ ScanFile(c) \/ Recheck(c)
  PROVE  Unobstructed' /\ disk' = disk
<1>1. disk' = disk
  BY DEF Start, List, ReadHeader, Compare, CopyOld, ScanFile, Recheck
<1>2. CASE Start(c)
  BY <1>1, <1>2, FailStep, Quietly DEF Start, Labels
<1>3. CASE List(c)
  <2>1. Fail(c) \/ (Goto(c, "scan") /\ c \in Build)
    BY <1>3 DEF List
  <2>2. c \in Build => c \notin InPlace
    BY IndexAssumption DEF InPlace
  <2> QED BY <1>1, <2>1, <2>2, FailStep, Quietly DEF Labels
<1>4. CASE ReadHeader(c)
  <2>1. Fail(c) \/ (Goto(c, "compare") /\ disk[Existing[c]] # None)
    BY <1>4 DEF ReadHeader
  <2> QED BY <1>1, <2>1, FailStep, Quietly DEF Labels, InPlace
<1>5. CASE Compare(c)
  <2>1. pc[c] = "compare" /\ (Fail(c) \/ Goto(c, "current") \/ Goto(c, "copy"))
    BY <1>5 DEF Compare
  <2> QED BY <1>1, <2>1, FailStep, Quietly DEF Labels, Unobstructed
<1>6. CASE CopyOld(c)
  <2>1. pc[c] = "copy" /\ (Fail(c) \/ Goto(c, "scan"))
    BY <1>6 DEF CopyOld
  <2> QED BY <1>1, <2>1, FailStep, Quietly DEF Labels, Unobstructed
<1>7. CASE ScanFile(c)
  <2>1. Fail(c) \/ pc' = pc
    BY <1>7 DEF ScanFile
  <2> QED BY <1>1, <2>1, FailStep DEF Unobstructed
<1>8. CASE Recheck(c)
  <2>1. pc[c] = "scan" /\ (Fail(c) \/ (Goto(c, "publish") /\ disk[Output[c]] = None))
    BY <1>8 DEF Recheck, Absent
  <2>2. disk[Output[c]] = None => c \notin InPlace
    BY <2>1 DEF Unobstructed
  <2> QED BY <1>1, <2>1, <2>2, FailStep, Quietly DEF Labels
<1> QED BY <1>1, <1>2, <1>3, <1>4, <1>5, <1>6, <1>7, <1>8

LEMMA PublishStep ==
  ASSUME OutputsDiffer, Unobstructed, NEW c \in Command, Publish(c)
  PROVE  /\ Unobstructed'
         /\ \A p \in Path : disk[p] # None => disk'[p] = disk[p]
<1> DEFINE index == [files |-> listed[c], entries |-> entries[c]]
<1>1. /\ pc[c] = "publish" /\ disk[Output[c]] = None /\ c \notin InPlace
      /\ disk' = [disk EXCEPT ![Output[c]] = index] /\ pc' = [pc EXCEPT ![c] = "published"]
  BY DEF Publish, Goto, Unobstructed
<1> HIDE DEF index
<1>2. \A p \in Path : disk'[p] = IF p = Output[c] THEN index ELSE disk[p]
  BY <1>1 DEF Unobstructed
<1>3. /\ disk' = [p \in Path |-> disk'[p]]
      /\ pc' \in [Command -> Labels] /\ pc'[c] = "published"
      /\ \A d \in Command \ {c} : pc'[d] = pc[d]
  BY <1>1 DEF Unobstructed, Labels
<1>4. ASSUME NEW d \in Command, pc'[d] = "publish"
      PROVE  disk'[Output[d]] = None /\ d \notin InPlace
  <2>1. d # c /\ pc[d] = "publish" /\ d \notin InPlace /\ disk[Output[d]] = None
    BY <1>3, <1>4 DEF Unobstructed
  <2>2. Output[d] # Output[c]
    BY <1>1, <2>1 DEF OutputsDiffer
  <2> QED BY <1>2, <2>1, <2>2, IndexAssumption
<1>5. ASSUME NEW u \in InPlace, pc'[u] \in {"compare", "copy", "scan"}
      PROVE  disk'[Output[u]] # None
  <2>1. u \in Command /\ u # c /\ disk[Output[u]] # None /\ Output[u] \in Path
    BY <1>3, <1>5, <1>1, IndexAssumption DEF InPlace, Command, Unobstructed
  <2> QED BY <1>1, <1>2, <2>1
<1>6. \A u \in Update : pc'[u] # "list"
  BY <1>3 DEF Unobstructed, Command
<1> QED BY <1>1, <1>2, <1>3, <1>4, <1>5, <1>6 DEF Unobstructed

\* The DBA replaces an index by an index.
LEMMA SwitchStep ==
  ASSUME Unobstructed, NEW p \in Path, NEW q \in Path, Switch(p, q)
  PROVE  Unobstructed'
<1>1. /\ disk[p] # None /\ disk[q] # None /\ disk' = [disk EXCEPT ![p] = disk[q]]
      /\ pc' = pc
  BY DEF Switch, cmdVars
<1>2. \A r \in Path : disk'[r] = IF r = p THEN disk[q] ELSE disk[r]
  BY <1>1 DEF Unobstructed
<1>3. /\ disk' = [r \in Path |-> disk'[r]]
      /\ \A r \in Path : disk'[r] = None <=> disk[r] = None
  BY <1>1, <1>2 DEF Unobstructed
<1>4. \A c \in Command : Output[c] \in Path
  BY IndexAssumption
<1>5. InPlace \subseteq Command
  BY DEF InPlace, Command
<1> QED BY <1>1, <1>3, <1>4, <1>5 DEF Unobstructed

LEMMA NextStep ==
  ASSUME OutputsDiffer, Unobstructed, ops \in Nat, [Next]_vars
  PROVE  /\ Unobstructed' /\ ops' \in Nat
         /\ \A p \in Path : disk[p] # None => disk'[p] = disk[p] \/ ops' # ops
<1>1. CASE UNCHANGED vars
  BY <1>1 DEF vars, cmdVars, Unobstructed
<1>2. ASSUME NEW f \in File, \/ Purge(f) \/ \E g \in Gtid : Grow(f, g) \/ Rewrite(f, g)
      PROVE  UNCHANGED <<disk, pc>> /\ ops' = ops + 1
  BY <1>2 DEF Purge, Grow, Rewrite, Change, cmdVars
<1>3. ASSUME NEW p \in Path, NEW q \in Path, Switch(p, q) PROVE Unobstructed' /\ ops' = ops + 1
  BY <1>3, SwitchStep DEF Switch, Change
<1>4. ASSUME NEW c \in Command,
             \/ Start(c) \/ List(c) \/ ReadHeader(c) \/ Compare(c) \/ CopyOld(c)
             \/ ScanFile(c) \/ Recheck(c)
      PROVE  Unobstructed' /\ disk' = disk /\ ops' = ops
  BY <1>4, CommandStep DEF Start, List, ReadHeader, Compare, CopyOld, ScanFile, Recheck
<1>5. ASSUME NEW c \in Command, Publish(c)
      PROVE  /\ Unobstructed' /\ ops' = ops
             /\ \A p \in Path : disk[p] # None => disk'[p] = disk[p]
  BY <1>5, PublishStep DEF Publish
<1>6. ASSUME ops' = ops + 1 PROVE ops' \in Nat /\ ops' # ops
  BY <1>6
<1>7. CASE \/ \E f \in File, g \in Gtid : Grow(f, g) \/ Rewrite(f, g)
           \/ \E f \in File : Purge(f)
  BY <1>2, <1>6, <1>7 DEF Unobstructed
<1> QED BY <1>1, <1>3, <1>4, <1>5, <1>6, <1>7 DEF Next

\* If no two commands have one output (but an update in place, which always fails, may share its
\* own), an index that exists is never modified by a command: NeverOverwritten.
THEOREM IndexesStand ==
  ASSUME OutputsDiffer
  PROVE  Spec => NeverOverwritten
<1> DEFINE Inv == Unobstructed /\ ops \in Nat
<1>1. Init => Inv
  BY IndexAssumption DEF Init, Unobstructed, Labels, InPlace, Command
<1>2. Inv /\ [Next]_vars => Inv'
  BY NextStep
<1>3. Inv /\ [Next]_vars =>
        [\A p \in Path : disk[p] # None => disk'[p] = disk[p] \/ ops' # ops]_vars
  BY NextStep
<1> HIDE DEF Inv
<1> QED BY <1>1, <1>2, <1>3, PTL DEF Spec, NeverOverwritten

-----------------------------------------------------------------------------
(* What an index says of the archive.                                       *)

\* The archive a still has the file x that was listed, as it was when it was listed.
Fresh(a, x) == a[x.name] # None /\ a[x.name].mtime = x.mtime

\* What was listed was there once, and a modification time never comes again.
Listed(a, now, files) ==
  \A x \in files : /\ x \in LogFiles /\ x.mtime <= now
                   /\ a[x.name] # None => x.mtime <= a[x.name].mtime
                   /\ Fresh(a, x) => x.size = Len(a[x.name].txns)

\* A transaction of file f is there for the first time at place i.
IsFirst(a, f, i, g) == /\ i \in DOMAIN a[f].txns /\ a[f].txns[i] = g
                       /\ \A j \in 1 .. i - 1 : a[f].txns[j] # g

\* What the entries say of files that are as they were listed.  Of a file that is not, and never
\* will be again, they may say anything.
Complete(a, files, es) ==
  \A x \in files : Fresh(a, x) =>
    \A g \in Range(a[x.name].txns) : \E j \in DOMAIN es : es[j].gtid = g /\ es[j].file <= x.name
Sound(a, files, es) ==
  \A j \in DOMAIN es : /\ es[j].file \in NamesIn(files)
                       /\ \A x \in files : x.name = es[j].file /\ Fresh(a, x) =>
                            es[j].gtid \in Range(a[x.name].txns)
Once(es) ==
  \A j, k \in DOMAIN es : j < k => es[j].gtid # es[k].gtid /\ es[j].file <= es[k].file
InOrder(a, files, es) ==
  \A j, k \in DOMAIN es : j < k /\ es[j].file = es[k].file =>
    \A x \in files : x.name = es[j].file /\ Fresh(a, x) =>
      \A i, l \in DOMAIN a[x.name].txns :
        IsFirst(a, x.name, i, es[j].gtid) /\ IsFirst(a, x.name, l, es[k].gtid) => i < l
Right(a, files, es) ==
  es \in Seq(Entry) /\ Complete(a, files, es) /\ Sound(a, files, es) /\ Once(es) /\ InOrder(a, files, es)

Typed ==
  /\ archive \in [File -> Binlog \cup {None}] /\ disk \in [Path -> Index \cup {None}] /\ ops \in Nat
  /\ header \in [Command -> SUBSET LogFiles] /\ listed \in [Command -> SUBSET LogFiles]
  /\ todo \in [Command -> SUBSET File] /\ entries \in [Command -> Seq(Entry)]
  /\ \A f \in File : archive[f] # None => archive[f].mtime <= ops

\* The files a command has scanned, or whose entries it has copied.
Done(c) == {x \in listed[c] : x.name \notin todo[c]}

\* How far a command has come, and what it has in memory.
Working(c) ==
  /\ Listed(archive, ops, header[c]) /\ Listed(archive, ops, listed[c])
  /\ pc[c] \in {"idle", "list"} => entries[c] = <<>>
  /\ pc[c] \in {"header", "compare", "copy"} => c \in Update
  /\ pc[c] \in {"compare", "copy"} => /\ disk[Existing[c]] # None
                                     /\ Newer(header[c], disk[Existing[c]].files)
  /\ pc[c] = "copy" => /\ AppendOnly(header[c], listed[c])
                       /\ todo[c] = Rescan(header[c], listed[c])
  /\ pc[c] \in {"scan", "publish"} =>
       /\ Right(archive, Done(c), entries[c]) /\ todo[c] \subseteq NamesIn(listed[c])
       /\ \A j \in DOMAIN entries[c] : \A f \in todo[c] : entries[c][j].file < f
  /\ pc[c] = "publish" => todo[c] = {}

Stands == \A p \in Path : disk[p] # None => /\ Listed(archive, ops, disk[p].files)
                                            /\ Right(archive, disk[p].files, disk[p].entries)

Faithful == Unobstructed /\ Typed /\ Stands /\ \A c \in Command : Working(c)

-----------------------------------------------------------------------------
(* Adding entries.                                                          *)

\* The entry i of es is the first of its transaction, among those that are not left out.
Leads(es, skip, i) ==
  /\ es[i].file \notin skip
  /\ \A m \in 1 .. i - 1 : es[m].file \in skip \/ es[m].gtid # es[i].gtid

\* r is `out` with the first n entries of es added, those of the files `skip` left out.
Grown(out, es, skip, n, r) ==
  /\ r \in Seq(Entry) /\ Len(out) <= Len(r) /\ \A j \in 1 .. Len(out) : r[j] = out[j]
  /\ \A i \in 1 .. n : es[i].file \notin skip => \E j \in DOMAIN r : r[j].gtid = es[i].gtid
  /\ \A j \in DOMAIN r : j > Len(out) => \E i \in 1 .. n : Leads(es, skip, i) /\ r[j] = es[i]
  /\ \A j, k \in DOMAIN r : j < k /\ j > Len(out) =>
       \A i, l \in 1 .. n :
         (Leads(es, skip, i) /\ Leads(es, skip, l) /\ r[j] = es[i] /\ r[k] = es[l]) => i < l
  /\ \A j, k \in DOMAIN r : j < k /\ k > Len(out) => r[j].gtid # r[k].gtid

LEMMA LeadsOnce ==
  ASSUME NEW es, NEW skip, NEW i \in Nat \ {0}, NEW l \in Nat \ {0},
         Leads(es, skip, i), Leads(es, skip, l), es[i] = es[l]
  PROVE  i = l
<1>1. ~(i < l)
  BY DEF Leads
<1>2. ~(l < i)
  BY DEF Leads
<1> QED BY <1>1, <1>2

LEMMA OneMore ==
  ASSUME NEW out \in Seq(Entry), NEW es \in Seq(Entry), NEW skip, NEW n \in 1 .. Len(es), NEW r,
         Grown(out, es, skip, n - 1, r)
  PROVE  Grown(out, es, skip, n, IF es[n].file \in skip THEN r ELSE Add(r, es[n]))
<1> DEFINE e == es[n]
<1>1. /\ e \in Entry /\ n \in Nat /\ n - 1 \in Nat /\ 1 .. n = (1 .. n - 1) \cup {n}
      /\ n \notin 1 .. n - 1
  OBVIOUS
<1>2. /\ r \in Seq(Entry) /\ Len(r) \in Nat /\ DOMAIN r = 1 .. Len(r)
      /\ Len(out) \in Nat /\ Len(out) <= Len(r) /\ \A j \in 1 .. Len(out) : r[j] = out[j]
  BY DEF Grown
<1>3. \A i \in 1 .. n - 1 : es[i].file \notin skip => \E j \in DOMAIN r : r[j].gtid = es[i].gtid
  BY DEF Grown
<1>4. \A j \in DOMAIN r : j > Len(out) => \E i \in 1 .. n - 1 : Leads(es, skip, i) /\ r[j] = es[i]
  BY DEF Grown
<1>5. \A j, k \in DOMAIN r : j < k /\ j > Len(out) =>
        \A i, l \in 1 .. n - 1 :
            (Leads(es, skip, i) /\ Leads(es, skip, l) /\ r[j] = es[i] /\ r[k] = es[l]) => i < l
  BY DEF Grown
<1>6. \A j, k \in DOMAIN r : j < k /\ k > Len(out) => r[j].gtid # r[k].gtid
  BY DEF Grown
<1>7. CASE e.file \in skip \/ \E j \in DOMAIN r : r[j].gtid = e.gtid
  <2>1. (IF es[n].file \in skip THEN r ELSE Add(r, es[n])) = r
    BY <1>7 DEF Add
  <2>2. \A i \in 1 .. n : es[i].file \notin skip => \E j \in DOMAIN r : r[j].gtid = es[i].gtid
    BY <1>1, <1>3, <1>7
  <2>3. ~Leads(es, skip, n) \/ \E j \in DOMAIN r : r[j].gtid = e.gtid
    BY <1>7 DEF Leads
  <2>4. \A j, k \in DOMAIN r : j < k /\ j > Len(out) =>
          \A i, l \in 1 .. n :
            (Leads(es, skip, i) /\ Leads(es, skip, l) /\ r[j] = es[i] /\ r[k] = es[l]) => i < l
    <3> SUFFICES ASSUME NEW j \in DOMAIN r, NEW k \in DOMAIN r, j < k, j > Len(out),
                        NEW i \in 1 .. n, NEW l \in 1 .. n,
                        Leads(es, skip, i), Leads(es, skip, l), r[j] = es[i], r[k] = es[l]
                 PROVE  i < l
      OBVIOUS
    <3>1. k > Len(out)
      BY <1>2
    <3>2. PICK i1 \in 1 .. n - 1 : Leads(es, skip, i1) /\ r[j] = es[i1]
      BY <1>4
    <3>3. PICK l1 \in 1 .. n - 1 : Leads(es, skip, l1) /\ r[k] = es[l1]
      BY <1>4, <3>1
    <3>4. i = i1
      <4>1. i \in Nat \ {0} /\ i1 \in Nat \ {0} /\ es[i] = es[i1]
        BY <1>1, <3>2
      <4> QED BY <3>2, <4>1, LeadsOnce
    <3>5. l = l1
      <4>1. l \in Nat \ {0} /\ l1 \in Nat \ {0} /\ es[l] = es[l1]
        BY <1>1, <3>3
      <4> QED BY <3>3, <4>1, LeadsOnce
    <3> QED BY <1>5, <3>2, <3>3, <3>4, <3>5
  <2>5. \A j \in DOMAIN r : j > Len(out) => \E i \in 1 .. n : Leads(es, skip, i) /\ r[j] = es[i]
    BY <1>1, <1>4
  <2>6. Grown(out, es, skip, n, r)
    BY <1>2, <2>2, <2>5, <2>4, <1>6, Zenon DEF Grown
  <2> QED BY <2>1, <2>6
<1>8. CASE e.file \notin skip /\ \A j \in DOMAIN r : r[j].gtid # e.gtid
  <2> DEFINE q == Append(r, e)
  <2>1. (IF es[n].file \in skip THEN r ELSE Add(r, es[n])) = q
    BY <1>8 DEF Add
  <2>2. /\ q \in Seq(Entry) /\ Len(q) = Len(r) + 1 /\ DOMAIN q = 1 .. Len(r) + 1
        /\ q[Len(r) + 1] = e /\ \A j \in 1 .. Len(r) : q[j] = r[j]
    BY <1>1, <1>2
  <2> HIDE DEF q
  <2>3. /\ \A j \in DOMAIN r : j \in DOMAIN q /\ q[j] = r[j]
        /\ Len(r) + 1 \in DOMAIN q
        /\ \A j \in DOMAIN q : j = Len(r) + 1 \/ (j \in DOMAIN r /\ q[j] = r[j])
    BY <1>2, <2>2
  <2>4. Len(out) <= Len(q) /\ \A j \in 1 .. Len(out) : q[j] = out[j]
    BY <1>2, <2>2
  <2>5. \A i \in 1 .. n : es[i].file \notin skip => \E j \in DOMAIN q : q[j].gtid = es[i].gtid
    <3> SUFFICES ASSUME NEW i \in 1 .. n, es[i].file \notin skip
                 PROVE  \E j \in DOMAIN q : q[j].gtid = es[i].gtid
      OBVIOUS
    <3>1. CASE i = n
      BY <2>2, <2>3, <3>1
    <3>2. CASE i \in 1 .. n - 1
      BY <1>3, <2>3, <3>2
    <3> QED BY <1>1, <3>1, <3>2
  <2>6. Leads(es, skip, n)
    <3> SUFFICES ASSUME NEW m \in 1 .. n - 1, es[m].file \notin skip PROVE es[m].gtid # es[n].gtid
      BY <1>8 DEF Leads
    <3> QED BY <1>3, <1>8
  <2>7. \A j \in DOMAIN q : j > Len(out) => \E i \in 1 .. n : Leads(es, skip, i) /\ q[j] = es[i]
    <3> SUFFICES ASSUME NEW j \in DOMAIN q, j > Len(out)
                 PROVE  \E i \in 1 .. n : Leads(es, skip, i) /\ q[j] = es[i]
      OBVIOUS
    <3>1. CASE j = Len(r) + 1
      BY <1>1, <2>2, <2>6, <3>1
    <3>2. CASE j \in DOMAIN r /\ q[j] = r[j]
      BY <1>1, <1>4, <3>2
    <3> QED BY <2>3, <3>1, <3>2
  <2>8. \A j, k \in DOMAIN q : j < k /\ k > Len(out) => q[j].gtid # q[k].gtid
    <3> SUFFICES ASSUME NEW j \in DOMAIN q, NEW k \in DOMAIN q, j < k, k > Len(out)
                 PROVE  q[j].gtid # q[k].gtid
      OBVIOUS
    <3>1. j \in DOMAIN r /\ q[j] = r[j]
      BY <1>2, <2>2, <2>3
    <3>2. CASE k = Len(r) + 1
      BY <1>8, <2>2, <3>1, <3>2
    <3>3. CASE k \in DOMAIN r /\ q[k] = r[k]
      BY <1>6, <3>1, <3>3
    <3> QED BY <2>3, <3>2, <3>3
  <2>9. \A j, k \in DOMAIN q : j < k /\ j > Len(out) =>
          \A i, l \in 1 .. n :
            (Leads(es, skip, i) /\ Leads(es, skip, l) /\ q[j] = es[i] /\ q[k] = es[l]) => i < l
    <3> SUFFICES ASSUME NEW j \in DOMAIN q, NEW k \in DOMAIN q, j < k, j > Len(out),
                        NEW i \in 1 .. n, NEW l \in 1 .. n,
                        Leads(es, skip, i), Leads(es, skip, l), q[j] = es[i], q[k] = es[l]
                 PROVE  i < l
      OBVIOUS
    <3>1. j \in DOMAIN r /\ q[j] = r[j]
      BY <1>2, <2>2, <2>3
    <3>2. i # n
      BY <1>8, <3>1
    <3>3. i \in 1 .. n - 1
      BY <1>1, <3>2
    <3>4. CASE k = Len(r) + 1
      <4>1. l \notin 1 .. n - 1
        BY <1>3, <1>8, <2>2, <3>4 DEF Leads
      <4> QED BY <1>1, <3>3, <4>1
    <3>5. CASE k \in DOMAIN r /\ q[k] = r[k]
      <4>1. l \in 1 .. n - 1
        BY <1>1, <1>8, <3>5
      <4> QED BY <1>5, <3>1, <3>3, <3>5, <4>1
    <3> QED BY <2>3, <3>4, <3>5
  <2>10. Grown(out, es, skip, n, q)
    BY <2>2, <2>4, <2>5, <2>7, <2>9, <2>8, Zenon DEF Grown
  <2> QED BY <2>1, <2>10
<1> QED BY <1>7, <1>8

LEMMA AddAllIs ==
  ASSUME NEW out \in Seq(Entry), NEW es \in Seq(Entry), NEW skip
  PROVE  Grown(out, es, skip, Len(es), AddAll(out, es, skip))
<1> DEFINE n == Len(es)
           Next1(p, i) == IF es[i].file \in skip THEN p ELSE Add(p, es[i])
           step == [i \in 1 .. n |-> [p \in Seq(Entry) |-> Next1(p, i)]]
<1>1. n \in Nat /\ \A i \in 1 .. n : es[i] \in Entry
  OBVIOUS
<1>2. \A i \in 1 .. n : \A p \in Seq(Entry) : Next1(p, i) \in Seq(Entry)
  BY <1>1 DEF Add
<1>3. step \in Steps(n, Seq(Entry)) /\ \A i \in 1 .. n : \A p \in Seq(Entry) : step[i][p] = Next1(p, i)
  <2> HIDE DEF Next1
  <2> QED BY <1>2 DEF Steps
<1>4. PICK f : f \in Solutions(n, Seq(Entry), out, step)
  <2> HIDE DEF n, step
  <2> QED BY <1>1, <1>3, RecursionTo
<1> DEFINE Solves(g) == g = [i \in 0 .. n |-> IF i = 0 THEN out
                                               ELSE IF es[i].file \in skip THEN g[i - 1]
                                               ELSE Add(g[i - 1], es[i])]
<1>5. Solves(f)
  <2>1. \A i \in 1 .. n : f[i] = Next1(f[i - 1], i)
    <3> SUFFICES ASSUME NEW i \in 1 .. n PROVE f[i] = Next1(f[i - 1], i)
      OBVIOUS
    <3>1. i - 1 \in 0 .. n
      BY <1>1
    <3> HIDE DEF n, step, Next1
    <3>2. f[i - 1] \in Seq(Entry) /\ f[i] = step[i][f[i - 1]]
      BY <1>4, <3>1 DEF Solutions
    <3> QED BY <1>3, <3>2
  <2> HIDE DEF n
  <2> QED BY <1>4, <2>1 DEF Solutions
<1> DEFINE u == CHOOSE g : Solves(g)
<1>6. Solves(u)
  <2> HIDE DEF Solves
  <2> QED BY <1>5
<1>7. AddAll(out, es, skip) = u[n]
  BY DEF AddAll
<1> HIDE DEF u
<1>8. u[0] = out /\ \A i \in 1 .. n : u[i] = Next1(u[i - 1], i)
  <2>1. \A i \in 0 .. n : u[i] = IF i = 0 THEN out ELSE Next1(u[i - 1], i)
    BY <1>6
  <2> HIDE DEF n, Next1
  <2> QED BY <1>1, <2>1
<1> HIDE DEF Solves
<1> DEFINE S == {i \in 0 .. n : Grown(out, es, skip, i, u[i])}
<1>9. \A i \in 0 .. n : i \in S
  <2>1. 0 \in S
    <3>1. Grown(out, es, skip, 0, out)
      BY DEF Grown
    <3>2. 0 \in 0 .. n
      BY <1>1
    <3> QED BY <1>8, <3>1, <3>2
  <2>2. ASSUME NEW i \in 1 .. n, i - 1 \in S PROVE i \in S
    <3>1. Grown(out, es, skip, i - 1, u[i - 1]) /\ i \in 0 .. n
      BY <1>1, <2>2
    <3>2. Grown(out, es, skip, i, Next1(u[i - 1], i))
      BY <3>1, OneMore
    <3>3. u[i] = Next1(u[i - 1], i)
      BY <1>8
    <3> QED BY <3>1, <3>2, <3>3
  <2> HIDE DEF S, n
  <2> QED BY <1>1, <2>1, <2>2, InductionTo
<1>10. Grown(out, es, skip, n, u[n])
  <2>1. n \in 0 .. n
    BY <1>1
  <2>2. n \in S
    <3> HIDE DEF S, n
    <3> QED BY <1>9, <2>1
  <2> QED BY <2>2
<1> QED BY <1>7, <1>10

\* The entries of a file.
LEMMA EntriesAre ==
  ASSUME Typed, NEW f \in File, archive[f] # None
  PROVE  /\ archive[f].txns \in Seq(Gtid) /\ EntriesOf(f) \in Seq(Entry)
         /\ Len(EntriesOf(f)) = Len(archive[f].txns)
         /\ \A i \in 1 .. Len(archive[f].txns) :
              EntriesOf(f)[i] = [gtid |-> archive[f].txns[i], file |-> f]
<1>1. archive[f].txns \in Seq(Gtid)
  BY DEF Typed, Binlog
<1>2. \A i \in DOMAIN archive[f].txns : [gtid |-> archive[f].txns[i], file |-> f] \in Entry
  BY <1>1 DEF Entry
<1> QED BY <1>1, <1>2 DEF EntriesOf

\* A transaction is at one place of a file for the first time.
LEMMA OneFirst ==
  ASSUME NEW a, NEW f, NEW g, NEW i \in Nat \ {0}, NEW l \in Nat \ {0},
         IsFirst(a, f, i, g), IsFirst(a, f, l, g)
  PROVE  i = l
<1>1. ~(i < l) /\ ~(l < i)
  BY DEF IsFirst
<1> QED BY <1>1

\* A file is scanned after all the files before it.
LEMMA ScannedIsRight ==
  ASSUME Typed, NEW f \in File, archive[f] # None, NEW files, NEW more,
         files \subseteq more, \A x \in more : x \in LogFiles /\ (x \in files \/ x.name = f),
         f \in NamesIn(more),
         NEW out, Right(archive, files, out), \A j \in DOMAIN out : out[j].file < f
  PROVE  /\ Right(archive, more, Scanned(out, f))
         /\ \A j \in DOMAIN Scanned(out, f) : Scanned(out, f)[j].file <= f
<1> DEFINE txns == archive[f].txns
           es == EntriesOf(f)
           r  == Scanned(out, f)
<1>1. /\ txns \in Seq(Gtid) /\ es \in Seq(Entry) /\ Len(es) = Len(txns) /\ Len(txns) \in Nat
      /\ DOMAIN txns = 1 .. Len(txns)
      /\ \A i \in 1 .. Len(txns) : es[i].gtid = txns[i] /\ es[i].file = f
  <2>1. /\ txns \in Seq(Gtid) /\ es \in Seq(Entry) /\ Len(es) = Len(txns)
        /\ \A i \in 1 .. Len(txns) : es[i] = [gtid |-> txns[i], file |-> f]
    BY EntriesAre
  <2> HIDE DEF es, txns
  <2>2. Len(txns) \in Nat /\ DOMAIN txns = 1 .. Len(txns)
    BY <2>1
  <2>3. \A i \in 1 .. Len(txns) : es[i].gtid = txns[i] /\ es[i].file = f
    <3> SUFFICES ASSUME NEW i \in 1 .. Len(txns) PROVE es[i].gtid = txns[i] /\ es[i].file = f
      OBVIOUS
    <3>1. es[i] = [gtid |-> txns[i], file |-> f]
      BY <2>1
    <3> QED BY <3>1
  <2> QED BY <2>1, <2>2, <2>3
<1>2. out \in Seq(Entry) /\ Len(out) \in Nat /\ DOMAIN out = 1 .. Len(out)
  BY DEF Right
<1>3. Grown(out, es, {}, Len(txns), r)
  <2>1. Grown(out, es, {}, Len(es), AddAll(out, es, {}))
    <3> HIDE DEF es
    <3> QED BY <1>1, <1>2, AddAllIs
  <2> QED BY <1>1, <2>1 DEF Scanned
<1>4. \A i \in 1 .. Len(txns) : Leads(es, {}, i) <=> IsFirst(archive, f, i, txns[i])
  BY <1>1 DEF Leads, IsFirst
<1> HIDE DEF es, r
<1>5. /\ r \in Seq(Entry) /\ Len(r) \in Nat /\ DOMAIN r = 1 .. Len(r) /\ Len(out) <= Len(r)
      /\ \A j \in 1 .. Len(out) : r[j] = out[j]
  BY <1>3 DEF Grown
<1>6. \A j \in DOMAIN r : j <= Len(out) => j \in DOMAIN out /\ r[j] = out[j] /\ r[j].file < f
  BY <1>2, <1>5
<1>7. \A j \in DOMAIN r : j > Len(out) => \E i \in 1 .. Len(txns) : Leads(es, {}, i) /\ r[j] = es[i]
  BY <1>3 DEF Grown
<1>8. \A j \in DOMAIN r : j > Len(out) => r[j].file = f /\ r[j].gtid \in Range(txns)
  BY <1>1, <1>7 DEF Range
<1>9. \A j \in DOMAIN r : r[j].file \in Nat /\ (j <= Len(out) \/ j > Len(out))
  <2> SUFFICES ASSUME NEW j \in DOMAIN r PROVE r[j].file \in Nat /\ (j <= Len(out) \/ j > Len(out))
    OBVIOUS
  <2>1. r[j] \in Entry
    BY <1>5
  <2>2. r[j].file \in 1 .. MaxFiles
    BY <2>1 DEF Entry, File
  <2> QED BY <1>2, <1>5, <2>2, IndexAssumption
<1>10. f \in Nat /\ \A j \in DOMAIN r : r[j].file <= f
  BY <1>6, <1>8, <1>9 DEF File
<1>11. Complete(archive, more, r)
  <2> SUFFICES ASSUME NEW x \in more, Fresh(archive, x), NEW g \in Range(archive[x.name].txns)
               PROVE  \E j \in DOMAIN r : r[j].gtid = g /\ r[j].file <= x.name
    BY DEF Complete
  <2>1. CASE x \in files
    <3>1. PICK j \in DOMAIN out : out[j].gtid = g /\ out[j].file <= x.name
      BY <2>1 DEF Right, Complete
    <3>2. j \in DOMAIN r /\ r[j] = out[j]
      BY <1>2, <1>5
    <3> QED BY <3>1, <3>2
  <2>2. CASE x.name = f
    <3>1. PICK i \in 1 .. Len(txns) : txns[i] = g
      BY <1>1, <2>2 DEF Range
    <3>2. PICK j \in DOMAIN r : r[j].gtid = es[i].gtid
      BY <1>1, <1>3 DEF Grown
    <3> QED BY <1>1, <1>10, <2>2, <3>1, <3>2
  <2> QED BY <2>1, <2>2
<1>12. Sound(archive, more, r)
  <2> SUFFICES ASSUME NEW j \in DOMAIN r
               PROVE  /\ r[j].file \in NamesIn(more)
                      /\ \A x \in more : x.name = r[j].file /\ Fresh(archive, x) =>
                           r[j].gtid \in Range(archive[x.name].txns)
    BY DEF Sound
  <2>1. CASE j <= Len(out)
    <3>1. /\ j \in DOMAIN out /\ r[j] = out[j] /\ r[j].file # f
      BY <1>6, <1>10, <2>1
    <3>2. r[j].file \in NamesIn(more)
      BY <3>1 DEF Right, Sound, NamesIn
    <3> QED BY <3>1, <3>2 DEF Right, Sound
  <2>2. CASE j > Len(out)
    BY <1>8, <2>2
  <2> QED BY <1>9, <2>1, <2>2
<1>13. Once(r)
  <2> SUFFICES ASSUME NEW j \in DOMAIN r, NEW k \in DOMAIN r, j < k
               PROVE  r[j].gtid # r[k].gtid /\ r[j].file <= r[k].file
    BY DEF Once
  <2>1. CASE k <= Len(out)
    <3>1. j <= Len(out)
      BY <1>2, <1>5, <2>1
    <3> QED BY <1>6, <2>1, <3>1 DEF Right, Once
  <2>2. CASE k > Len(out)
    BY <1>3, <1>8, <1>10, <2>2 DEF Grown
  <2> QED BY <1>9, <2>1, <2>2
<1>14. InOrder(archive, more, r)
  <2> SUFFICES ASSUME NEW j \in DOMAIN r, NEW k \in DOMAIN r, j < k, r[j].file = r[k].file,
                      NEW x \in more, x.name = r[j].file, Fresh(archive, x),
                      NEW i \in DOMAIN archive[x.name].txns, NEW l \in DOMAIN archive[x.name].txns,
                      IsFirst(archive, x.name, i, r[j].gtid), IsFirst(archive, x.name, l, r[k].gtid)
               PROVE  i < l
    BY DEF InOrder
  <2>1. CASE k <= Len(out)
    <3>1. j <= Len(out)
      BY <1>2, <1>5, <2>1
    <3>2. x \in files
      BY <1>6, <1>10, <3>1
    <3>3. j \in DOMAIN out /\ r[j] = out[j] /\ k \in DOMAIN out /\ r[k] = out[k]
      BY <1>6, <2>1, <3>1
    <3> QED BY <3>2, <3>3 DEF Right, InOrder
  <2>2. CASE k > Len(out)
    <3>1. r[k].file = f
      BY <1>8, <2>2
    <3>2. j > Len(out)
      BY <1>6, <1>9, <1>10, <3>1
    <3>3. x.name = f /\ i \in 1 .. Len(txns) /\ l \in 1 .. Len(txns)
      BY <1>1, <3>1
    <3>4. txns[i] = r[j].gtid /\ txns[l] = r[k].gtid
      BY <3>3 DEF IsFirst
    <3>5. Leads(es, {}, i) /\ Leads(es, {}, l)
      BY <1>4, <3>3, <3>4
    <3>6. PICK i1 \in 1 .. Len(txns) : Leads(es, {}, i1) /\ r[j] = es[i1]
      BY <1>7, <3>2
    <3>7. PICK l1 \in 1 .. Len(txns) : Leads(es, {}, l1) /\ r[k] = es[l1]
      BY <1>7, <2>2
    <3>8. i1 < l1
      BY <1>3, <3>2, <3>6, <3>7 DEF Grown
    <3>9. IsFirst(archive, f, i1, txns[i1]) /\ IsFirst(archive, f, l1, txns[l1])
      BY <1>4, <3>6, <3>7
    <3>10. txns[i1] = txns[i] /\ txns[l1] = txns[l]
      BY <1>1, <3>4, <3>6, <3>7
    <3>11. i1 = i /\ l1 = l
      <4>1. /\ IsFirst(archive, f, i, r[j].gtid) /\ IsFirst(archive, f, i1, r[j].gtid)
            /\ IsFirst(archive, f, l, r[k].gtid) /\ IsFirst(archive, f, l1, r[k].gtid)
        BY <3>3, <3>4, <3>9, <3>10
      <4>2. i \in Nat \ {0} /\ i1 \in Nat \ {0} /\ l \in Nat \ {0} /\ l1 \in Nat \ {0}
        BY <1>1, <3>3, <3>6, <3>7
      <4> QED BY <4>1, <4>2, OneFirst
    <3> QED BY <3>8, <3>11
  <2> QED BY <1>9, <2>1, <2>2
<1>15. Right(archive, more, r)
  BY <1>5, <1>11, <1>12, <1>13, <1>14 DEF Right
<1> QED BY <1>10, <1>15 DEF r

\* The last file of an index.
LEMMA LastIsLast ==
  ASSUME NEW files \in SUBSET LogFiles, files # {}
  PROVE  LastOf(files) \in files /\ \A y \in files : y.name <= LastOf(files).name
<1>1. MaxFiles \in Nat /\ \A x \in files : x.name \in 1 .. MaxFiles
  BY IndexAssumption DEF LogFiles, File
<1> DEFINE T == {MaxFiles - x.name : x \in files}
<1>2. T \in SUBSET Nat /\ T # {}
  BY <1>1
<1>3. PICK m \in T : \A n \in T : m <= n
  <2> HIDE DEF T
  <2> QED BY <1>2, LeastElement
<1>4. PICK x \in files : m = MaxFiles - x.name
  BY <1>3
<1>5. \A y \in files : y.name <= x.name
  <2> SUFFICES ASSUME NEW y \in files PROVE y.name <= x.name
    OBVIOUS
  <2>1. MaxFiles - x.name <= MaxFiles - y.name
    BY <1>3, <1>4
  <2> QED BY <1>1, <2>1
<1> QED BY <1>4, <1>5 DEF LastOf

\* The entries that an update copies: those of the files the archive lists as the header does,
\* also if the index has been replaced by a newer one since its header was read.
CopiesFrom(old, new, now, files, es, todos, r, kept) ==
  /\ old \in SUBSET LogFiles /\ new \in SUBSET LogFiles /\ AppendOnly(old, new)
  /\ Newer(old, files) /\ Listed(archive, now, files) /\ Listed(archive, now, old)
  /\ Right(archive, files, es) /\ \A i \in DOMAIN es : es[i].file \in NamesIn(old)
  /\ todos = Rescan(old, new) /\ r = AddAll(<<>>, es, todos)
  /\ kept = {x \in new : x.name \notin todos}

LEMMA CopiedIsRight ==
  ASSUME NEW old, NEW new, NEW now, NEW files, NEW es, NEW todos, NEW r, NEW kept,
         CopiesFrom(old, new, now, files, es, todos, r, kept)
  PROVE  /\ Right(archive, kept, r)
         /\ \A j \in DOMAIN r : \A f \in todos : r[j].file < f
         /\ todos \subseteq NamesIn(new)
<1> DEFINE last == LastOf(old).name
<1> USE DEF CopiesFrom
<1>1. \A x \in kept : x \in old
  BY DEF Rescan, Added, Changed, NamesIn
<1>2. ASSUME NEW x \in old, Fresh(archive, x)
      PROVE  \E y \in files : y.name = x.name /\ Fresh(archive, y)
  <2>1. PICK y \in files : y.name = x.name /\ y.mtime >= x.mtime
    BY DEF Newer
  <2>2. y.mtime <= archive[y.name].mtime /\ archive[y.name].mtime = x.mtime
    BY <1>2, <2>1 DEF Fresh, Listed
  <2>3. y.mtime \in Nat /\ x.mtime \in Nat
    BY DEF Listed, LogFiles
  <2>4. y.mtime = x.mtime
    BY <2>1, <2>2, <2>3
  <2> QED BY <1>2, <2>1, <2>4 DEF Fresh
<1>3. old # {} => /\ \A n \in NamesIn(old) : n <= last
                  /\ last \in NamesIn(old)
  BY LastIsLast DEF NamesIn
<1>4. \A n \in NamesIn(old) \cup NamesIn(new) : n \in Nat
  BY IndexAssumption DEF NamesIn, LogFiles, File
<1>5. todos \subseteq NamesIn(new)
  BY DEF Rescan, Added, Changed, NamesIn
<1>6. ASSUME NEW n \in NamesIn(old) \ todos, NEW f \in todos PROVE n < f
  <2>1. old # {} /\ n <= last /\ last \in Nat /\ n \in Nat /\ f \in Nat
    BY <1>3, <1>4, <1>5 DEF NamesIn
  <2>2. CASE f \in NamesIn(Added(old, new))
    <3>1. f > last
      BY <2>2 DEF AppendOnly, NamesIn
    <3> QED BY <2>1, <3>1
  <2>3. CASE f \in NamesIn(Changed(old, new))
    <3>1. f = last
      BY <2>3 DEF AppendOnly, NamesIn
    <3>2. n # f
      BY <1>6
    <3> QED BY <2>1, <3>1, <3>2
  <2> QED BY <2>2, <2>3 DEF Rescan
<1>7. NamesIn(old) \ todos \subseteq NamesIn(kept)
  <2> SUFFICES ASSUME NEW n \in NamesIn(old) \ todos PROVE n \in NamesIn(kept)
    OBVIOUS
  <2>1. n \in NamesIn(new)
    BY DEF AppendOnly, Removed, NamesIn
  <2> QED BY <2>1 DEF NamesIn
<1> HIDE DEF last
<1>8. es \in Seq(Entry) /\ Len(es) \in Nat /\ DOMAIN es = 1 .. Len(es)
  BY DEF Right
<1>9. Grown(<<>>, es, todos, Len(es), r)
  <2>1. <<>> \in Seq(Entry)
    OBVIOUS
  <2> QED BY <1>8, <2>1, AddAllIs
<1>10. r \in Seq(Entry) /\ Len(r) \in Nat /\ DOMAIN r = 1 .. Len(r)
  BY <1>9 DEF Grown
<1>11. \A j \in DOMAIN r : \E i \in 1 .. Len(es) : Leads(es, todos, i) /\ r[j] = es[i]
  BY <1>9, <1>10 DEF Grown
<1>12. ASSUME NEW j \in DOMAIN r PROVE r[j].file \in NamesIn(old) \ todos
  BY <1>8, <1>11 DEF Leads
<1>13. \A i, k \in 1 .. Len(es) : es[i].gtid = es[k].gtid => i = k
  BY <1>8 DEF Right, Once
<1>14. \A i \in 1 .. Len(es) : es[i].file \notin todos => \E j \in DOMAIN r : r[j] = es[i]
  <2> SUFFICES ASSUME NEW i \in 1 .. Len(es), es[i].file \notin todos
               PROVE  \E j \in DOMAIN r : r[j] = es[i]
    OBVIOUS
  <2>1. PICK j \in DOMAIN r : r[j].gtid = es[i].gtid
    BY <1>9 DEF Grown
  <2>2. PICK k \in 1 .. Len(es) : r[j] = es[k]
    BY <1>11
  <2> QED BY <1>13, <2>1, <2>2
<1>15. ASSUME NEW j \in DOMAIN r, NEW k \in DOMAIN r, j < k
       PROVE  \E i, l \in DOMAIN es : i < l /\ r[j] = es[i] /\ r[k] = es[l]
  <2>1. PICK i \in 1 .. Len(es) : Leads(es, todos, i) /\ r[j] = es[i]
    BY <1>11
  <2>2. PICK l \in 1 .. Len(es) : Leads(es, todos, l) /\ r[k] = es[l]
    BY <1>11
  <2>3. i < l
    BY <1>9, <1>10, <1>15, <2>1, <2>2 DEF Grown
  <2> QED BY <1>8, <2>1, <2>2, <2>3
<1>16. Complete(archive, kept, r)
  <2> SUFFICES ASSUME NEW x \in kept, Fresh(archive, x), NEW g \in Range(archive[x.name].txns)
               PROVE  \E j \in DOMAIN r : r[j].gtid = g /\ r[j].file <= x.name
    BY DEF Complete
  <2>1. PICK y \in files : y.name = x.name /\ Fresh(archive, y)
    BY <1>1, <1>2
  <2>2. PICK i \in DOMAIN es : es[i].gtid = g /\ es[i].file <= x.name
    BY <2>1 DEF Right, Complete
  <2>3. x.name \in NamesIn(old) \ todos /\ es[i].file \in NamesIn(old)
    BY <1>1 DEF NamesIn
  <2>4. es[i].file \notin todos
    <3>1. es[i].file \in todos => x.name < es[i].file
      BY <1>6, <2>3
    <3> QED BY <1>4, <2>2, <2>3, <3>1
  <2> QED BY <1>8, <1>14, <2>2, <2>4
<1>17. Sound(archive, kept, r)
  <2> SUFFICES ASSUME NEW j \in DOMAIN r
               PROVE  /\ r[j].file \in NamesIn(kept)
                      /\ \A x \in kept : x.name = r[j].file /\ Fresh(archive, x) =>
                           r[j].gtid \in Range(archive[x.name].txns)
    BY DEF Sound
  <2>1. PICK i \in DOMAIN es : r[j] = es[i]
    BY <1>8, <1>11
  <2>2. ASSUME NEW x \in kept, x.name = r[j].file, Fresh(archive, x)
        PROVE  r[j].gtid \in Range(archive[x.name].txns)
    <3>1. PICK y \in files : y.name = x.name /\ Fresh(archive, y)
      BY <1>1, <1>2, <2>2
    <3> QED BY <2>1, <2>2, <3>1 DEF Right, Sound
  <2> QED BY <1>7, <1>12, <2>2
<1>18. Once(r)
  BY <1>15 DEF Right, Once
<1>19. InOrder(archive, kept, r)
  <2> HIDE DEF CopiesFrom
  <2> SUFFICES ASSUME NEW j \in DOMAIN r, NEW k \in DOMAIN r, j < k, r[j].file = r[k].file,
                      NEW x \in kept, x.name = r[j].file, Fresh(archive, x),
                      NEW i \in DOMAIN archive[x.name].txns, NEW l \in DOMAIN archive[x.name].txns,
                      IsFirst(archive, x.name, i, r[j].gtid), IsFirst(archive, x.name, l, r[k].gtid)
               PROVE  i < l
    BY DEF InOrder
  <2>1. PICK y \in files : y.name = x.name /\ Fresh(archive, y)
    BY <1>1, <1>2
  <2>2. PICK i1 \in DOMAIN es, l1 \in DOMAIN es : i1 < l1 /\ r[j] = es[i1] /\ r[k] = es[l1]
    BY <1>15
  <2>3. InOrder(archive, files, es)
    BY DEF CopiesFrom, Right
  <2> QED BY <2>1, <2>2, <2>3 DEF InOrder
<1>20. Right(archive, kept, r)
  BY <1>10, <1>16, <1>17, <1>18, <1>19 DEF Right
<1> QED BY <1>5, <1>6, <1>12, <1>20

-----------------------------------------------------------------------------
(* The archive changes.                                                     *)

\* The archive a becomes a2: the file f is changed or purged.
Advances(a, now, f, v, a2) ==
  /\ a \in [File -> Binlog \cup {None}] /\ now \in Nat /\ f \in File /\ v \in Binlog \cup {None}
  /\ \A g \in File : a[g] # None => a[g].mtime <= now
  /\ v # None => v.mtime = now + 1
  /\ a2 = [a EXCEPT ![f] = v]
\* The files that are as they were listed are as they were before.
Stays(a, a2, files) == \A x \in files : Fresh(a2, x) => Fresh(a, x) /\ a2[x.name] = a[x.name]

\* A file that is changed or purged is not the one that was listed, and never will be again.
LEMMA StaleForEver ==
  ASSUME NEW a, NEW now, NEW f, NEW v, NEW a2, Advances(a, now, f, v, a2),
         NEW files, Listed(a, now, files)
  PROVE  Listed(a2, now + 1, files) /\ Stays(a, a2, files)
<1> SUFFICES ASSUME NEW x \in files
             PROVE  /\ x \in LogFiles /\ x.mtime <= now + 1
                    /\ a2[x.name] # None => x.mtime <= a2[x.name].mtime
                    /\ Fresh(a2, x) => x.size = Len(a2[x.name].txns)
                    /\ Fresh(a2, x) => Fresh(a, x) /\ a2[x.name] = a[x.name]
  BY DEF Listed, Stays
<1> USE DEF Advances
<1>1. x \in LogFiles /\ x.mtime <= now /\ x.mtime \in Nat /\ x.name \in File
  BY DEF Listed, LogFiles
<1>2. CASE x.name = f
  <2>1. a2[x.name] = v
    BY <1>2
  <2>2. ~Fresh(a2, x)
    BY <1>1, <2>1 DEF Fresh
  <2> QED BY <1>1, <2>1, <2>2
<1>3. CASE x.name # f
  <2>1. a2[x.name] = a[x.name]
    BY <1>1, <1>3
  <2> QED BY <1>1, <2>1 DEF Listed, Fresh
<1> QED BY <1>2, <1>3

LEMMA RightStays ==
  ASSUME NEW a, NEW a2, NEW files, NEW es, Right(a, files, es), Stays(a, a2, files)
  PROVE  Right(a2, files, es)
<1> USE DEF Stays
<1>1. Complete(a2, files, es)
  BY DEF Right, Complete
<1>2. Sound(a2, files, es)
  BY DEF Right, Sound
<1>3. InOrder(a2, files, es)
  BY DEF Right, InOrder, IsFirst
<1> QED BY <1>1, <1>2, <1>3 DEF Right

\* What ListLogFiles returns.
LEMMA SnapshotIs ==
  ASSUME Typed
  PROVE  /\ Snapshot \in SUBSET LogFiles /\ Listed(archive, ops, Snapshot)
         /\ NamesIn(Snapshot) = Names /\ Names \subseteq File
         /\ \A x \in Snapshot : Fresh(archive, x)
<1>1. \A f \in Names : /\ LogFile(f) \in LogFiles /\ LogFile(f).name = f
                       /\ LogFile(f).size = Len(archive[f].txns)
                       /\ LogFile(f).mtime = archive[f].mtime /\ archive[f].mtime <= ops
                       /\ archive[f].mtime \in Nat /\ archive[f] # None
  BY DEF Names, Typed, Binlog, LogFile, LogFiles
<1>2. Snapshot = {LogFile(f) : f \in Names}
  BY DEF Snapshot, Names
<1>3. \A x \in Snapshot : x.name \in Names /\ x = LogFile(x.name)
  BY <1>1, <1>2
<1>4. NamesIn(Snapshot) = Names
  BY <1>1, <1>2 DEF NamesIn
<1>5. \A x \in Snapshot : Fresh(archive, x)
  BY <1>1, <1>3 DEF Fresh
<1>6. Listed(archive, ops, Snapshot)
  <2> SUFFICES ASSUME NEW x \in Snapshot
               PROVE  /\ x \in LogFiles /\ x.mtime <= ops
                      /\ archive[x.name] # None => x.mtime <= archive[x.name].mtime
                      /\ Fresh(archive, x) => x.size = Len(archive[x.name].txns)
    BY DEF Listed
  <2> QED BY <1>1, <1>3
<1> QED BY <1>1, <1>3, <1>4, <1>5, <1>6 DEF Names

\* The archive changes: what was told of a changed file does not matter any more.
LEMMA ArchiveStep ==
  ASSUME Faithful, NEW f \in File, NEW v \in Binlog \cup {None}, v # None => v.mtime = ops + 1,
         archive' = [archive EXCEPT ![f] = v], ops' = ops + 1, UNCHANGED <<disk, cmdVars>>
  PROVE  Faithful'
<1> PICK a : a = archive
  OBVIOUS
<1> PICK now : now = ops
  OBVIOUS
<1> PICK a2 : a2 = archive'
  OBVIOUS
<1>1. /\ a \in [File -> Binlog \cup {None}] /\ now \in Nat /\ a2 = [a EXCEPT ![f] = v]
      /\ \A g \in File : a[g] # None => a[g].mtime <= now
      /\ v # None => v.mtime = now + 1
  BY DEF Faithful, Typed
<1>2. ASSUME NEW files, Listed(a, now, files)
      PROVE  Listed(a2, now + 1, files) /\ Stays(a, a2, files)
  <2>1. Advances(a, now, f, v, a2)
    BY <1>1 DEF Advances
  <2> QED BY <1>2, <2>1, StaleForEver
<1>3. ASSUME NEW files, Listed(a, now, files), NEW es, Right(a, files, es) PROVE Right(a2, files, es)
  BY <1>2, <1>3, RightStays
<1>4. Unobstructed'
  BY DEF Faithful, Unobstructed, cmdVars
<1>5. Typed'
  <2>1. a2 \in [File -> Binlog \cup {None}] /\ now + 1 \in Nat
    BY <1>1
  <2>2. ASSUME NEW g \in File, a2[g] # None PROVE a2[g].mtime <= now + 1
    <3>1. CASE g = f
      BY <1>1, <2>2, <3>1
    <3>2. CASE g # f
      <4>1. a2[g] = a[g] /\ a[g].mtime <= now /\ a[g].mtime \in Nat
        BY <1>1, <2>2, <3>2 DEF Binlog
      <4> QED BY <1>1, <4>1
    <3> QED BY <3>1, <3>2
  <2> QED BY <2>1, <2>2 DEF Faithful, Typed, cmdVars
<1>6. Stands'
  BY <1>2, <1>3 DEF Faithful, Stands
<1>7. ASSUME NEW c \in Command PROVE Working(c)'
  <2>1. Working(c)
    BY DEF Faithful
  <2>2. Listed(a, now, header[c]) /\ Listed(a, now, listed[c])
    BY <2>1 DEF Working
  <2>3. Listed(a, now, Done(c))
    BY <2>2 DEF Done, Listed
  <2>4. Right(a, Done(c), entries[c]) => Right(a2, Done(c), entries[c])
    BY <1>3, <2>3
  <2>5. Done(c)' = Done(c)
    BY DEF Done, cmdVars
  <2> QED BY <1>2, <2>1, <2>2, <2>4, <2>5 DEF Working, cmdVars
<1> QED BY <1>4, <1>5, <1>6, <1>7 DEF Faithful

-----------------------------------------------------------------------------
(* The steps of a command.                                                  *)

\* A command that changes neither the archive nor an index disturbs nobody.
LEMMA AloneStep ==
  ASSUME Faithful, NEW c \in Command, UNCHANGED <<archive, disk, ops>>, Unobstructed', Typed',
         Working(c)',
         \A d \in Command \ {c} : /\ pc'[d] = pc[d] /\ header'[d] = header[d]
                                  /\ listed'[d] = listed[d] /\ todo'[d] = todo[d]
                                  /\ entries'[d] = entries[d]
  PROVE  Faithful'
<1>1. ASSUME NEW d \in Command \ {c} PROVE Working(d)'
  <2>1. Working(d)
    BY DEF Faithful
  <2>2. Done(d)' = Done(d)
    BY DEF Done
  <2> QED BY <2>1, <2>2 DEF Working
<1>2. Stands'
  BY DEF Faithful, Stands
<1> QED BY <1>1, <1>2 DEF Faithful

\* Only the label changes.
LEMMA GotoStep ==
  ASSUME Faithful, NEW c \in Command, NEW l, Goto(c, l), Unobstructed',
         UNCHANGED <<archive, disk, ops, header, listed, todo, entries>>, Working(c)'
  PROVE  Faithful'
<1>1. pc' = [pc EXCEPT ![c] = l] /\ pc \in [Command -> Labels]
  BY DEF Goto, Faithful, Unobstructed
<1>2. \A d \in Command \ {c} : pc'[d] = pc[d]
  BY <1>1
<1>3. Typed'
  BY DEF Faithful, Typed
<1> QED BY <1>2, <1>3, AloneStep

LEMMA LabelIs ==
  ASSUME Faithful, NEW c \in Command, NEW l, Goto(c, l)
  PROVE  pc'[c] = l /\ \A d \in Command \ {c} : pc'[d] = pc[d]
<1>1. pc' = [pc EXCEPT ![c] = l] /\ pc \in [Command -> Labels]
  BY DEF Goto, Faithful, Unobstructed
<1> QED BY <1>1

LEMMA StartStep ==
  ASSUME Faithful, NEW c \in Command, Start(c)
  PROVE  Faithful'
<1>1. PICK l \in {"failed", "header", "list"} :
           Goto(c, l) /\ (l = "header" => c \in Update)
  BY DEF Start, Fail
<1>2. UNCHANGED <<archive, disk, ops, header, listed, todo, entries>> /\ pc[c] = "idle"
  BY DEF Start
<1>3. Unobstructed'
  BY CommandStep DEF Faithful
<1>4. Working(c)'
  BY <1>1, <1>2, LabelIs DEF Faithful, Working
<1> QED BY <1>1, <1>2, <1>3, <1>4, GotoStep

LEMMA ListStep ==
  ASSUME Faithful, NEW c \in Command, List(c)
  PROVE  Faithful'
<1>1. /\ listed' = [listed EXCEPT ![c] = Snapshot] /\ todo' = [todo EXCEPT ![c] = Names]
      /\ UNCHANGED <<archive, disk, ops, header, entries>> /\ pc[c] = "list"
  BY DEF List
<1>2. Typed /\ Working(c)
  BY DEF Faithful
<1>3. /\ Snapshot \in SUBSET LogFiles /\ Listed(archive, ops, Snapshot)
      /\ NamesIn(Snapshot) = Names /\ Names \in SUBSET File
  BY <1>2, SnapshotIs
<1>4. listed \in [Command -> SUBSET LogFiles] /\ todo \in [Command -> SUBSET File]
  BY <1>2 DEF Typed
<1>5. /\ listed' \in [Command -> SUBSET LogFiles] /\ todo' \in [Command -> SUBSET File]
      /\ listed'[c] = Snapshot /\ todo'[c] = Names
      /\ \A d \in Command \ {c} : listed'[d] = listed[d] /\ todo'[d] = todo[d]
  BY <1>1, <1>3, <1>4
<1>6. Typed'
  BY <1>1, <1>2, <1>5 DEF Typed
<1>7. PICK l \in {"failed", "scan"} : Goto(c, l)
  BY DEF List, Fail
<1>8. pc'[c] = l /\ \A d \in Command \ {c} : pc'[d] = pc[d]
  BY <1>7, LabelIs
<1>9. entries'[c] = <<>> /\ header'[c] = header[c]
  BY <1>1, <1>2 DEF Working
<1>10. Done(c)' = {}
  BY <1>3, <1>5 DEF Done, NamesIn
<1>11. Right(archive, {}, <<>>)
  BY DEF Right, Complete, Sound, Once, InOrder
<1>12. Listed(archive, ops, header[c])
  BY <1>2 DEF Working
<1>13. Right(archive, Done(c), entries[c])'
  BY <1>1, <1>9, <1>10, <1>11
<1>14. \A j \in DOMAIN entries'[c] : \A f \in todo'[c] : entries'[c][j].file < f
  BY <1>9
<1>15. Working(c)'
  BY <1>1, <1>3, <1>5, <1>7, <1>8, <1>9, <1>12, <1>13, <1>14 DEF Working
<1>16. Unobstructed'
  BY CommandStep DEF Faithful
<1> QED BY <1>1, <1>5, <1>6, <1>8, <1>15, <1>16, AloneStep

LEMMA ReadHeaderStep ==
  ASSUME Faithful, NEW c \in Command, ReadHeader(c)
  PROVE  Faithful'
<1>1. pc[c] = "header" /\ UNCHANGED <<archive, disk, ops, listed, todo, entries>>
  BY DEF ReadHeader
<1>2. Typed /\ Working(c) /\ Unobstructed'
  BY CommandStep DEF Faithful
<1>3. CASE disk[Existing[c]] = None
  <2>1. Goto(c, "failed") /\ header' = header
    BY <1>3 DEF ReadHeader, Fail
  <2>2. Working(c)'
    BY <1>1, <1>2, <2>1, LabelIs DEF Working
  <2> QED BY <1>1, <1>2, <2>1, <2>2, GotoStep
<1>4. CASE disk[Existing[c]] # None
  <2> DEFINE files == disk[Existing[c]].files
  <2>1. Goto(c, "compare") /\ header' = [header EXCEPT ![c] = files]
    BY <1>4 DEF ReadHeader
  <2>2. c \in Update /\ Existing[c] \in Path
    BY <1>1, <1>2, IndexAssumption DEF Working
  <2>3. files \in SUBSET LogFiles /\ Listed(archive, ops, files)
    BY <1>2, <1>4, <2>2 DEF Faithful, Typed, Stands, Index
  <2>4. Newer(files, files)
    BY <2>3 DEF Newer, LogFiles
  <2> HIDE DEF files
  <2>5. /\ header' \in [Command -> SUBSET LogFiles] /\ header'[c] = files
        /\ \A d \in Command \ {c} : header'[d] = header[d]
    BY <1>2, <2>1, <2>3 DEF Typed
  <2>6. Typed'
    BY <1>1, <1>2, <2>5 DEF Typed
  <2>7. pc'[c] = "compare" /\ \A d \in Command \ {c} : pc'[d] = pc[d]
    BY <2>1, LabelIs
  <2>8. Working(c)'
    <3>1. Listed(archive, ops, listed[c])
      BY <1>2 DEF Working
    <3>2. disk'[Existing[c]] # None /\ Newer(header'[c], disk'[Existing[c]].files)
      BY <1>1, <1>4, <2>4, <2>5 DEF files
    <3> QED BY <1>1, <2>2, <2>3, <2>5, <2>7, <3>1, <3>2 DEF Working
  <2> QED BY <1>1, <1>2, <2>5, <2>6, <2>7, <2>8, AloneStep
<1> QED BY <1>3, <1>4

LEMMA CompareStep ==
  ASSUME Faithful, NEW c \in Command, Compare(c)
  PROVE  Faithful'
<1> DEFINE new == Snapshot
           todos == Rescan(header[c], Snapshot)
<1>1. /\ pc[c] = "compare" /\ UNCHANGED <<archive, disk, ops, header, entries>>
      /\ listed' = [listed EXCEPT ![c] = new] /\ todo' = [todo EXCEPT ![c] = todos]
  BY DEF Compare
<1>2. Typed /\ Working(c) /\ Unobstructed'
  BY CommandStep DEF Faithful
<1>3. new \in SUBSET LogFiles /\ Listed(archive, ops, new)
  BY <1>2, SnapshotIs
<1>4. todos \in SUBSET File
  BY <1>3 DEF Rescan, NamesIn, Added, Changed, LogFiles
<1>5. PICK l \in {"failed", "current", "copy"} :
           Goto(c, l) /\ (l = "copy" => AppendOnly(header[c], new))
  BY DEF Compare, Fail
<1>6. pc'[c] = l /\ \A d \in Command \ {c} : pc'[d] = pc[d]
  BY <1>5, LabelIs
<1> HIDE DEF new, todos
<1>7. /\ listed' \in [Command -> SUBSET LogFiles] /\ todo' \in [Command -> SUBSET File]
      /\ listed'[c] = new /\ todo'[c] = todos
      /\ \A d \in Command \ {c} : listed'[d] = listed[d] /\ todo'[d] = todo[d]
  BY <1>1, <1>2, <1>3, <1>4 DEF Typed
<1>8. Typed'
  BY <1>1, <1>2, <1>7 DEF Typed
<1>9. Working(c)'
  <2>1. /\ Listed(archive, ops, header[c]) /\ c \in Update /\ disk[Existing[c]] # None
        /\ Newer(header[c], disk[Existing[c]].files)
    BY <1>1, <1>2 DEF Working
  <2> QED BY <1>1, <1>3, <1>5, <1>6, <1>7, <2>1 DEF Working, new, todos
<1> QED BY <1>1, <1>2, <1>6, <1>7, <1>8, <1>9, AloneStep

LEMMA CopyStep ==
  ASSUME Faithful, NEW c \in Command, CopyOld(c)
  PROVE  Faithful'
<1> DEFINE old == disk[Existing[c]]
           r   == AddAll(<<>>, old.entries, todo[c])
<1>1. pc[c] = "copy" /\ UNCHANGED <<archive, disk, ops, header, listed, todo>>
  BY DEF CopyOld
<1>2. Typed /\ Working(c) /\ Unobstructed'
  BY CommandStep DEF Faithful
<1>3. ASSUME Goto(c, "failed"), entries' = entries PROVE Faithful'
  <2>1. Working(c)'
    BY <1>1, <1>2, <1>3, LabelIs DEF Working
  <2> QED BY <1>1, <1>2, <1>3, <2>1, GotoStep
<1>4. ASSUME \A i \in DOMAIN old.entries : old.entries[i].file \in NamesIn(header[c]),
             Goto(c, "scan"), entries' = [entries EXCEPT ![c] = r]
      PROVE  Faithful'
  <2>1. /\ old # None /\ Newer(header[c], old.files) /\ AppendOnly(header[c], listed[c])
        /\ todo[c] = Rescan(header[c], listed[c]) /\ c \in Update
        /\ Listed(archive, ops, header[c]) /\ Listed(archive, ops, listed[c])
    BY <1>1, <1>2 DEF Working
  <2>2. Existing[c] \in Path /\ header[c] \in SUBSET LogFiles /\ listed[c] \in SUBSET LogFiles
    BY <1>2, <2>1, IndexAssumption DEF Typed
  <2>3. Listed(archive, ops, old.files) /\ Right(archive, old.files, old.entries)
    BY <2>1, <2>2 DEF Faithful, Stands
  <2>4. /\ Right(archive, Done(c), r) /\ todo[c] \subseteq NamesIn(listed[c])
        /\ \A j \in DOMAIN r : \A f \in todo[c] : r[j].file < f
    <3>1. CopiesFrom(header[c], listed[c], ops, old.files, old.entries, todo[c], r, Done(c))
      BY <1>4, <2>1, <2>2, <2>3 DEF CopiesFrom, Done
    <3> HIDE DEF r, old
    <3> QED BY <3>1, CopiedIsRight
  <2>5. r \in Seq(Entry)
    BY <2>4 DEF Right
  <2> HIDE DEF r, old
  <2>6. /\ entries' \in [Command -> Seq(Entry)] /\ entries'[c] = r
        /\ \A d \in Command \ {c} : entries'[d] = entries[d]
    BY <1>2, <1>4, <2>5 DEF Typed
  <2>7. Typed'
    BY <1>1, <1>2, <2>6 DEF Typed
  <2>8. pc'[c] = "scan" /\ \A d \in Command \ {c} : pc'[d] = pc[d]
    BY <1>4, LabelIs
  <2>9. Done(c)' = Done(c)
    BY <1>1 DEF Done
  <2>10. Working(c)'
    BY <1>1, <2>1, <2>4, <2>6, <2>8, <2>9 DEF Working
  <2> QED BY <1>1, <1>2, <2>6, <2>7, <2>8, <2>10, AloneStep
<1> QED BY <1>3, <1>4 DEF CopyOld, Fail

LEMMA ScanStep ==
  ASSUME Faithful, NEW c \in Command, ScanFile(c)
  PROVE  Faithful'
<1> DEFINE f == Min(todo[c])
           r == Scanned(entries[c], f)
<1>1. pc[c] = "scan" /\ todo[c] # {} /\ UNCHANGED <<archive, disk, ops, header, listed>>
  BY DEF ScanFile
<1>2. Typed /\ Working(c) /\ Unobstructed'
  BY CommandStep DEF Faithful
<1>3. CASE f \notin Names
  <2>1. Goto(c, "failed") /\ UNCHANGED <<todo, entries>>
    BY <1>3 DEF ScanFile, Fail
  <2>2. Working(c)'
    BY <1>1, <1>2, <2>1, LabelIs DEF Working
  <2> QED BY <1>1, <1>2, <2>1, <2>2, GotoStep
<1>4. CASE f \in Names
  <2>1. /\ entries' = [entries EXCEPT ![c] = r] /\ todo' = [todo EXCEPT ![c] = todo[c] \ {f}]
        /\ pc' = pc
    BY <1>4 DEF ScanFile
  <2>2. /\ Right(archive, Done(c), entries[c]) /\ todo[c] \subseteq NamesIn(listed[c])
        /\ \A j \in DOMAIN entries[c] : \A g \in todo[c] : entries[c][j].file < g
        /\ Listed(archive, ops, header[c]) /\ Listed(archive, ops, listed[c])
    BY <1>1, <1>2 DEF Working
  <2>3. todo[c] \in SUBSET File /\ todo[c] \in SUBSET Nat
    BY <1>2 DEF Typed, File
  <2>4. f \in todo[c] /\ \A g \in todo[c] : f <= g
    <3>1. \E n \in todo[c] : \A m \in todo[c] : n <= m
      BY <1>1, <2>3, LeastElement
    <3> QED BY <3>1 DEF Min
  <2> DEFINE more == {x \in listed[c] : x.name \notin todo[c] \ {f}}
  <2> HIDE DEF f
  <2>5. /\ f \in File /\ archive[f] # None
    BY <1>4, <2>3, <2>4 DEF Names
  <2>6. /\ Done(c) \subseteq more /\ f \in NamesIn(more)
        /\ \A x \in more : x \in LogFiles /\ (x \in Done(c) \/ x.name = f)
    BY <2>2, <2>4 DEF Done, NamesIn, Listed
  <2>7. Right(archive, more, r) /\ \A j \in DOMAIN r : r[j].file <= f
    <3> HIDE DEF more
    <3> QED BY <1>2, <2>2, <2>4, <2>5, <2>6, ScannedIsRight
  <2>8. r \in Seq(Entry) /\ todo[c] \ {f} \in SUBSET File
    BY <2>3, <2>7 DEF Right
  <2>9. \A j \in DOMAIN r : \A g \in todo[c] \ {f} : r[j].file < g
    <3> SUFFICES ASSUME NEW j \in DOMAIN r, NEW g \in todo[c] \ {f} PROVE r[j].file < g
      OBVIOUS
    <3>1. r[j].file \in Nat /\ f \in Nat /\ g \in Nat
      <4>1. r[j] \in Entry
        BY <2>8
      <4> QED BY <2>3, <2>4, <4>1 DEF Entry, File
    <3> QED BY <2>4, <2>7, <3>1
  <2> HIDE DEF r
  <2>10. /\ entries' \in [Command -> Seq(Entry)] /\ todo' \in [Command -> SUBSET File]
         /\ entries'[c] = r /\ todo'[c] = todo[c] \ {f}
         /\ \A d \in Command \ {c} : entries'[d] = entries[d] /\ todo'[d] = todo[d]
    BY <1>2, <2>1, <2>8 DEF Typed
  <2>11. Typed'
    BY <1>1, <1>2, <2>10 DEF Typed
  <2>12. Done(c)' = more
    BY <1>1, <2>10 DEF Done
  <2>13. Working(c)'
    <3> HIDE DEF more
    <3> QED BY <1>1, <2>1, <2>2, <2>7, <2>9, <2>10, <2>12 DEF Working
  <2> QED BY <1>1, <1>2, <2>1, <2>10, <2>11, <2>13, AloneStep
<1> QED BY <1>3, <1>4

LEMMA RecheckStep ==
  ASSUME Faithful, NEW c \in Command, Recheck(c)
  PROVE  Faithful'
<1>1. /\ pc[c] = "scan" /\ todo[c] = {}
      /\ UNCHANGED <<archive, disk, ops, header, listed, todo, entries>>
  BY DEF Recheck
<1>2. PICK l \in {"failed", "publish"} : Goto(c, l)
  BY DEF Recheck, Fail
<1>3. Working(c) /\ Unobstructed'
  BY CommandStep DEF Faithful
<1>4. Done(c)' = Done(c) /\ pc'[c] = l
  BY <1>1, <1>2, LabelIs DEF Done
<1>5. Working(c)'
  BY <1>1, <1>2, <1>3, <1>4 DEF Working
<1> QED BY <1>1, <1>2, <1>3, <1>5, GotoStep

\* An index is published where there was none.
LEMMA PublishIsFaithful ==
  ASSUME OutputsDiffer, Faithful, NEW c \in Command, Publish(c)
  PROVE  Faithful'
<1> DEFINE index == [files |-> listed[c], entries |-> entries[c]]
<1>1. /\ pc[c] = "publish" /\ disk' = [disk EXCEPT ![Output[c]] = index] /\ Goto(c, "published")
      /\ UNCHANGED <<archive, ops, header, listed, todo, entries>>
  BY DEF Publish
<1>2. /\ Typed /\ Working(c) /\ Unobstructed'
      /\ \A p \in Path : disk[p] # None => disk'[p] = disk[p]
  BY PublishStep DEF Faithful
<1>3. /\ Listed(archive, ops, listed[c]) /\ Right(archive, Done(c), entries[c]) /\ todo[c] = {}
  BY <1>1, <1>2 DEF Working
<1>4. Done(c) = listed[c]
  BY <1>3 DEF Done
<1>5. index \in Index /\ index.files = listed[c] /\ index.entries = entries[c]
  BY <1>2 DEF Typed, Index
<1> HIDE DEF index
<1>6. /\ disk' \in [Path -> Index \cup {None}]
      /\ \A p \in Path : disk'[p] = index \/ disk'[p] = disk[p]
  BY <1>1, <1>2, <1>5 DEF Typed
<1>7. Typed'
  BY <1>1, <1>2, <1>6 DEF Typed
<1>8. Stands'
  BY <1>1, <1>3, <1>4, <1>5, <1>6 DEF Faithful, Stands
<1>9. pc'[c] = "published" /\ \A d \in Command \ {c} : pc'[d] = pc[d]
  BY <1>1, LabelIs DEF Faithful
<1>10. ASSUME NEW d \in Command PROVE Working(d)'
  <2>1. Working(d) /\ Done(d)' = Done(d)
    BY <1>1 DEF Faithful, Done
  <2>2. CASE d = c
    BY <1>1, <1>9, <2>1, <2>2 DEF Working
  <2>3. CASE d # c
    <3>1. pc'[d] = pc[d]
      BY <1>9, <2>3
    <3>2. pc[d] \in {"compare", "copy"} => disk'[Existing[d]] = disk[Existing[d]]
      BY <1>2, <2>1, IndexAssumption DEF Working
    <3> QED BY <1>1, <2>1, <3>1, <3>2 DEF Working
  <2> QED BY <2>2, <2>3
<1> QED BY <1>2, <1>7, <1>8, <1>10 DEF Faithful

\* The DBA replaces an index by a newer one.
LEMMA SwitchIsFaithful ==
  ASSUME Faithful, NEW p \in Path, NEW q \in Path, Switch(p, q)
  PROVE  Faithful'
<1>1. /\ disk[p] # None /\ disk[q] # None /\ Newer(disk[p].files, disk[q].files)
      /\ disk' = [disk EXCEPT ![p] = disk[q]] /\ ops' = ops + 1
      /\ UNCHANGED <<archive, pc, header, listed, todo, entries>>
  BY DEF Switch, Change, cmdVars
<1>2. Typed /\ Stands /\ Unobstructed'
  BY SwitchStep DEF Faithful
<1>3. /\ disk' \in [Path -> Index \cup {None}] /\ disk'[p] = disk[q]
      /\ \A r \in Path \ {p} : disk'[r] = disk[r]
  BY <1>1, <1>2 DEF Typed
<1>4. ops \in Nat /\ ops + 1 \in Nat
  BY <1>2 DEF Typed
<1>5. ASSUME NEW files, Listed(archive, ops, files) PROVE Listed(archive, ops + 1, files)
  <2>1. \A x \in files : x.mtime \in Nat
    BY <1>5 DEF Listed, LogFiles
  <2> QED BY <1>4, <1>5, <2>1 DEF Listed
<1>6. Typed'
  <2>1. \A f \in File : archive[f] # None => archive[f].mtime \in Nat /\ archive[f].mtime <= ops
    BY <1>2 DEF Typed, Binlog
  <2>2. \A f \in File : archive[f] # None => archive[f].mtime <= ops + 1
    BY <1>4, <2>1
  <2> QED BY <1>1, <1>2, <1>3, <1>4, <2>2 DEF Typed
<1>7. Stands'
  BY <1>1, <1>2, <1>3, <1>5 DEF Stands
<1>8. ASSUME NEW c \in Command PROVE Working(c)'
  <2>1. Working(c) /\ Done(c)' = Done(c)
    BY <1>1 DEF Faithful, Done
  <2>2. ASSUME pc[c] \in {"compare", "copy"}
        PROVE  disk'[Existing[c]] # None /\ Newer(header[c], disk'[Existing[c]].files)
    <3>1. /\ Existing[c] \in Path /\ disk[Existing[c]] # None
          /\ Newer(header[c], disk[Existing[c]].files)
      BY <2>1, <2>2, IndexAssumption DEF Working
    <3>2. CASE Existing[c] # p
      BY <1>3, <3>1, <3>2
    <3>3. CASE Existing[c] = p
      <4>1. /\ header[c] \subseteq LogFiles /\ disk[p].files \subseteq LogFiles
            /\ disk[q].files \subseteq LogFiles
        BY <1>1, <1>2 DEF Typed, Index
      <4>2. Newer(header[c], disk[q].files)
        <5> SUFFICES ASSUME NEW x \in header[c]
                     PROVE  \E y \in disk[q].files : y.name = x.name /\ y.mtime >= x.mtime
          BY DEF Newer
        <5>1. PICK z \in disk[p].files : z.name = x.name /\ z.mtime >= x.mtime
          BY <3>1, <3>3 DEF Newer
        <5>2. PICK y \in disk[q].files : y.name = z.name /\ y.mtime >= z.mtime
          BY <1>1 DEF Newer
        <5>3. x.mtime \in Nat /\ y.mtime \in Nat /\ z.mtime \in Nat
          BY <4>1 DEF LogFiles
        <5> QED BY <5>1, <5>2, <5>3
      <4> QED BY <1>1, <1>3, <3>3, <4>2
    <3> QED BY <3>2, <3>3
  <2> QED BY <1>1, <1>5, <2>1, <2>2 DEF Working
<1> QED BY <1>2, <1>6, <1>7, <1>8 DEF Faithful

-----------------------------------------------------------------------------
(* An index that is current is complete.                                    *)

LEMMA FaithfulInit ==
  ASSUME Init
  PROVE  Faithful
<1>1. Unobstructed
  <2>1. \A c \in Command : pc[c] = "idle"
    BY DEF Init
  <2>2. pc \in [Command -> Labels]
    BY DEF Init, Labels
  <2>3. disk = [p \in Path |-> disk[p]]
    BY DEF Init
  <2> QED BY <2>1, <2>2, <2>3 DEF Unobstructed, Command, InPlace
<1>2. Typed
  BY IndexAssumption DEF Init, Typed
<1>3. Stands
  BY DEF Init, Stands
<1>4. ASSUME NEW c \in Command PROVE Working(c)
  <2>1. header[c] = {} /\ listed[c] = {} /\ entries[c] = <<>> /\ pc[c] = "idle"
    BY DEF Init
  <2> QED BY <2>1 DEF Working, Listed
<1> QED BY <1>1, <1>2, <1>3, <1>4 DEF Faithful

\* The archive has one more transaction, or another file in the place of one.
LEMMA GrowStep ==
  ASSUME Faithful, NEW f \in File, NEW g \in Gtid, Grow(f, g) \/ Rewrite(f, g)
  PROVE  Faithful'
<1>1. Typed /\ ops \in Nat /\ ops + 1 \in Nat /\ <<g>> \in Seq(Gtid)
  BY DEF Faithful, Typed
<1>2. ops' = ops + 1 /\ UNCHANGED <<disk, cmdVars>>
  BY DEF Grow, Rewrite, Change
<1>3. CASE Grow(f, g)
  <2> DEFINE txns == IF archive[f] = None THEN <<g>> ELSE Append(archive[f].txns, g)
             v    == [txns |-> txns, mtime |-> ops + 1]
  <2>1. archive' = [archive EXCEPT ![f] = v]
    BY <1>3 DEF Grow
  <2>2. txns \in Seq(Gtid)
    <3>1. archive[f] # None => archive[f].txns \in Seq(Gtid)
      BY <1>1 DEF Typed, Binlog
    <3> QED BY <1>1, <3>1
  <2>3. v \in Binlog \cup {None} /\ v.mtime = ops + 1
    <3> HIDE DEF txns
    <3> QED BY <1>1, <2>2 DEF Binlog
  <2> HIDE DEF v
  <2> QED BY <1>2, <2>1, <2>3, ArchiveStep
<1>4. CASE Rewrite(f, g)
  <2> DEFINE v == [txns |-> <<g>>, mtime |-> ops + 1]
  <2>1. archive' = [archive EXCEPT ![f] = v]
    BY <1>4 DEF Rewrite
  <2>2. v \in Binlog \cup {None} /\ v.mtime = ops + 1
    BY <1>1 DEF Binlog
  <2> HIDE DEF v
  <2> QED BY <1>2, <2>1, <2>2, ArchiveStep
<1> QED BY <1>3, <1>4

\* A file is gone.
LEMMA PurgeStep ==
  ASSUME Faithful, NEW f \in File, Purge(f)
  PROVE  Faithful'
<1>1. archive' = [archive EXCEPT ![f] = None] /\ None \in Binlog \cup {None}
  BY DEF Purge
<1>2. ops' = ops + 1 /\ UNCHANGED <<disk, cmdVars>>
  BY DEF Purge, Change
<1> QED BY <1>1, <1>2, ArchiveStep

\* Faithful is inductive.
LEMMA FaithfulNext ==
  ASSUME OutputsDiffer, Faithful, [Next]_vars
  PROVE  Faithful'
<1>1. CASE UNCHANGED vars
  <2>1. UNCHANGED <<archive, disk, ops, pc, header, listed, todo, entries>>
    BY <1>1 DEF vars, cmdVars
  <2>2. Unobstructed' /\ Typed' /\ Stands'
    BY <2>1 DEF Faithful, Unobstructed, Typed, Stands
  <2>3. ASSUME NEW c \in Command PROVE Working(c)'
    BY <2>1 DEF Faithful, Working, Done
  <2> QED BY <2>2, <2>3 DEF Faithful
<1>2. ASSUME NEW f \in File, NEW g \in Gtid, Grow(f, g) \/ Rewrite(f, g) PROVE Faithful'
  BY <1>2, GrowStep
<1>3. ASSUME NEW f \in File, Purge(f) PROVE Faithful'
  BY <1>3, PurgeStep
<1>4. ASSUME NEW p \in Path, NEW q \in Path, Switch(p, q) PROVE Faithful'
  BY <1>4, SwitchIsFaithful
<1>5. ASSUME NEW c \in Command,
             \/ Start(c) \/ List(c) \/ ReadHeader(c) \/ Compare(c) \/ CopyOld(c)
             \/ ScanFile(c) \/ Recheck(c) \/ Publish(c)
      PROVE  Faithful'
  BY <1>5, StartStep, ListStep, ReadHeaderStep, CompareStep, CopyStep, ScanStep, RecheckStep,
     PublishIsFaithful
<1> QED BY <1>1, <1>2, <1>3, <1>4, <1>5 DEF Next

\* What the archive carries, it has somewhere first.
LEMMA FirstInIs ==
  ASSUME NEW f \in Names, NEW g \in Range(archive[f].txns), archive[f].txns \in Seq(Gtid)
  PROVE  IsFirst(archive, f, FirstIn(f, g), g)
<1> DEFINE txns == archive[f].txns
           At   == {i \in DOMAIN txns : txns[i] = g}
<1>1. At # {} /\ At \in SUBSET Nat
  BY DEF Range
<1>2. PICK i \in At : \A j \in At : i <= j
  BY <1>1, LeastElement
<1>3. \A j \in 1 .. i - 1 : txns[j] # g
  <2> SUFFICES ASSUME NEW j \in 1 .. i - 1, txns[j] = g PROVE FALSE
    OBVIOUS
  <2>1. i \in 1 .. Len(txns) /\ j \in 1 .. Len(txns) /\ ~(i <= j)
    OBVIOUS
  <2> QED BY <1>2, <2>1
<1>4. i \in DOMAIN txns /\ txns[i] = g
  OBVIOUS
<1> QED BY <1>3, <1>4 DEF IsFirst, FirstIn

\* The files an index names are all fresh when it is current.
LEMMA FaithfulIsComplete ==
  ASSUME Faithful
  PROVE  CurrentIsComplete
<1> SUFFICES ASSUME NEW p \in Path, Current(p)
    PROVE  LET idx == disk[p].entries IN
      /\ \A f \in File, g \in Gtid : Carries(f, g) => \E j \in DOMAIN idx : idx[j].gtid = g
      /\ \A j \in DOMAIN idx : /\ Carries(idx[j].file, idx[j].gtid)
                              /\ \A f \in 1 .. idx[j].file - 1 : ~Carries(f, idx[j].gtid)
      /\ \A j, k \in DOMAIN idx : j < k =>
           \/ idx[j].file < idx[k].file
           \/ /\ idx[j].file = idx[k].file
              /\ FirstIn(idx[j].file, idx[j].gtid) < FirstIn(idx[k].file, idx[k].gtid)
  BY DEF CurrentIsComplete
<1> DEFINE idx == disk[p].entries
<1>1. /\ Typed /\ Right(archive, Snapshot, idx)
  BY DEF Faithful, Stands, Current
<1>2. /\ NamesIn(Snapshot) = Names /\ Names \subseteq File
      /\ \A x \in Snapshot : Fresh(archive, x)
  BY <1>1, SnapshotIs
<1>3. \A f \in Names : \E x \in Snapshot : x.name = f /\ Fresh(archive, x)
  BY <1>2 DEF NamesIn
<1> HIDE DEF idx
<1>4. /\ idx \in Seq(Entry) /\ Complete(archive, Snapshot, idx) /\ Sound(archive, Snapshot, idx)
      /\ Once(idx) /\ InOrder(archive, Snapshot, idx)
  BY <1>1 DEF Right
<1>5. ASSUME NEW f, NEW g, Carries(f, g)
      PROVE  \E j \in DOMAIN idx : idx[j].gtid = g /\ idx[j].file <= f
  <2>1. f \in Names /\ g \in Range(archive[f].txns)
    BY <1>5 DEF Carries
  <2>2. PICK x \in Snapshot : x.name = f /\ Fresh(archive, x)
    BY <1>3, <2>1
  <2> QED BY <1>4, <2>1, <2>2 DEF Complete
<1>6. ASSUME NEW j \in DOMAIN idx PROVE Carries(idx[j].file, idx[j].gtid)
  <2>1. idx[j].file \in Names
    BY <1>2, <1>4 DEF Sound
  <2>2. PICK x \in Snapshot : x.name = idx[j].file /\ Fresh(archive, x)
    BY <1>3, <2>1
  <2> QED BY <1>4, <2>1, <2>2 DEF Sound, Carries
<1>7. ASSUME NEW j \in DOMAIN idx, NEW f \in 1 .. idx[j].file - 1 PROVE ~Carries(f, idx[j].gtid)
  <2> SUFFICES ASSUME Carries(f, idx[j].gtid) PROVE FALSE
    OBVIOUS
  <2>1. PICK k \in DOMAIN idx : idx[k].gtid = idx[j].gtid /\ idx[k].file <= f
    BY <1>5
  <2>2. j \in Nat /\ k \in Nat /\ idx[j] \in Entry /\ idx[k] \in Entry
    BY <1>4
  <2>3. idx[j].file \in Nat /\ idx[k].file \in Nat
    BY <2>2 DEF Entry, File
  <2>4. k # j
    BY <2>1, <2>3
  <2>5. j < k \/ k < j
    BY <2>2, <2>4
  <2> QED BY <1>4, <2>1, <2>5 DEF Once
<1>8. ASSUME NEW j \in DOMAIN idx, NEW k \in DOMAIN idx, j < k, idx[j].file = idx[k].file
      PROVE  FirstIn(idx[j].file, idx[j].gtid) < FirstIn(idx[k].file, idx[k].gtid)
  <2> DEFINE f == idx[j].file
             i == FirstIn(f, idx[j].gtid)
             l == FirstIn(f, idx[k].gtid)
  <2>1. /\ f \in Names /\ idx[j].gtid \in Range(archive[f].txns)
        /\ idx[k].gtid \in Range(archive[f].txns)
    BY <1>6, <1>8 DEF Carries
  <2>2. archive[f].txns \in Seq(Gtid)
    BY <1>1, <2>1 DEF Typed, Names, Binlog
  <2>3. IsFirst(archive, f, i, idx[j].gtid) /\ IsFirst(archive, f, l, idx[k].gtid)
    <3> HIDE DEF f
    <3> QED BY <2>1, <2>2, FirstInIs
  <2>4. PICK x \in Snapshot : x.name = f /\ Fresh(archive, x)
    BY <1>3, <2>1
  <2>5. i \in DOMAIN archive[f].txns /\ l \in DOMAIN archive[f].txns
    BY <2>3 DEF IsFirst
  <2>6. i < l
    <3> HIDE DEF i, l
    <3> QED BY <1>4, <1>8, <2>3, <2>4, <2>5 DEF InOrder
  <2> QED BY <1>8, <2>6
<1>9. ASSUME NEW j \in DOMAIN idx, NEW k \in DOMAIN idx, j < k
      PROVE  idx[j].file < idx[k].file \/ idx[j].file = idx[k].file
  <2>1. idx[j].file <= idx[k].file
    BY <1>4, <1>9 DEF Once
  <2>2. idx[j] \in Entry /\ idx[k] \in Entry
    BY <1>4
  <2> QED BY <2>1, <2>2 DEF Entry, File
<1> QED BY <1>5, <1>6, <1>7, <1>8, <1>9 DEF idx

\* An index that `index check` calls CURRENT tells where every transaction of the archive is, for
\* any number of files, transactions and commands, if no two commands are given the same output.
THEOREM CurrentIndexesAreComplete ==
  ASSUME OutputsDiffer
  PROVE  Spec => []CurrentIsComplete
<1>1. Init => Faithful
  BY FaithfulInit
<1>2. Faithful /\ [Next]_vars => Faithful'
  BY FaithfulNext
<1>3. Faithful => CurrentIsComplete
  BY FaithfulIsComplete
<1> QED BY <1>1, <1>2, <1>3, PTL DEF Spec
=============================================================================
