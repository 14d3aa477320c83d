# A TLA+ model of Unredo

Unredo picks one committed transaction out of a MySQL ROW binlog, writes a plan that compensates it
(`revert`, or `reapply`), compares the plan with the rows of the moment and applies it in one new
transaction. This directory models the parts of it in which state survives a call, where steps of
different actors meet, or where a value passes through several conversions; checks them with TLC and
proves the central ones with TLAPS.

Read in this order: `ActionLedger` (one page: what the table of action markers promises),
`ApplyProtocol` (how it is kept, concurrently), `Compensation` (what a plan does to rows),
`ValueCodec` (what happens to one column value on that way), `BinlogAssembly` (where the row changes of
a plan come from), `LocalEventStream` (the goroutines behind it when binlogs are archived files),
`TxnIndex` (the index over them), `Workspace` (the commands around all this: configuration, plan files,
prompts).

## 1. The system

| Component (source) | State it keeps | Operations | What makes it correct |
|---|---|---|---|
| apply executor (`backends/mysql/apply.go`, `backend.go`) | one connection with one InnoDB transaction | `Apply`: START TRANSACTION, metadata locks and fingerprints, marker, per operation a locking read and a conditional write, COMMIT | all or nothing, exactly once, never a wrong report |
| drift checker (`executor/check.go`, `backends/mysql/check.go`) | none; reads fingerprints and rows without locks | `Check` | READY only when the plan fits, CONFLICT only when it does not |
| action store, action chain (`action_store.go`, `001_init.sql`, `cli/action.go`) | the table `unredo_meta.action_markers` | insert (in `Apply`), `LatestAction`, `validateActionParent`, `validateActionChain`, `action revert / reapply` | a chain is one line, never forks |
| commit verification (`cli/action.go`) | none | `action verify` after COMMIT_UNKNOWN | COMMITTED only for this action and this plan |
| planner (`planner/planner.go`) | none; plans are immutable | `Build`, `BuildReapply`, `BuildChainedRevert` | a plan is the exact inverse (or repetition) |
| conflict resolution (`planner/resolve.go`) | none | `BuildResolved` | a resolved plan does what the operator reviewed |
| value codec (`backends/mysql/value/value.go`, `backends/mysql/sqlvalue.go`, `core/value.go`) | none | `Decode`, `Equal`, `driverValue`, `buildPredicate` | the binlog's form, the SELECT's form and the bound form of a value are one value |
| binlog iterator (`backends/mysql/source/source.go`) | transaction being assembled, pending rows, last table map, column cache, limits, markers seen | `Next` over `handleEvent`, `Find`, `FindActionGTID` | one output per transaction, complete or not executable |
| local event stream (same file) | a goroutine per file, an unbuffered channel, a context | `GetEvent`, `Close` | nobody blocks for ever, nothing is lost or taken for the end |
| transaction index (`txnindex/`, `cli/index.go`) | JSONL files | `build`, `update`, `check`, `query` | CURRENT means complete; nothing is overwritten |
| configuration (`config/config.go`, `cli/init.go`) | `unredo.yaml`, GRANT files | `Load`, `Save`, `init` | no profile is lost |
| plan files (`planner/io.go`) | files, written in place | `WriteFileLimited`, `ReadFile` | a file whose digest does not match is refused |
| plan commands (`cli/plan.go`, `registry`) | none | `create`, `check`, `resolve`, `apply`: the gates and the order of calls | nothing is applied that was not confirmed, nor to another server |
| bootstrap, doctor (`backends/mysql/bootstrap.go`, `doctor/doctor.go`) | the schema `unredo_meta` | `ApplyMetaMigration`, `doctor` | a migration that says so has been done |
| txn commands (`cli/txn.go`) | none | `list`, `show` | everything up to the limit or the deadline is seen |
| schema inspector, policy, redaction, build info | none that outlives a call | | see "Not modelled" |

How they interact. `plan create` calls `Find` on the iterator and `Build` on what it returns; `plan check`
and `plan apply` call `Check`; `plan apply` calls `validateActionChain`, `Check`, `ApplyWriter.Apply` and
then `FindActionGTID`, on four different connections; `action revert / reapply` reads the markers and writes
the next plan; `index build` runs the iterator over the local event stream of every archived file. The
components share only the target database (rows, schema, markers), `unredo.yaml`, plan files and index
files. No command locks another one out: invocations meet in InnoDB and in the file system.

What is hard here:

- *Concurrency.* Several invocations, other clients and ALTER TABLE interleave between any two statements.
  Everything that is read before the transaction (chain, schema, rows) may be stale when it is used. Inside
  one process a parser goroutine, the reader and two contexts race at three selects.
- *Failure.* A statement can time out, deadlock or lose its connection; the CLI can be killed, mysqld can
  restart; an unanswered COMMIT may have happened, may still happen or may never happen. Configuration and
  plan files are truncated and then written, and a kill or a full disk can leave any part of them.
- *Ordering.* Operations of one plan depend on one another; binlog events of one transaction come in
  shapes the iterator does not all know; the archive changes while it is indexed.
- *Long histories.* revert, reapply, revert, ... with resolved plans in between, each derived from a root plan.
- *Conversions.* The same value arrives as a Go container from the replication library and as bytes from a
  SELECT, is held in JSON, compared in Go, bound to a statement and compared again by MySQL.

`PROJECT.json` lists each of these hazards with the line where it bites and the properties against it.

## 2. Modules

### ActionLedger: the abstract specification
`ledger` is the set of committed markers. `Open` records the first action of a chain, `Continue` one that
follows a recorded action of the same chain, one place deeper and with the opposite target state; both only
if none of the three unique keys clashes.
`Linear`: no clash, no hole in a chain, directions alternate.

### ApplyProtocol: `plan apply` end to end
One action per statement or observable step, for any number of invocations (`Run`) at the same time:

| Code | Actions |
|---|---|
| `plan create`, `action reapply/revert`, `plan resolve` | `CreatePlan`, `NextPlan`, `ResolvePlan` |
| `runPlanApply`, `validateActionChain` | `Start` |
| `executor.Check`, row by row, each read at its own moment | `CheckSchema`, `CheckRow`, `CheckEnds` |
| `ApplyWriter.Apply` | `LockSchemas`, `VerifySchemas`, `InsertMarker`, `LockRow`, `WriteRow` |
| COMMIT and its error path | `SendCommit`, `CommitNotSent`, `CommitAnswered`, `CommitRefused`, `CommitUnanswered` |
| any failing statement, the deferred ROLLBACK | `StatementFails`, `Rollback`, `RollbackLost` |
| InnoDB (external) | `ServerCommit`, `ServerAbandon`, `ServerRestart` |
| the environment (external) | `KillRun`, `ForeignWrite`, `AlterTable` |
| `action verify` | `VerifyFinds`, `VerifyExpires`, `VerifyFails` |

InnoDB is modelled as far as the code relies on it: a record lock per key, a shared gap lock where the row
is missing (under REPEATABLE READ), current reads against committed rows, metadata locks held to the end of
the transaction, unique-key checks that wait for an uncommitted duplicate. A COMMIT has three moments: it is
sent, it is carried out, it is answered; the CLI can stop listening, the server restart or the process die
between them. A run is its own action id, since `newActionID` is called once per invocation. All tables of a
plan are one table with one schema version.

### Compensation: what a plan does to rows
One client at a time, but real rows: functions from columns to values with NULL, unique keys, stored
generated columns. `SourceChange` builds a source transaction change by change; `Create` is `planner.Build`
(choice and caching of the key, `rowForKey`, reversal, generated columns left out); `Resolve`, `Apply` and
`Continue` are the rest of a plan's life; `ForeignChange` lets the rows drift between any two of them.
`Execute` applies the operations one by one with MySQL's predicates, so an operation can fail on what an
earlier one left. `Apply` is one step here: that the transaction is atomic is what ApplyProtocol shows
(`AtomicCompensation`); this is how the two modules divide the work. `ReadBack` is the row as `ReadByKey`
sees it: a NULL is scanned into a nil `[]byte`, which `Decode` does not take for NULL, so a nullable
column reads as the value `NullReads` gives it (an empty text, BIT 0) or, where the type has none, as
`Unreadable`, and the operation cannot be checked.

### ValueCodec: one column value
The same life of a plan for a single column, with the conversions spelled out: `FromBinlog` and
`FromSelect` are the containers the replication library and the SQL driver return, `Decode` and
its parts the source's, `Equal`, `DriverValue` the next two stages, `Holds` and `Literal` what MySQL
compares and stores (external). Integers and BIT have their width: a word has `Word` values and `AsSigned`
/ `Uint64` are the passages through an int64. The library gives every unsigned integer in the signed
container of its width; only BIGINT UNSIGNED is taken out of it again. ENUM values are indexes of members,
SET values masks, a JSON document is one of its numbers and passes through a float64 (`Rounded`). A text
column has a collation (`Folded`). Types whose text is carried through unchanged are one type `text`.

Floating-point numbers lie on a grid between which decimal numbers fall, FLOATs on a coarser one than
DOUBLEs; each is written with the digits that are rounded to it. The text of these digits has two forms,
Go's (`GoText`: 1234567 is `1.234567e+06`, `value.go:246` and `:251`) and MySQL's (`SqlText`, plain up to
10^15). Which of them Check compares with the plan depends on how the row is read. Statements are prepared,
since the DSN says `InterpolateParams = false` (`backend.go:353`) and `ReadByKey` binds the key, so MySQL
answers in the binary protocol: the driver returns a `float32` or `float64`, and `Scan` into `sql.RawBytes`
writes it with `AppendFloat` in the same format `'g'` and precision -1. `FromSelect` says this, and
`FromSelectText`, which reads MySQL's own text, is the variant under which an untouched DOUBLE conflicts with its
plan. (A key of which every column is NULL binds no argument; this one case in which the text protocol is used
is not modelled.)

`Form` is what a plan holds for a value, `Kept`, `Wraps`, `Matchable` and `Writable` name the exceptions of the
properties, so that no type, width or collation has to be left out of the run or of the theorems.

### BinlogAssembly: from events to transactions
The server's side writes logs: statements become table maps and row events, transactions end with an XID, a
COMMIT query, as a DDL query, or in the two ways `handleEvent` has no case for. The log grows while it is
read; the reader's position `at` says which event of which transaction comes next, but the iterator sees no
transactions, only events. It is one action per event (`ReadPlain`, `ReadForeignRows`, `ReadRows`) and `Emit` for
`Next` returning; its record `b` has the fields of `binlogIterator`. `Plain` are the transactions whose events
arrive in the shape the iterator is made for; the workload of the passing run has no others. Row counts, byte counts, markers, the
column cache and the reset in `Next` are all there. `Size` abstracts the length of the JSON encoding.

### LocalEventStream: goroutines, channel, contexts
What BinlogAssembly takes for granted when binlogs are files. One goroutine per file parses (`Parse`),
offers each event at a select over an unbuffered channel and its context (`SenderSelect`), and closes the
channel (`CloseResults`); the iterator asks its context and then waits at a select of its own (`Check`,
`ReaderSelect`); `Close` is `StopParser`, then `CancelStream`; `Cancel` is an interrupt or a deadline and
`Propagate` the parent context reaching the stream's. Go's select is modelled as it works: a goroutine that
arrives takes any ready case, or parks; a parked one takes the first that becomes ready, in the step that
makes it so. The consumers are `index build` (all files in turn), `txn list` (a limit, a deadline) and
`txn show` (`Find`). An event is its number in the file; which of them complete a transaction is a constant.

### TxnIndex: index files
`index build` and `index update` step by step (look at the output, list the archive, compare, copy the old
index, scan file by file, look again, rename), several commands at a time, while the archive grows, is
rewritten or purged and the DBA replaces an index by a newer one. Modification times never repeat.

### Workspace: the directory and the commands

| Code | Actions |
|---|---|
| `runInit`: `loadConfigForInit`, the checks for what exists, `config.Save`, the GRANT file | `InitLoad`, `TruncateConfig`, `WritePart`, `FillConfig`, `WriteGrants` |
| `ApplyMetaMigration` | `FindDatabase`, `CreateDatabase`, `FindTable`, `CreateTable` |
| `planner.ReadFile`, `WriteFileLimited` | `ReadPlan`, `TruncatePlan`, `FillPlan` |
| `resolveBackend`, `NewBackend` (the UUIDs of both servers) | `ResolveBackend` |
| `plan check`, `plan resolve` | `Check` |
| the gates of `plan apply`: prompt, `--confirm-sha`, `--accept-risk` | `Confirm` |
| `Backend.Apply`, `action verify`, `doctor` | `Execute`, `Verify`, `Examine` |
| the environment (external) | `Kill`, `Failover`, `Edit` |

Any number of commands of any kind run at once on one directory. `os.WriteFile` of `unredo.yaml` is truncation,
a part of the content that can be read, and the rest, and a command can be killed, or read the file, after
each of them. The file has no digest, and `Load` checks nothing but its version: a file that ends after
`version: 1` or after a profile is a configuration with fewer profiles, and one that ends inside a profile
has it without an account or a mode (`Stub`; no command can use it, but `init` keeps it). `PrefixesOf` are all
of these, in the order of the names in which YAML is written (`Rank`); what cannot be parsed, like the empty
file, is `Torn`. `saved` is what each `init` set out to save, `cut` what a killed one has left out. A
plan file that is cut short is `Torn` always, because JSON without its end does not parse and the digest
would not match.

A digest stands for the body it was computed from; `noted` are those of the plans that were written, which an
operator may know from what the command printed or from the file. A plan is applied in one step with
the outcomes ApplyProtocol has. A command remembers the UUIDs it asked for when it connected, and every
later connection goes to the server that is behind the address *then*. Two conditions are constants:
`SteadyAddresses` (addresses fail over only between commands) and `OneInit` (one `init` at a time).

### MC modules
`MCApplyProtocol`, `MCCompensation`, `MCValueCodec`, `MCBinlogAssembly`, `MCLocalEventStream`, `MCTxnIndex`
and `MCWorkspace` hold the values of the constants. Symmetry is used where values are interchangeable and
no property is temporal beyond a safety property.

Faulty variants (`DuplicatePlan`, `CommitErrorIsError`, `ForwardOrder`, ...) stand beside the definition they
vary. No action uses them; each, put in place of its neighbour, is a plausible bug that breaks a property.

## 3. What is checked

`tlc -workers 2 -config <cfg> <module>`; every run ends within about three minutes on two cores.

| Run | Instance and bounds | Question |
|---|---|---|
| race (`MCRace`) | 2 runs, 2 plans, 2 rows, depth 1, 2 foreign writes, 1 ALTER, 1 restart; 2.2 M states | Is a compensation atomic, are its reports true, does the schema hold, does no chain fork, whoever interferes? |
| chain (`MCChain`) | 3 runs, 3 plans, 1 row, depth 2; 0.6 M | Does the marker table implement ActionLedger, when plans of a chain and their resolved versions compete? |
| live (`MCLive`) | 2 runs, 1 missing row, gap locks, 1 restart; 55 k | Does every invocation end and every transaction go away, also after a deadlock? |
| keyed (`MCKeyed`) | primary key, 2 rows at first, 2 changes, 2 foreign changes, depth 2; 0.55 M | Is the effect of every plan exact; do checks and resolved plans do what they promise? |
| nullable (`MCNullable`) | two nullable unique keys, a generated column, 1 row at first, 2 changes; 0.65 M | The same effect when the cached key may be NULL and a column is generated. |
| codec (`MCCodec`) | 13 columns of all types, a folding collation, words of 4 bits, numbers to 9 of which a float64 holds those to 4 and exponents begin at 3 (Go) and 6 (MySQL), all values and all drifts; 94 k | Does a value survive the way into a plan and back, and is every drift seen? |
| binlog (`MCBinlog`) | 4 transactions of 6 shapes, 1 ALTER, limits 2 rows / 4 bytes / 3 transactions; 0.1 M | Is every transaction returned once, complete or not executable, within the limits, and in the end? |
| stream (`MCStream`) | 3 files with 3, 0 and 2 events, any of them broken, 5 commands, an interrupt or a deadline at any moment; 16 k | Does every command end without leaving a goroutine behind, and is what it reports complete and in order? |
| index (`MCIndex`) | 1 build, 2 updates in a row, 1 update in place, 2 files, 4 changes of the archive; 1.6 M | Is an index that `check` calls CURRENT complete, and is none overwritten? |
| workspace (`MCWorkspace`) | 3 commands of any kind, 2 profiles, 2 addresses, 2 servers, 1 plan file, 1 failover, 1 edit, writes of `unredo.yaml` cut short at either profile; 3.2 M | Is what is applied what was confirmed, and on the right server; does a profile get lost only if a write was cut short? |

Why the bounds are enough to be interesting. Two invocations suffice for every pairwise race; three are used
where one holds a marker, one waits for it and one reads the chain. Depth 2 is the first at which a plan is
derived back into the direction of its root. Two rows make a plan fail half way; two changes of one source
transaction make order and key reuse matter, and three key values allow a foreign row to take a freed key.
Two row slots and a transaction of three row changes cross the limit inside an event. Two updates in a row are
the first that read an index which an update wrote. Four bits give a column narrower than its container and
one that fills it, a SET with a member for every bit and one without, and the sign bit of both. Numbers to 9
have FLOATs that are decimal numbers as DOUBLEs and FLOATs that are not, and texts of all three forms. Three files
make a build leave one goroutine behind, cross a file without events and end in the last one. Three commands
of the workspace are the one that writes a file, the one that reads it, and one that wrote over it in
between; the plan of an earlier command is there or not at first, so that all three may be about something
else. In `race` gap locks are off: locks only forbid steps, so every behaviour with gap locks is, apart from
the variable `gap`, one without them.

**Fairness** is assumed in three runs only. In `live`: weak fairness of each client's next step, because
`--timeout` (60 s when not given) bounds the context of every statement and the driver closes the connection
when it ends, which is `StatementFails`; weak fairness of the server carrying out received COMMITs and
clearing up after connections that are gone. Starting, killing, foreign writes and verifying are never
forced. In `binlog`: the caller of `Next` calls it again and the log's events are delivered. Lock waits
are not assumed to succeed. In `stream`: weak fairness of the reader, of each goroutine and of a done parent
context reaching its children, which is what Go's scheduler gives to everything that can run. Which case a
select takes is not assumed to be fair, and nobody has to interrupt.

CHECK_DEADLOCK is on in `stream`, where a command that has returned is the only thing that may stand still:
everyone waiting for everyone would be found. It is off elsewhere because those systems may stop: runs are
over, the log or the archive has reached its bound.

### Properties worth a second look

- `FailureIsFinal`: a run that reported failure has not committed *and no COMMIT of it is under way*.
  Treating an error of COMMIT as a failure would break it.
- `AtomicCompensation`: at the very step in which a marker becomes visible every operation found its expect
  image in the rows committed until then, although Check read them unlocked and long before.
- `SchemaHeld`: between VerifySchemas and the commit the fingerprint stays true because LockSchemas came first.
- `NoFork`: `validateActionChain` reads the newest action without a lock; that chains cannot fork rests on
  `uq_root_depth` alone.
- `ExactEffect`: the whole effect of a plan is the net effect of the source transaction, for every plan of the
  chain, on rows that other clients have changed. Only a reapply of the source transaction itself needs keys
  without NULL for it: it looks for its rows under the keys they are to get (`MCNullReapply`).
- `ReadyApplies`: no operation of a plan stands in the way of a later one, unless a key holds a NULL and so
  selects rows that the plan itself has written (`MCNullInserts`).
- `ResolvedEffect`, `BoundRowsUnmoved`: what a resolved plan does where the rows are as reviewed, and which
  operations stay bound to the reviewed rows.
- `UnchangedIsRestorable`, `DriftIsSeen`: four conversions written in three files fit together for every value
  of every supported type: nothing conflicts with itself, and no two values look alike. The exceptions are
  stated in the properties; each is shown to be needed in section 4.
- `ExecutableIsComplete`: no plan is ever made from part of a transaction.
- `CompleteUnlessStopped`, `NoLeak`: a read-ahead, parked or cancelled goroutine never makes a file look
  finished that is not, and never outlives the command.
- `CurrentIsComplete`: incremental updates, copied and rescanned files and duplicates across files give what a
  full build gives.
- `AppliedAsConfirmed`: the digest is checked when the file is read and confirmed later, while others truncate,
  rewrite or edit the file; what is applied is still what was printed and confirmed.
- `RightServer`, `VerdictIsOfPlan`: what is said of a plan is said of its server, and COMMITTED is about *this*
  plan, whatever the profile and the addresses have become since it was made.
- `ProfilesAreKept`: `unredo.yaml` is read, held during a prompt, truncated and rewritten with all profiles, and
  what a killed `init` leaves of it is read by others. Nothing is lost but what the cut write left out, and no
  old profile comes back.

## 4. Where code and documentation disagree

Two runs are expected to end in a counterexample:

| Run | What it shows |
|---|---|
| joined_tables | A statement that changes two tables maps both before its rows. The iterator remembers one map, drops the rows of the other table, and the transaction is still executable. |
| null_read | `ReadByKey` hands a NULL to the decoder as a nil `[]byte` in an interface, which is not nil (`check.go:148`). A NULL of a text is read as `''`, one of a BIT as 0, one of a number as an error: a row nobody has touched conflicts with its own plan, although "NULL is only equal to NULL" (`core/value.go:79-81`). |

Other disagreements met on the way, and assumptions of the passing runs shown to be needed; each
configuration ends in a counterexample in the same way:

| Configuration | What it shows |
|---|---|
| `MCReplayed` | `ReplayedMeansApplied`: "plan already applied; callers should NOT retry" is also the answer when another plan took the same place in the chain: this plan never was applied. |
| `MCLaterChange` | `LaterChangeConflicts`: an operation that was already satisfied is dropped from a resolved plan and keeps no precondition; a later change of its row does not conflict. |
| `MCCopied` | `ReadyApplies`: the reapply plan derived from a revert writes stored generated columns: READY, and refused by MySQL. |
| `MCNullDropped` | `ResolvedEffect`: a NULL read as `''` counts as already restored where `''` is to be restored, and the operation is dropped from the resolved plan. The same constants break `BoundRowsUnmoved`: an operation resolved against a NULL is bound to `''`, and applied after another client has made the NULL an `''`. |
| `MCNullReapply` | `ExactWhateverTheKey` (`executor/check.go:243`): the reapply of an update that put NULL into its key looks for its row under that NULL. Check reads the NULL as `''`, which is what it expects there, and the statement's predicate takes the key's NULL before the expected value: a row that another client has set to NULL is changed. |
| `MCNullInserts` | `ReadyWhateverTheKey` (`executor/check.go:22`): two inserts whose cached key is NULL are both free when Check looks; the second finds the row of the first and the transaction fails. |
| `MCNullKey` | `KeySelectsOneRow` (`backends/mysql/check.go:5-7`): the key is chosen for the first row of a table; in another row it may be NULL and select several rows. |
| `MCReapplyKey` | `KeyIsOfExpectedRow` (`planner.go:382-384`): `plan create --mode reapply` of an update that changed its key looks for the row under the new key and reports a missing row. |
| `MCCollation` | `EveryValueRestored` (`sqlvalue.go:126`): texts that the column's collation takes for equal are different to Check and equal to the UPDATE's predicate, so a text that changes its case between the two is overwritten. |
| `MCJsonNumber` | `EveryValueRestored` (`value.go:338`): numbers in JSON documents pass through a float64; an integer above 2^53 is restored as another one. |
| `MCFloatPredicate` | `EveryValueRestorable` (`sqlvalue.go:126`): `=` compares a FLOAT with a text as DOUBLEs. Where the FLOAT is a decimal number as a DOUBLE too (1.25, 3.5, the values of `TestEndToEndEdgeTypeRoundTrip`), the row is found, as `README.md:229` says; where it is not (0.1), an UPDATE that names the column finds no row. |
| `MCNarrowUnsigned` | `EveryValueRestorable` (`value.go:111-115`): the library returns unsigned integers narrower than BIGINT in signed containers too, and only BIGINT UNSIGNED is taken out again; a value of the highest half comes out negative and conflicts with its own row. |
| `MCPreparedXA` | `ExecutableIsComplete` (`core/transaction.go:102-104`): rows of a prepared XA transaction, whose end has no case in `handleEvent`, are returned as rows of the next transaction. |
| `MCCreateSelect` | `OneForOne` (`source.go:814-816`): CREATE TABLE .. SELECT is one transaction with rows in MySQL 8.0.21 and later; it is returned as two, the second without a GTID. |
| `MCOtherEngine` | `ScanGoesOn` (`README.md:204`): a row of a table that is not InnoDB ends the whole scan with an error. |
| `MCTwoServers` | `FindsTheOneAsked` (`source.go:390`): `Find` compares only what follows the colon of a GTID. |
| `MCTableFilter` | `ListIsFiltered` (`cli/txn.go:40-41`): `--database` and `--table` are read by nobody. |
| `MCInterruptedBuild` | `PublishedIsComplete` (`README.md:168`, `index.go:58`): an interrupt while the last file is read cancels the goroutine's context and the reader's; if the reader's select sees the closed channel first it takes io.EOF, and an incomplete index is published. |
| `MCSharedOutput` | `NeverOverwritten` (`README.md:168`): two builds with one `--output` both see it absent; the second rename replaces the published index. |
| `MCFailover` | `RightServer` (`backend.go:103-104`): the target's UUID is asked once, when the backend is made (`:72`); later connections may reach another server, and nothing is compared again. |
| `MCShortWrite` | `EveryProfileKept` (`config.go:61`): an `init` that is killed while it writes `unredo.yaml` leaves a part that can be read; the next one takes it for the whole configuration (`init.go:188-190`) and writes it back without the other profiles. |
| `MCTwoInits` | `ProfilesAreKept` (`init.go:145`): two `init`s that wait at their prompts have read the same configuration; the second to write loses the first one's profile. |
| `MCSharedAccount` | `MetaStands` (`doctor.go:72`, against `:47` and `README.md:104`): doctor skips the target's checks when both DSNs are equal, and passes without a marker table. |

The two shapes of transactions, CREATE TABLE .. SELECT and prepared XA, joined statements, two servers, two
commands with one output, `init` twice at once, a failover in the middle of a command and one account for both
connections are left out of the passing runs for this reason, and for no other. Large JSON numbers, collations
that fold, every FLOAT, narrow unsigned integers and writes that are cut short are in them: there the
properties state the exception, and the configurations above check them without it.
`OrdinaryWorkload` excludes the same shapes of transactions from the theorems about BinlogAssembly. NULLs are
not left out: `nullable` reads them as the code does, and only `NoFalseConflict` excludes rows that hold one.

Not in a run, since it is no state: `plan check --format json` returns before it looks at the status
(`cli/plan.go:98-102`) although `cli/plan.go:66-68` promises an exit code.

## 5. What is proved

`tlapm <module>` proves, for every set of runs, plans, keys, values, columns, files, commands and servers, and
every bound:

| Module | Theorem | Statement |
|---|---|---|
| `ApplyProtocolProofs` | `LedgerIsLinear` | `ActionLedger!Spec => []Linear` (if MaxDepth is a natural number) |
| | `Invariance`, `TypeCorrect` | `Spec => []Inv`, `Spec => []TypeOK` |
| | `CompensatedAtMostOnce` | `Spec => []ExactlyOnce` |
| | `FailuresAreFinal`, `SuccessesAreCommitted` | `Spec => []FailureIsFinal`, `Spec => []SuccessIsCommitted` |
| | `SchemaIsHeld` | `Spec => []SchemaHeld` |
| | `ChainsDoNotFork` | `Spec => NoFork`, an action property |
| | `MarkersAreALedger` | `Spec => ImplementsLedger`: the refinement `ledger <- markers` |
| | `ChainsAreLinear` | `Spec => []ChainsAreLines`: `LedgerIsLinear` carried over by the refinement |
| | `CompensationIsAtomic` | `Spec => AtomicCompensation`, an action property |
| `CompensationProofs` | `TypeCorrect`, `ConflictsHaveReasons` | `Spec => []TypeOK`, `Spec => []NoFalseConflict` |
| | `PlansAreExact` | `Spec => ExactEffect`, an action property |
| | `ReadyMeansApplicable` | `Spec => [](WritesNoGenerated => ReadyApplies)` |
| | `ReadyAppliesWithoutGenerated` | under `GenCols = {}`: `Spec => []ReadyApplies` |
| | `ResolvedPlansAreExact`, `ResolvedPlansStayBound` | under `Nullable = {}`: `Spec => ResolvedEffect`, `Spec => BoundRowsUnmoved`, action properties |
| `BinlogAssemblyProofs` | `TypeCorrect`, `MemoryIsBounded` | `Spec => []TypeOK`, `Spec => []BoundedMemory`, for every workload |
| | `ReturnedOneForOne`, `ExecutableMeansComplete` | under `OrdinaryWorkload`: `OneForOne`, `ExecutableIsComplete` |
| | `SummariesAreHonest`, `CorrelationIsRight` | under `OrdinaryWorkload`: `SummaryIsHonest`, `ActionsAreCorrelated` |
| `ValueCodecProofs` | `TypeCorrect`, `UntouchedIsRestorable`, `ChangesAreSeen` | `Spec => []TypeOK`, `Spec => []UnchangedIsRestorable`, `Spec => []DriftIsSeen` |
| | `OldValueIsRestored` | `Spec => RestoresOldValue`, an action property |
| `LocalEventStreamProofs` | `Invariance`, `TypeCorrect` | `Spec => []IInv`, `Spec => []TypeOK` |
| | `CompleteIfNotStopped`, `ReturnedInOrder` | `Spec => []CompleteUnlessStopped`, `Spec => InOrder` |
| `TxnIndexProofs` | `IndexesStand`, `CurrentIndexesAreComplete` | under `OutputsDiffer`: `Spec => NeverOverwritten`, `Spec => []CurrentIsComplete` |
| `WorkspaceProofs` | `TypeCorrect`, `ConfirmedIsApplied` | `Spec => []TypeOK`, `Spec => []AppliedAsConfirmed` |
| | `SaidOfTheRightServer`, `CommittedIsThePlan` | under `SteadyAddresses`: `RightServer`, `VerdictIsOfPlan` |
| | `LostOnlyIfCutShort` | under `OneInit`: `Spec => []ProfilesAreKept` |
| | `MigratedStands` | under `TwoAccounts`: `Spec => []MetaStands` |

Apart from the conditions named, they rest on each module's assumption on its constants only
(`ProtocolAssumption`, `CompensationAssumption`, `CodecAssumption`, `BinlogAssumption`, `StreamAssumption`,
`IndexAssumption`, `WorkspaceAssumption`), which
says that the constants have their types and that the null values are none of them. TLC evaluates them in
every run. For each condition a configuration of section 4 shows that the property fails without it.

**ApplyProtocol.** The inductive invariant `Inv` is TypeOK and eight parts, each there because a step needs it:

- `Phases` ties the CLI's program counter to the state of the transaction: only a sent COMMIT is in flight,
  a committed action has no transaction any more, a marker is pending only within a transaction. Without it
  ServerCommit could be enabled in impossible states.
- `ParentStands`: what `validateActionChain` saw remains true, since markers are never deleted and plans
  never rewritten. It gives the ledger's parent at commit time.
- `PendingUnique`: markers not yet committed clash neither with one another nor with committed ones. This
  is what the waiting INSERT establishes, and with it ServerCommit keeps `ExactlyOnce`.
- `MarkersHonest`: a committed marker is the one its run would write, so "action r is committed" and "the plan
  of r is committed" are the same.
- `Gapless` with `ExactlyOnce` makes the parent at depth d - 1 the newest of its chain when depth d commits: the
  argument of `NoFork`.
- `ReportsHonest` is FailureIsFinal and SuccessIsCommitted with what must hold before the end of a run.
- `SchemaLocked`: an open transaction is in `mdl`, and after VerifySchemas the schema is the plan's; AlterTable
  needs `mdl = {}`.

The proof has one lemma per group of actions and conjunct (`TypeClientStep`, ...) and joins them in
`Invariance`.

**Atomicity.** `AtomicCompensation` rests on `Inv` and on a second invariant, `Held`: only runs with a pending
marker hold rows, a row nobody holds is as it was committed, and every such run has made `Progress`: the rows
of the operations behind its `step` are its own, each was as its operation expects it when the operations before
it had been done, and the rows it holds are what those operations make of the committed ones. So whoever commits
in between cannot touch what has been checked, and a COMMIT, which comes when no operation is left, makes exactly
`After(db, Ops(r), Len(Ops(r)))` of the rows. `After` names for each row the last operation about it, so it
needs no induction over the plan.

**ValueCodec.** Nothing is assumed of the columns: FLOAT and DOUBLE, narrow unsigned integers, large JSON numbers
and folding collations are among them. Two lemmas carry the proof: every value comes out of the binlog in its
`Form` (`BinlogForm`, by cases on the type; `WordRoundTrip` is the passage of a 64-bit pattern through a signed
container), and every value that is no NULL and does not wrap comes out of a SELECT in the same form
(`SelectForm`). Forms of different values differ but for the JSON numbers that are rounded to one
(`FormsDiffer`), so comparing forms is comparing values. `HoldsThere` and `HoldsOnlyThere` say of which values
the predicate with a form is true, `LiteralOfForm` what MySQL stores for it; for FLOAT and DOUBLE they rest on
`DigitsOf`, every number of a column has digits that are rounded to it, and `FloatOfDouble`, which ties the
two grids together. What the properties except is what these lemmas cannot give.

**LocalEventStream.** `IInv` is TypeOK and, as long as the context is live, where everybody is: the goroutine
of the file being read is there and not stopped (`Feeding`), what it offers is the event it parsed last or the
honest end (`Offering`), what was returned is everything up to the event the iterator is at (`Position`,
with the event in the goroutine's hand not yet given), and at the end of a file everything up to the next
(`AtEnd`, `Between`). Once the context is done the iterator returns no transaction, so `InOrder` needs no more.

**Workspace.** `Safe` is TypeOK, what a command has in memory at each of its steps (`Places`), and that a plan
in memory has its declared digest (`Intact`), whatever the file has become. On it rest four short invariants:
`Careful` (who executes passed the gates; markers belong to commands that are done), `Honest` (the UUIDs a
command asked for are those behind its addresses still), `Orderly` (the configuration, and what an `init` has read
of it, agrees with what was saved last but for what was cut; a part that can be read is a part of what its
`init` is writing; and who writes is alone) and `Founded` (no profile in use has one account, and
tables once found are not dropped).

**Compensation.** The source transaction is a walk through legal tables (`IsWalk`): each step takes one row away
and brings one. `Inv` says that the changes recorded are such a walk from `before` to `after`, that the root
plan was built from them (`Rooted`) and that every safe plan is the root's or the inverse of the root's
(`Derived`). Each operation `Fits` the step it undoes or repeats: it can take nothing away but the row it
expects, and brings the row it writes. So a plan that executes has walked the same way, or the same way back,
through whatever the table has become, and two walks with the same steps make the same net change
(`NetChange`); that is `ExactEffect`. The other direction, that the walk *can* be walked, is `ReadyApplies`: on
undisturbed rows the tables it passes are those of the source transaction, all legal, and a key without NULL
that belongs to the row an operation brings selects nothing before (`KeyIsFree`). For `NoFalseConflict` nobody but the
operation's own step touches rows under its key (`TouchedOnce`), so the row is there before the plan begins.

A resolved plan is no walk along the source transaction. What can be said of it is `Tracked`: every operation
belongs to a row change of its own (`Owned`), under one of whose keys it looks for its row, and the plan is what
`plan resolve` made of the reviewed one (`Reviewed`). Resolving keeps that, and since plans of plans may be
resolved it must be kept, not established once. What is left of an operation (`Stays`, `Left`) is bound to all of the row
that was seen, so on the rows of the moment Check finds no conflict only if they are the same:
`BoundRowsUnmoved`. For `ResolvedEffect` every operation takes away its own row (`SeenApart`, from
`TouchedOnce`) or leaves it as it should be already (`DroppedIsReached`), and steps like these make together what
each makes alone (`Composed`). NULL breaks both, see `MCNullDropped`: a NULL is read as another value.

**BinlogAssembly.** `Inv` is types, the limits (`Within`), a position inside the log, and that rows are read only
into an open transaction; it holds of every workload. `Faithful` adds what the log says (`Logged`: the k-th
events are those of a plain transaction, whose truth is `committed[k]`), what has been returned (`Told`) and
where the iterator is (`Where`): between two transactions it is `Fresh`, inside one it has read the rows of the
first p statements, `SoFar`, and its last table map is that of the statement whose rows come next, `Ahead`.
Nothing of this is visible to the iterator, which keeps no count of statements.

**TxnIndex.** `Unobstructed`: a command about to publish looked at its output when it was absent, and nobody else
creates it; an update in place never comes so far, since the index it read is still there when it looks.
`Faithful` says of every index on disk, and of the entries every command has so far, that they are `Right` about
each file that is `Fresh`, still as it was listed: no transaction is missing, none is there twice, and they
are in order. About a file that has changed nothing is claimed, and since modification times never repeat it
will never be fresh again. That is why a stale index may be copied from, and why CURRENT, which means that all
files are fresh, is enough for `CurrentIsComplete`.

**Folds and data.** `Execute`, `ResolvedOperations`, the sizes and column changes of a transaction and the merging
of entries are folds over sequences of any length, written as recursive functions. `DataInduction` has what is
needed to reason about them: `LeastElement`, `InductionTo` (induction up to a number, over a set instead of a
predicate) and `RecursionTo` (a recursive definition has a solution), all from the well-foundedness of `<` on
the natural numbers.

Checked by TLC only:

- Liveness (`RunEnds`, `TransactionEnds`, `Delivered`, `Answered`, `NoLeak`), which needs ENABLED.

`TypeOK` of BinlogAssembly and of TxnIndex and `ChainsAreLines` are definitions no run lists: the first two say
little beyond types (the first is proved, what matters of the second is in `Faithful`), the last follows from
`ImplementsLedger`.

## 6. Not modelled

- Formatting, logging, redaction, build info, exit codes, flags that only select or display, and the time
  windows of `txn list` beyond their deadline.
- Policies: merging and validating them, passwords from the environment. What they limit (depth of a chain,
  rows, bytes, transactions) are constants.
- Doctor's checks of server variables, versions and privileges, and the text of the GRANT file: they only read,
  or nobody reads them. The SQL of the schema inspector; a fingerprint is a version. Changes of a column's type
  under the same name in the middle of a log are not seen, neither by the code nor by the model.
- The text of canonical JSON and SHA-256: a digest stands for its body.
- Where a write was cut, beyond what a reader can tell. A plan file that is cut short does not parse, or its
  digest does not match. `unredo.yaml` is cut after a profile or inside one (section 2); a cut inside the lines of
  a policy, which come last, leaves a profile whose limits are smaller, merged with the defaults or refused; it
  counts as the whole profile or as a stub.
- `index query` and the registry beyond one lookup: filters without state.
- A ROLLBACK on a connection that is healthy but silent: it runs on a context without deadline, `RunEnds`
  does not cover it.
- `Check` compares every operation with the rows before the plan, so a transaction that touches a row twice
  always conflicts. This is a limit of the tool; `NoFalseConflict` and `ResolvedEffect` say `TouchedOnce`.
- `Find` of a GTID that is not in a growing log waits for ever: `txn show` gives it no deadline. There is
  nothing to check beyond the absence of a bound.

## 7. Plan

1. *ApplyProtocol, Compensation, BinlogAssembly, TxnIndex*: done, the first with its proofs.
2. *LocalEventStream, ValueCodec, Workspace*, their proofs and TxnIndex's `NeverOverwritten`: done.
3. *Proofs* of Compensation, BinlogAssembly and `CurrentIsComplete`: done.
4. *Composition*: the stream as the source of BinlogAssembly's iterator, where now each has an abstract other.
5. *Depth*: several tables in Compensation (keys are chosen per table), column types beside column names in
   BinlogAssembly, composite values in JSON documents.
