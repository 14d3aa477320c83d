------------------------------ MODULE Workspace ------------------------------
(***************************************************************************)
(* The directory an operator works in: unredo.yaml with its profiles, the  *)
(* GRANT files, the plan files, and the commands that read and write them  *)
(* in place: `init`, `doctor`, `plan create / check / resolve / apply` and *)
(* `action verify`.  Several of them may run, be killed between any two of *)
(* their steps or in the middle of a write, wait at a prompt, or find a    *)
(* file somebody else is writing or has edited; addresses may fail over to *)
(* another server.                                                         *)
(*                                                                         *)
(* A plan file is what it says (body) with the digest it declares; a       *)
(* digest stands for the body it was computed from.  What a plan does to   *)
(* rows is the subject of Compensation, how of ApplyProtocol: here it is   *)
(* applied in one step, or fails, or its outcome remains unknown.          *)
(***************************************************************************)
EXTENDS Naturals

CONSTANTS
  Command,         \* invocations of the CLI
  Jobs,            \* what they may be asked to do
  ProfileName, Address, Server, Path,
  Configs,         \* what unredo.yaml may hold at first
  Plans,           \* the plans (of an earlier command, None) that may be there at first, at First
  First,
  None,
  Torn,            \* a file that was truncated or cut short and does not parse
  Stub,            \* a profile whose lines are cut short: it parses, and no command can use it
  Rank,            \* the place of a profile in the file: YAML is written with its names sorted
  OneInit,         \* whether there is one `init` at a time
  SteadyAddresses, \* whether addresses fail over only between commands
  MaxFailovers,    \* bound: failovers
  MaxEdits         \* bound: plan files edited by hand

Body      == [id : Command \cup {None}, instance : Server,
              class : {"safe", "unsafe_resolved"}, edited : BOOLEAN]
PlanFile  == [digest : Body, body : Body]
Profile   == [source : Address, target : Address, oneUser : BOOLEAN]   \* one account for both
Whole     == [ProfileName -> Profile \cup {None}]
Config    == [ProfileName -> Profile \cup {None, Stub}]
NoProfile == [n \in ProfileName |-> None]
Kinds     == {"init", "doctor", "create", "check", "resolve", "apply", "verify"}

ASSUME WorkspaceAssumption ==
  /\ None \notin Profile \cup PlanFile \cup Config \cup Server \cup Body \cup Address \cup Jobs
  /\ Torn \notin PlanFile \cup Config \cup {None} /\ Stub \notin Profile \cup {None}
  /\ Rank \in [ProfileName -> Nat] /\ \A m, n \in ProfileName : Rank[m] = Rank[n] => m = n
  /\ \A j \in Jobs :
       /\ j.kind \in Kinds /\ j.profile \in ProfileName
       /\ j.kind = "init" => /\ j.source \in Address /\ j.target \in Address \cup {None}
                             /\ {j.oneUser, j.overwrite, j.applyMeta, j.skipDoctor} \subseteq BOOLEAN
       /\ j.kind \in {"create", "resolve"} => j.out \in Path
       /\ j.kind \in {"check", "resolve", "apply", "verify"} => j.path \in Path
       /\ j.kind = "verify" => j.action \in Command
  /\ Configs \subseteq Whole \cup {None} /\ Plans \subseteq PlanFile /\ First \in Path
  /\ {OneInit, SteadyAddresses} \subseteq BOOLEAN /\ {MaxFailovers, MaxEdits} \subseteq Nat

VARIABLES
  config,     \* unredo.yaml
  grants,     \* the profiles whose GRANT file exists
  files,      \* per path: a plan file, Torn or None
  serves,     \* per address: the server behind it
  meta,       \* per server: unredo_meta is "none", "database" (without its table) or "table"
  markers,    \* the committed compensations: [server, body, by]
  run,        \* per command: where it is and what it has in memory
  saved,      \* what every profile is that `init` set out to save last
  cut,        \* the profiles an `init` that died in its write has left out, or cut short
  noted,      \* the digests of the plans that were written, which an operator may know
  failovers, edits

world == <<config, grants, files, serves, meta, markers, saved, cut, noted, failovers, edits>>
vars  == <<world, run>>

\* cfg: the configuration `init` has loaded; source, target: the servers' UUIDs when the command
\* connected first; at: the server it has examined or written; said: its result.
Fresh == [job |-> None, pc |-> "idle", cfg |-> None, profile |-> None, plan |-> None,
          source |-> None, target |-> None, at |-> None, typed |-> None, accepted |-> None,
          said |-> "nothing"]

\* An ended command failed, was killed or has nothing to say; one that is done has.
Ended        == {"done", "ended"}
Connected(c) == run[c].pc \in {"check", "confirm", "execute", "ask", "examine", "migrate",
                               "create database", "look for table", "create table"}

Goto(c, l)   == run' = [run EXCEPT ![c].pc = l]
Exit(c)      == run' = [run EXCEPT ![c] = [Fresh EXCEPT !.pc = "ended"]]
Job(c)       == run[c].job

Init ==
  /\ config \in Configs
  /\ grants = {} /\ markers = {} /\ cut = {}
  /\ \E plan \in Plans \cup {None} :
       /\ files = [p \in Path |-> IF p = First THEN plan ELSE None]
       /\ noted = IF plan = None THEN {} ELSE {plan.digest}
  /\ serves \in [Address -> Server]
  /\ \E m \in {"none", "table"} : meta = [s \in Server |-> m]   \* nothing is installed, or all is
  /\ run = [c \in Command |-> Fresh]
  /\ saved = IF config = None THEN NoProfile ELSE config
  /\ failovers = 0 /\ edits = 0

Begin(c, job) ==
  /\ run[c].pc = "idle"
  /\ run' = [run EXCEPT ![c].job = job,
                        ![c].pc = CASE job.kind = "init" -> "load"
                                    [] job.kind \in {"doctor", "create"} -> "backend"
                                    [] OTHER -> "read"]
  /\ UNCHANGED world

-----------------------------------------------------------------------------
(* init.                                                                    *)

\* loadConfigForInit: only a file that is not there gives an empty configuration.
\* (The first one is a faulty variant that starts afresh after any error.)
LoadForInitFresh(content) == IF content \in {None, Torn} THEN NoProfile ELSE content
LoadForInit(content)      == IF content = None THEN NoProfile ELSE content

Saving(c) == run[c].pc \in {"save", "fill config"}

\* The configuration is read; neither a profile nor a GRANT file is replaced unasked.
InitLoad(c) ==
  LET cfg == LoadForInit(config) IN
  /\ run[c].pc = "load"
  /\ OneInit => \A d \in Command : ~Saving(d)
  /\ IF cfg = Torn \/ (~Job(c).overwrite /\ (cfg[Job(c).profile] # None \/ Job(c).profile \in grants))
     THEN Exit(c)
     ELSE run' = [run EXCEPT ![c].pc = "save", ![c].cfg = cfg]
  /\ UNCHANGED world

\* What it is going to write; --target-address is --address if it is not given.
\* (The first one is a faulty variant that leaves it open.)
NewProfileOpen(job) == [source |-> job.source, target |-> job.target, oneUser |-> job.oneUser]
NewProfile(job)     == [source |-> job.source,
                        target |-> IF job.target = None THEN job.source ELSE job.target,
                        oneUser |-> job.oneUser]
Written(c)          == [run[c].cfg EXCEPT ![Job(c).profile] = NewProfile(Job(c))]

\* What is read of a file that was cut short: the profiles that come before some n, of n nothing
\* or a stub, and nothing of those that come after it.  A cut anywhere else does not parse.
PrefixesOf(cfg) ==
  {[m \in ProfileName |-> IF Rank[m] < Rank[n] THEN cfg[m]
                          ELSE IF m = n /\ cfg[n] # None THEN rest ELSE None] :
     n \in ProfileName, rest \in {None, Stub}}

\* After the prompt os.WriteFile truncates the file ...
TruncateConfig(c) ==
  /\ run[c].pc = "save"
  /\ config' = Torn
  /\ saved' = [saved EXCEPT ![Job(c).profile] = NewProfile(Job(c))]
  /\ Goto(c, "fill config")
  /\ UNCHANGED <<grants, files, serves, meta, markers, cut, noted, failovers, edits>>

\* ... writes a part of it that can be read, somewhere on the way, ...
WritePart(c) ==
  /\ run[c].pc = "fill config" /\ config = Torn
  /\ config' \in PrefixesOf(Written(c))
  /\ UNCHANGED <<grants, files, serves, meta, markers, run, saved, cut, noted, failovers, edits>>

\* ... and the rest.
FillConfig(c) ==
  /\ run[c].pc = "fill config"
  /\ config' = Written(c)
  /\ cut' = cut \ {Job(c).profile}
  /\ run' = [run EXCEPT ![c].pc = "grants", ![c].cfg = None]
  /\ UNCHANGED <<grants, files, serves, meta, markers, saved, noted, failovers, edits>>

\* `init` ends with doctor, if it is not told to leave it out.
Setup(c) == IF Job(c).skipDoctor THEN "done" ELSE "backend"

WriteGrants(c) ==
  /\ run[c].pc = "grants"
  /\ grants' = grants \cup {Job(c).profile}
  /\ Goto(c, IF Job(c).applyMeta THEN "migrate" ELSE Setup(c))
  /\ UNCHANGED <<config, files, serves, meta, markers, saved, cut, noted, failovers, edits>>

\* ApplyMetaMigration, on one connection: look for the database, create it if it is not there,
\* then the same for the table.
\* (The first one is a faulty variant: where there is the database there is the table.)
AfterDatabaseDone(exists)  == IF exists THEN "migrated" ELSE "create database"
AfterDatabaseFound(exists) == IF exists THEN "look for table" ELSE "create database"
FindDatabase(c) ==
  LET s == serves[NewProfile(Job(c)).target]
      l == AfterDatabaseFound(meta[s] # "none")
  IN  /\ run[c].pc = "migrate"
      /\ run' = [run EXCEPT ![c].at = s,
                            ![c].pc = IF l = "migrated" THEN Setup(c) ELSE l,
                            ![c].said = IF l = "migrated" THEN "meta applied" ELSE @]
      /\ UNCHANGED world

CreateDatabase(c) ==
  LET s == run[c].at IN
  /\ run[c].pc = "create database"
  /\ meta' = [meta EXCEPT ![s] = IF @ = "none" THEN "database" ELSE @]   \* IF NOT EXISTS
  /\ Goto(c, "look for table")
  /\ UNCHANGED <<config, grants, files, serves, markers, saved, cut, noted, failovers, edits>>

FindTable(c) ==
  LET found == meta[run[c].at] = "table" IN
  /\ run[c].pc = "look for table"
  /\ run' = [run EXCEPT ![c].pc = IF found THEN Setup(c) ELSE "create table",
                        ![c].said = IF found THEN "meta applied" ELSE @]
  /\ UNCHANGED world

CreateTable(c) ==
  /\ run[c].pc = "create table"
  /\ meta' = [meta EXCEPT ![run[c].at] = "table"]
  /\ run' = [run EXCEPT ![c].pc = Setup(c), ![c].said = "meta applied"]
  /\ UNCHANGED <<config, grants, files, serves, markers, saved, cut, noted, failovers, edits>>

-----------------------------------------------------------------------------
(* Plan files.                                                              *)

\* ReadFile: a file that is cut short does not parse, an edited one has not its digest.
\* (The first one is a faulty variant that does not compute the digest.)
ReadableUnchecked(content) == content \notin {None, Torn}
Readable(content)          == content \notin {None, Torn} /\ content.digest = content.body

ReadPlan(c) ==
  LET content == files[Job(c).path] IN
  /\ run[c].pc = "read"
  /\ IF Readable(content) THEN run' = [run EXCEPT ![c].pc = "backend", ![c].plan = content]
                          ELSE Exit(c)
  /\ UNCHANGED world

\* WriteFileLimited truncates a file that is there already.
TruncatePlan(c) ==
  /\ run[c].pc = "write"
  /\ files' = [files EXCEPT ![Job(c).out] = Torn]
  /\ Goto(c, "fill plan")
  /\ UNCHANGED <<config, grants, serves, meta, markers, saved, cut, noted, failovers, edits>>

\* The plan is written: from now on its digest can be known, from what the command prints or
\* from the file.
FillPlan(c) ==
  /\ run[c].pc = "fill plan"
  /\ files' = [files EXCEPT ![Job(c).out] = run[c].plan]
  /\ noted' = noted \cup {run[c].plan.digest}
  /\ Exit(c)
  /\ UNCHANGED <<config, grants, serves, meta, markers, saved, cut, failovers, edits>>

NewPlan(c, instance, class) ==
  LET body == [id |-> c, instance |-> instance, class |-> class, edited |-> FALSE]
  IN  [digest |-> body, body |-> body]

-----------------------------------------------------------------------------
(* The commands that use a profile.                                         *)

AfterBackend(c) ==
  CASE Job(c).kind \in {"init", "doctor"} -> "examine"
    [] Job(c).kind = "create" -> "write"
    [] Job(c).kind \in {"check", "resolve"} -> "check"
    [] Job(c).kind = "apply"  -> "confirm"
    [] Job(c).kind = "verify" -> "ask"

\* resolveBackend: the profile is read and NewBackend asks the servers behind both addresses for
\* their UUIDs, once.  A profile that was cut short has no source.mode, or no account to connect
\* with.  `plan create` has its plan after it has read the source's binlog.
ResolveBackend(c) ==
  LET p == IF config \in {None, Torn} THEN None ELSE config[Job(c).profile] IN
  /\ run[c].pc = "backend"
  /\ IF p \in {None, Stub} THEN Exit(c)
     ELSE run' = [run EXCEPT ![c].pc = AfterBackend(c), ![c].profile = p,
                             ![c].source = serves[p.source], ![c].target = serves[p.target],
                             ![c].plan = IF Job(c).kind = "create"
                                         THEN NewPlan(c, serves[p.source], "safe") ELSE @]
  /\ UNCHANGED world

\* Every later connection goes to the server that is behind the address then.
Target(c) == serves[run[c].profile.target]

\* Check and verifyActionOutcome compare the plan's instance with the UUID of the target.
\* (The first one is a faulty variant that takes the source's.)
SourceMatches(c)   == run[c].plan.body.instance = run[c].source
InstanceMatches(c) == run[c].plan.body.instance = run[c].target

\* The command says its result and ends; what it leaves is what it was told and what it did.
Say(c, result, s) ==
  run' = [run EXCEPT ![c] = [Fresh EXCEPT !.job = Job(c), !.plan = run[c].plan, !.typed = run[c].typed,
                                          !.accepted = run[c].accepted, !.pc = "done",
                                          !.said = result, !.at = s]]

\* `plan check` reports; `plan resolve` goes on if there are row conflicts, and needs decisions.
Check(c) ==
  /\ run[c].pc = "check"
  /\ IF ~InstanceMatches(c) THEN Exit(c)
     ELSE \/ Job(c).kind = "check" /\ \E result \in {"ready", "conflict"} : Say(c, result, Target(c))
          \/ /\ Job(c).kind = "resolve"
             /\ run' = [run EXCEPT ![c].pc = "write", ![c].at = Target(c),
                                   ![c].plan = NewPlan(c, @.body.instance, "unsafe_resolved")]
  /\ UNCHANGED world

\* The gates of `plan apply`: the digest the operator confirms, at the prompt or with
\* --confirm-sha, and for a resolved plan the one given with --accept-risk, which
\* nobody looks at otherwise.
Confirmed(plan, typed, accepted) ==
  /\ typed = plan.digest
  /\ plan.body.class = "unsafe_resolved" => accepted = plan.digest
Confirm(c, typed, accepted) ==
  /\ run[c].pc = "confirm"
  /\ run[c].plan.body.class = "safe" => accepted = None
  /\ IF Confirmed(run[c].plan, typed, accepted)
     THEN run' = [run EXCEPT ![c].pc = "execute", ![c].typed = typed, ![c].accepted = accepted]
     ELSE Exit(c)
  /\ UNCHANGED world

\* Backend.Apply: done, done or not and nobody knows, done and killed before it says so, or not
\* done.
Execute(c) ==
  LET s    == Target(c)
      body == run[c].plan.body
      can  == /\ InstanceMatches(c)
              /\ meta[s] = "table"
              /\ \A m \in markers : m.server = s => m.body # body
  IN  /\ run[c].pc = "execute"
      /\ \/ /\ can
            /\ markers' = markers \cup {[server |-> s, body |-> body, by |-> c]}
            /\ \E result \in {"applied", "unknown", "nothing"} : Say(c, result, s)
         \/ can /\ Say(c, "unknown", s) /\ UNCHANGED markers
         \/ Exit(c) /\ UNCHANGED markers
      /\ UNCHANGED <<config, grants, files, serves, meta, saved, cut, noted, failovers, edits>>

\* `action verify`: the marker of the given action, which must be that of the plan.
\* (The first one is a faulty variant that compares the source transaction only.)
SamePlanBySource(m, plan) == m.body.instance = plan.body.instance
SamePlan(m, plan)         == m.body = plan.body
Found(c)  == {m \in markers : m.server = Target(c) /\ m.by = Job(c).action}
Verify(c) ==
  /\ run[c].pc = "ask"
  /\ Say(c, IF ~InstanceMatches(c) \/ meta[Target(c)] # "table" THEN "indeterminate"
            ELSE IF Found(c) = {} THEN "not committed"
            ELSE IF \A m \in Found(c) : SamePlan(m, run[c].plan) THEN "committed"
            ELSE "indeterminate", Target(c))
  /\ UNCHANGED world

\* `doctor`, alone or at the end of `init`: the target's marker table must be there; but if both
\* connections have one DSN, nothing is asked of the target.
HasMarkers(s) == meta[s] = "table"
OneDSN(p)     == p.source = p.target /\ p.oneUser
Examine(c) ==
  /\ run[c].pc = "examine"
  /\ IF OneDSN(run[c].profile) \/ HasMarkers(Target(c)) THEN Say(c, "passed", Target(c)) ELSE Exit(c)
  /\ UNCHANGED world

-----------------------------------------------------------------------------
(* The environment (external).                                              *)

\* A process is killed, or a call of its own fails: it stops where it is, and what it has written
\* of a file stays.
Kill(c) ==
  /\ run[c].pc \notin Ended \cup {"idle"}
  /\ Exit(c)
  /\ cut' = IF run[c].pc = "fill config" /\ config \in Config
            THEN {n \in ProfileName : config[n] # saved[n]} ELSE cut
  /\ UNCHANGED <<config, grants, files, serves, meta, markers, saved, noted, failovers, edits>>

\* Another server takes over an address.
Failover(a, s) ==
  /\ failovers < MaxFailovers /\ s # serves[a]
  /\ SteadyAddresses => \A c \in Command : ~Connected(c)
  /\ serves' = [serves EXCEPT ![a] = s] /\ failovers' = failovers + 1
  /\ UNCHANGED <<config, grants, files, meta, markers, run, saved, cut, noted, edits>>

\* Somebody changes a plan file and leaves its digest as it is.
Edit(p) ==
  /\ edits < MaxEdits /\ files[p] \notin {None, Torn}
  /\ files' = [files EXCEPT ![p].body.edited = TRUE] /\ edits' = edits + 1
  /\ UNCHANGED <<config, grants, serves, meta, markers, run, saved, cut, noted, failovers>>

InitSteps(c) == \/ InitLoad(c) \/ TruncateConfig(c) \/ WritePart(c) \/ FillConfig(c)
                \/ WriteGrants(c) \/ FindDatabase(c) \/ CreateDatabase(c) \/ FindTable(c) \/ CreateTable(c)
PlanSteps(c) == \/ ReadPlan(c) \/ ResolveBackend(c) \/ Check(c) \/ TruncatePlan(c) \/ FillPlan(c)
                \/ \E typed \in noted, accepted \in noted \cup {None} : Confirm(c, typed, accepted)
                \/ Execute(c) \/ Verify(c) \/ Examine(c)

Next ==
  \/ \E c \in Command : \/ \E job \in Jobs : Begin(c, job)
                        \/ InitSteps(c) \/ PlanSteps(c) \/ Kill(c)
  \/ \E a \in Address, s \in Server : Failover(a, s)
  \/ \E p \in Path : Edit(p)

Spec == Init /\ [][Next]_vars

-----------------------------------------------------------------------------
(* What must be true.                                                      *)

Labels == {"idle", "load", "save", "fill config", "grants", "migrate", "create database",
           "look for table", "create table", "read", "backend", "check", "confirm", "execute",
           "ask", "examine", "write", "fill plan", "done", "ended"}
Words  == {"nothing", "meta applied", "passed", "ready", "conflict", "applied", "unknown",
           "committed", "not committed", "indeterminate"}
Invocation ==
  [job : Jobs \cup {None}, pc : Labels, said : Words,
   cfg : Config \cup {None}, profile : Profile \cup {None}, plan : PlanFile \cup {None},
   source : Server \cup {None}, target : Server \cup {None}, at : Server \cup {None},
   typed : Body \cup {None}, accepted : Body \cup {None}]

\* The type invariant of the directory, the servers and the commands.
TypeOK ==
  /\ config \in Config \cup {None, Torn} /\ saved \in Whole /\ cut \subseteq ProfileName
  /\ grants \subseteq ProfileName
  /\ files \in [Path -> PlanFile \cup {None, Torn}]
  /\ serves \in [Address -> Server] /\ meta \in [Server -> {"none", "database", "table"}]
  /\ markers \subseteq [server : Server, body : Body, by : Command]
  /\ noted \subseteq Body
  /\ run \in [Command -> Invocation]
  /\ failovers \in 0..MaxFailovers /\ edits \in 0..MaxEdits

\* What is applied is, to the letter, what the operator confirmed by its digest to the very command
\* that applied it, and accepted the risk of if it is a resolved plan: whatever was written over
\* the file, torn or edited in it meanwhile.
AppliedAsConfirmed ==
  \A m \in markers :
    /\ run[m.by].typed = m.body
    /\ m.body.class = "unsafe_resolved" => run[m.by].accepted = m.body

\* What a command says of a plan, and does with it, is about the server the plan was made for,
\* whatever profiles and addresses have become since.
RightServer ==
  \A c \in Command :
    run[c].said \in {"ready", "conflict", "applied", "unknown", "committed", "not committed"} =>
      run[c].at = run[c].plan.body.instance

\* A verdict COMMITTED is about a compensation that is there, and it did what the plan in the
\* operator's hands says, although plan files are written over and commands are restarted.
VerdictIsOfPlan ==
  \A c \in Command : run[c].said = "committed" =>
    \E m \in markers : /\ m.server = run[c].plan.body.instance
                       /\ m.body = run[c].plan.body /\ m.by = Job(c).action

\* A configuration that can be read holds nothing but profiles as they were saved last, and holds
\* each of them, except those an `init` that died in the middle of its write has left out or cut
\* short, and those one is about to write: whatever other `init`s make of what it left.
ProfilesAreKept ==
  config \in Config =>
    \A n \in ProfileName :
      \/ config[n] = saved[n]
      \/ config[n] \in {None, Stub} /\ (n \in cut \/ \E c \in Command : run[c].pc = "fill config")

\* After an `init` that said "meta_schema: applied", or a doctor that found nothing to complain of,
\* the server has the marker table: `plan apply` does not fail for want of it, however many
\* migrations ran at once or were interrupted before.
MetaStands ==
  \A c \in Command : run[c].said \in {"meta applied", "passed"} => meta[run[c].at] = "table"
=============================================================================
