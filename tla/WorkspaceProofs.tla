-------------------------- MODULE WorkspaceProofs ---------------------------
(***************************************************************************)
(* What Workspace promises, for any number of commands, profiles, servers  *)
(* and plan files: what is applied was confirmed, a migration that said so *)
(* has been done, no profile is lost but by a write that was cut short,    *)
(* and, as long as no address fails over while a command uses it,          *)
(* everything is about the right server.                                   *)
(***************************************************************************)
EXTENDS Workspace, TLAPS

InitLabels == {"load", "save", "fill config", "grants", "migrate", "create database",
               "look for table", "create table"}

\* What a command has in memory at each of its steps.
Place(r) ==
  /\ r.pc \notin {"idle", "ended"} => r.job \in Jobs
  /\ r.pc \in InitLabels => r.job.kind = "init"
  /\ r.pc \in {"save", "fill config"} => r.cfg \in Config
  /\ r.pc \in {"create database", "look for table", "create table"} => r.at \in Server
  /\ r.pc = "read" => r.job.kind \in {"check", "resolve", "apply", "verify"}
  /\ r.pc = "backend" /\ r.job.kind \in {"check", "resolve", "apply", "verify"} =>
       r.plan \in PlanFile
  /\ r.pc \in {"check", "confirm", "execute", "ask", "examine"} => r.profile \in Profile
  /\ r.pc \in {"check", "confirm", "execute", "ask", "write", "fill plan"} => r.plan \in PlanFile
  /\ r.pc \in {"write", "fill plan"} => r.job.kind \in {"create", "resolve"}
  /\ r.pc = "check" => r.job.kind \in {"check", "resolve"}
  /\ \/ r.said = "nothing" \/ r.pc = "done"
     \/ r.said = "meta applied" /\ r.job.kind = "init" /\ r.pc \in {"backend", "examine"}

Places == \A c \in Command : Place(run[c])

\* A plan in memory has the digest it declares.
Intact == \A c \in Command : run[c].plan # None => run[c].plan.digest = run[c].plan.body

Safe == TypeOK /\ Places /\ Intact

-----------------------------------------------------------------------------
(* Steps of one command.                                                   *)

LEMMA FreshFacts ==
  /\ Fresh \in Invocation
  /\ LET e == [Fresh EXCEPT !.pc = "ended"] IN
       /\ e \in Invocation /\ Place(e) /\ e.plan = None /\ e.said = "nothing" /\ e.pc = "ended"
       /\ e.profile = None /\ e.cfg = None
  /\ Place(Fresh) /\ Fresh.plan = None /\ Fresh.said = "nothing" /\ Fresh.pc = "idle"
BY DEF Fresh, Invocation, Place, InitLabels, Labels, Words

\* A command that ends changes nothing of the others and has nothing in memory.
LEMMA ExitStep ==
  ASSUME Safe, NEW c \in Command, Exit(c)
  PROVE  /\ run' \in [Command -> Invocation] /\ Places' /\ Intact'
         /\ \A d \in Command \ {c} : run'[d] = run[d]
         /\ run'[c].pc = "ended" /\ run'[c].said = "nothing" /\ run'[c].plan = None
         /\ run'[c].profile = None /\ run'[c].cfg = None
<1>1. /\ \A d \in Command \ {c} : run'[d] = run[d]
      /\ run'[c] = [Fresh EXCEPT !.pc = "ended"]
      /\ run' \in [Command -> Invocation]
  BY FreshFacts DEF Safe, TypeOK, Exit
<1> QED BY <1>1, FreshFacts, ZenonT(40) DEF Safe, Places, Intact

\* A step of one command keeps what the others have.
LEMMA OwnStep ==
  ASSUME Safe, NEW c \in Command, NEW r \in Invocation, Place(r),
         r.plan # None => r.plan.digest = r.plan.body,
         run' = [run EXCEPT ![c] = r]
  PROVE  /\ run' \in [Command -> Invocation] /\ Places' /\ Intact'
         /\ \A d \in Command \ {c} : run'[d] = run[d]
         /\ run'[c] = r
BY DEF Safe, TypeOK, Places, Intact

\* What a step of a command must leave of the variables other than run.
Types ==
  /\ config \in Config \cup {None, Torn} /\ saved \in Whole /\ cut \subseteq ProfileName
  /\ grants \subseteq ProfileName
  /\ files \in [Path -> PlanFile \cup {None, Torn}]
  /\ serves \in [Address -> Server] /\ meta \in [Server -> {"none", "database", "table"}]
  /\ markers \subseteq [server : Server, body : Body, by : Command]
  /\ noted \subseteq Body
  /\ failovers \in 0..MaxFailovers /\ edits \in 0..MaxEdits

\* A step that changes run and nothing else.
LEMMA RunStep ==
  ASSUME Safe, UNCHANGED world, run' \in [Command -> Invocation], Places', Intact'
  PROVE  Safe'
BY DEF Safe, TypeOK, world

LEMMA WorldStep ==
  ASSUME Types', run' \in [Command -> Invocation], Places', Intact'
  PROVE  Safe'
BY DEF Safe, TypeOK, Types

LEMMA JobFacts ==
  \A j \in Jobs :
    /\ j # None /\ j.kind \in Kinds /\ j.profile \in ProfileName
    /\ j.kind = "init" => /\ j.source \in Address /\ j.target \in Address \cup {None}
                          /\ {j.oneUser, j.overwrite, j.applyMeta, j.skipDoctor} \subseteq BOOLEAN
                          /\ NewProfile(j) \in Profile
    /\ j.kind \in {"create", "resolve"} => j.out \in Path
    /\ j.kind \in {"check", "resolve", "apply", "verify"} => j.path \in Path
<1>1. ASSUME NEW j \in Jobs, j.kind = "init" PROVE NewProfile(j) \in Profile
  BY <1>1, WorkspaceAssumption DEF NewProfile, Profile
<1> QED BY <1>1, WorkspaceAssumption

LEMMA NoneFacts ==
  /\ None \notin Profile /\ None \notin PlanFile /\ None \notin Config
  /\ None \notin Server /\ None \notin Body
  /\ Torn \notin Config /\ Torn \notin PlanFile /\ Torn # None
  /\ Stub \notin Profile /\ Stub # None
  /\ NoProfile \in Whole /\ \A cfg \in Whole : cfg \in Config
BY WorkspaceAssumption DEF Config, Whole, NoProfile

\* A part of a configuration is one, with the profiles it has, without them or with stubs.
LEMMA PrefixFacts ==
  ASSUME NEW cfg \in Config, NEW part \in PrefixesOf(cfg)
  PROVE  /\ part \in Config
         /\ \A n \in ProfileName : part[n] \in {cfg[n], None, Stub}
<1>1. PICK n \in ProfileName, rest \in {None, Stub} :
        part = [m \in ProfileName |-> IF Rank[m] < Rank[n] THEN cfg[m]
                                     ELSE IF m = n /\ cfg[n] # None THEN rest ELSE None]
  BY DEF PrefixesOf
<1>2. \A m \in ProfileName : part[m] \in {cfg[m], None, Stub}
  BY <1>1
<1>3. \A m \in ProfileName : part[m] \in Profile \cup {None, Stub}
  BY <1>2 DEF Config
<1> QED BY <1>1, <1>2, <1>3 DEF Config

-----------------------------------------------------------------------------
(* The steps one by one.                                                   *)

LEMMA BeginStep ==
  ASSUME Safe, NEW c \in Command, NEW j \in Jobs, Begin(c, j)
  PROVE  Safe'
<1> DEFINE l == CASE j.kind = "init" -> "load"
                  [] j.kind \in {"doctor", "create"} -> "backend"
                  [] OTHER -> "read"
           r == [run[c] EXCEPT !.job = j, !.pc = l]
<1>1. run[c] \in Invocation /\ run[c].pc = "idle" /\ run[c].said = "nothing"
  BY DEF Safe, TypeOK, Begin, Places, Place
<1>2. run' = [run EXCEPT ![c] = r]
  BY DEF Begin, Safe, TypeOK
<1>3. l \in {"load", "backend", "read"} /\ (l = "load" => j.kind = "init")
      /\ (l = "backend" => j.kind \in {"doctor", "create"})
      /\ (l = "read" => j.kind \in {"check", "resolve", "apply", "verify"})
  BY JobFacts DEF Kinds
<1> HIDE DEF l
<1>4. r.job = j /\ r.pc = l /\ r.plan = run[c].plan /\ r.said = "nothing"
  BY <1>1 DEF Invocation
<1>9. l \in {"load", "backend", "read"}
  BY <1>3
<1>8. r \in Invocation
  BY <1>1, <1>9, ZenonT(40) DEF Invocation, Labels
<1>5. Place(r)
  BY <1>3, <1>4 DEF Place, InitLabels
<1>6. r.plan # None => r.plan.digest = r.plan.body
  BY <1>4 DEF Safe, Intact
<1>7. run' \in [Command -> Invocation] /\ Places' /\ Intact'
  BY <1>2, <1>8, <1>5, <1>6, OwnStep
<1> QED BY <1>7, RunStep DEF Begin

\* A step that only goes on to another label, and keeps what it has in memory.
LEMMA GotoStep ==
  ASSUME Safe, NEW c \in Command, NEW l, Goto(c, l),
         [run[c] EXCEPT !.pc = l] \in Invocation, Place([run[c] EXCEPT !.pc = l])
  PROVE  run' \in [Command -> Invocation] /\ Places' /\ Intact'
<1> DEFINE r == [run[c] EXCEPT !.pc = l]
<1>1. run' = [run EXCEPT ![c] = r]
  BY DEF Goto, Safe, TypeOK
<1>2. r.plan = run[c].plan
  BY DEF Safe, TypeOK, Invocation
<1> QED BY <1>1, <1>2, OwnStep DEF Safe, Intact

LEMMA InitLoadStep ==
  ASSUME Safe, NEW c \in Command, InitLoad(c)
  PROVE  Safe'
<1> DEFINE cfg == LoadForInit(config)
           r   == [run[c] EXCEPT !.pc = "save", !.cfg = cfg]
<1>1. run[c] \in Invocation /\ run[c].pc = "load" /\ run[c].job \in Jobs
      /\ run[c].job.kind = "init" /\ run[c].said = "nothing"
  BY DEF Safe, TypeOK, InitLoad, Places, Place, InitLabels
<1>2. CASE Exit(c)
  BY <1>2, ExitStep, RunStep DEF InitLoad
<1>3. CASE cfg # Torn /\ run' = [run EXCEPT ![c] = r]
  <2>1. cfg \in Config
    BY <1>3, NoneFacts DEF LoadForInit, Safe, TypeOK
  <2>2. r \in Invocation /\ r.job = run[c].job /\ r.pc = "save" /\ r.cfg = cfg
        /\ r.plan = run[c].plan /\ r.said = "nothing"
    BY <1>1, <2>1, ZenonT(40) DEF Invocation, Labels
  <2>3. Place(r)
    BY <1>1, <2>1, <2>2 DEF Place, InitLabels
  <2>4. run' \in [Command -> Invocation] /\ Places' /\ Intact'
    BY <1>3, <2>2, <2>3, OwnStep DEF Safe, Intact
  <2> QED BY <2>4, RunStep DEF InitLoad
<1>4. Exit(c) \/ (cfg # Torn /\ run' = [run EXCEPT ![c] = r])
  BY DEF InitLoad, Safe, TypeOK
<1> QED BY <1>2, <1>3, <1>4

\* A command goes on and says something.
LEMMA SayFacts ==
  \A q \in Invocation :
    \A l \in {"done", "backend", "create table"}, w \in {"meta applied", q.said} :
      [q EXCEPT !.pc = l, !.said = w] \in Invocation
<1> TAKE q \in Invocation
<1> TAKE l \in {"done", "backend", "create table"}, w \in {"meta applied", q.said}
<1>1. l \in Labels /\ w \in Words
  BY DEF Invocation, Labels, Words
<1> QED BY <1>1 DEF Invocation

\* What the record of a command that runs `init` gives.
LEMMA InitFacts ==
  ASSUME Safe, NEW c \in Command, run[c].pc \in InitLabels
  PROVE  /\ run[c] \in Invocation /\ run[c].job \in Jobs /\ run[c].job.kind = "init"
         /\ NewProfile(Job(c)) \in Profile /\ Job(c).profile \in ProfileName
         /\ Setup(c) \in {"done", "backend"} /\ Job(c) = run[c].job
         /\ Place(run[c]) /\ run[c].said = "nothing"
<1>1. run[c] \in Invocation /\ run[c].job \in Jobs /\ run[c].job.kind = "init"
  BY DEF Safe, TypeOK, Places, Place, InitLabels
<1>2. Place(run[c]) /\ run[c].said = "nothing"
  BY DEF Safe, Places, Place, InitLabels
<1> QED BY <1>1, <1>2, JobFacts DEF Job, Setup

LEMMA TruncateConfigStep ==
  ASSUME Safe, NEW c \in Command, TruncateConfig(c)
  PROVE  Safe'
<1>1. run[c].pc \in InitLabels /\ run[c].cfg \in Config
  BY DEF TruncateConfig, InitLabels, Safe, Places, Place
<1>2. [run[c] EXCEPT !.pc = "fill config"] \in Invocation
  BY <1>1, InitFacts, ZenonT(40) DEF Invocation, Labels
<1>3. Place([run[c] EXCEPT !.pc = "fill config"])
  BY <1>1, InitFacts DEF Place, InitLabels, Invocation
<1>4. run' \in [Command -> Invocation] /\ Places' /\ Intact'
  BY <1>2, <1>3, GotoStep DEF TruncateConfig
<1>5. saved' \in Whole
  BY <1>1, InitFacts DEF TruncateConfig, Whole, Safe, TypeOK
<1>6. Types'
  BY <1>5 DEF Safe, TypeOK, Types, TruncateConfig
<1> QED BY <1>4, <1>6, WorldStep

\* What a command is going to write is a configuration.
LEMMA WrittenFacts ==
  ASSUME Safe, NEW c \in Command, run[c].pc = "fill config"
  PROVE  /\ run[c].pc \in InitLabels /\ run[c].cfg \in Config /\ Written(c) \in Config
         /\ Written(c)[Job(c).profile] = NewProfile(Job(c))
         /\ \A n \in ProfileName : n # Job(c).profile => Written(c)[n] = run[c].cfg[n]
<1>1. run[c].pc \in InitLabels /\ run[c].cfg \in Config
  BY DEF InitLabels, Safe, Places, Place
<1>2. NewProfile(Job(c)) \in Profile /\ Job(c).profile \in ProfileName
  BY <1>1, InitFacts
<1> QED BY <1>1, <1>2 DEF Written, Config

LEMMA WritePartStep ==
  ASSUME Safe, NEW c \in Command, WritePart(c)
  PROVE  Safe'
<1>1. Written(c) \in Config
  BY WrittenFacts DEF WritePart
<1>2. config' \in Config
  BY <1>1, PrefixFacts DEF WritePart
<1> QED BY <1>2 DEF WritePart, Safe, TypeOK, Places, Intact

LEMMA FillConfigStep ==
  ASSUME Safe, NEW c \in Command, FillConfig(c)
  PROVE  Safe'
<1> DEFINE r == [run[c] EXCEPT !.pc = "grants", !.cfg = None]
<1>1. run[c].pc \in InitLabels /\ run[c].cfg \in Config
  BY DEF FillConfig, InitLabels, Safe, Places, Place
<1>2. r \in Invocation
  BY <1>1, InitFacts, ZenonT(40) DEF Invocation, Labels
<1>3. r.job = run[c].job /\ r.pc = "grants" /\ r.plan = run[c].plan /\ r.said = "nothing"
  BY <1>1, InitFacts DEF Invocation
<1>4. Place(r)
  BY <1>1, <1>3, InitFacts DEF Place, InitLabels
<1>5. run' = [run EXCEPT ![c] = r]
  BY DEF FillConfig, Safe, TypeOK
<1>6. run' \in [Command -> Invocation] /\ Places' /\ Intact'
  BY <1>2, <1>3, <1>4, <1>5, OwnStep DEF Safe, Intact
<1>7. config' \in Config /\ cut' \subseteq ProfileName
  BY <1>1, WrittenFacts DEF FillConfig, Safe, TypeOK
<1>8. Types'
  BY <1>7 DEF Safe, TypeOK, Types, FillConfig
<1> QED BY <1>6, <1>8, WorldStep

LEMMA WriteGrantsStep ==
  ASSUME Safe, NEW c \in Command, WriteGrants(c)
  PROVE  Safe'
<1> DEFINE l == IF Job(c).applyMeta THEN "migrate" ELSE Setup(c)
<1>1. run[c].pc \in InitLabels /\ l \in {"migrate", "done", "backend"}
  <2>1. run[c].pc \in InitLabels
    BY DEF WriteGrants, InitLabels
  <2> QED BY <2>1, InitFacts
<1>2. Goto(c, l)
  BY DEF WriteGrants
<1> HIDE DEF l
<1>3. [run[c] EXCEPT !.pc = l] \in Invocation
  BY <1>1, InitFacts, ZenonT(40) DEF Invocation, Labels
<1>4. Place([run[c] EXCEPT !.pc = l])
  BY <1>1, InitFacts DEF Place, InitLabels, Invocation
<1>5. run' \in [Command -> Invocation] /\ Places' /\ Intact'
  BY <1>2, <1>3, <1>4, GotoStep
<1>6. Types'
  BY <1>1, InitFacts DEF Safe, TypeOK, Types, WriteGrants
<1> QED BY <1>5, <1>6, WorldStep

LEMMA FindDatabaseStep ==
  ASSUME Safe, NEW c \in Command, FindDatabase(c)
  PROVE  Safe'
<1> DEFINE s == serves[NewProfile(Job(c)).target]
           l == IF meta[s] # "none" THEN "look for table" ELSE "create database"
           r == [run[c] EXCEPT !.at = s, !.pc = l]
<1>1. run[c].pc \in InitLabels
  BY DEF FindDatabase, InitLabels
<1>2. s \in Server /\ l \in {"look for table", "create database"}
  BY <1>1, InitFacts DEF Profile, Safe, TypeOK
<1>3. AfterDatabaseFound(meta[s] # "none") = l
  BY DEF AfterDatabaseFound
<1>4. run' = [run EXCEPT ![c] = r]
  <2>1. run' = [run EXCEPT ![c].at = s, ![c].pc = l, ![c].said = @]
    BY <1>2, <1>3 DEF FindDatabase
  <2> HIDE DEF s, l
  <2>2. r \in Invocation /\ [run[c] EXCEPT !.at = s, !.pc = l, !.said = @] = r
    BY <1>1, <1>2, InitFacts, ZenonT(40) DEF Invocation, Labels
  <2> QED BY <2>1, <2>2 DEF Safe, TypeOK
<1> HIDE DEF s, l
<1>5. r \in Invocation
  BY <1>1, <1>2, InitFacts, ZenonT(40) DEF Invocation, Labels
<1>6. r.job = run[c].job /\ r.pc = l /\ r.plan = run[c].plan /\ r.at = s /\ r.said = "nothing"
  BY <1>1, <1>2, InitFacts DEF Invocation
<1>7. Place(r)
  BY <1>1, <1>2, <1>6, InitFacts DEF Place, InitLabels
<1>8. run' \in [Command -> Invocation] /\ Places' /\ Intact'
  BY <1>4, <1>5, <1>6, <1>7, OwnStep DEF Safe, Intact
<1> QED BY <1>8, RunStep DEF FindDatabase

LEMMA CreateDatabaseStep ==
  ASSUME Safe, NEW c \in Command, CreateDatabase(c)
  PROVE  Safe'
<1>1. run[c].pc \in InitLabels /\ run[c].at \in Server
  BY DEF CreateDatabase, InitLabels, Safe, Places, Place
<1>2. [run[c] EXCEPT !.pc = "look for table"] \in Invocation
  BY <1>1, InitFacts, ZenonT(40) DEF Invocation, Labels
<1>3. Place([run[c] EXCEPT !.pc = "look for table"])
  BY <1>1, InitFacts DEF Place, InitLabels, Invocation
<1>4. run' \in [Command -> Invocation] /\ Places' /\ Intact'
  BY <1>2, <1>3, GotoStep DEF CreateDatabase
<1>5. Types'
  BY <1>1 DEF Safe, TypeOK, Types, CreateDatabase
<1> QED BY <1>4, <1>5, WorldStep

LEMMA FindTableStep ==
  ASSUME Safe, NEW c \in Command, FindTable(c)
  PROVE  Safe'
<1> DEFINE found == meta[run[c].at] = "table"
           l == IF found THEN Setup(c) ELSE "create table"
           w == IF found THEN "meta applied" ELSE run[c].said
           r == [run[c] EXCEPT !.pc = l, !.said = w]
<1>1. run[c].pc \in InitLabels /\ run[c].at \in Server /\ run[c] \in Invocation
  BY DEF FindTable, InitLabels, Safe, Places, Place, TypeOK
<1>2. /\ l \in {"done", "backend", "create table"} /\ w \in {"meta applied", run[c].said}
      /\ w = "nothing" \/ (w = "meta applied" /\ l \in {"done", "backend"})
  BY <1>1, InitFacts
<1>3. run' = [run EXCEPT ![c] = r]
  BY DEF FindTable, Safe, TypeOK
<1> HIDE DEF l, w
<1>4. r \in Invocation
  BY <1>1, <1>2, SayFacts
<1>5. /\ r.job = run[c].job /\ r.pc = l /\ r.plan = run[c].plan /\ r.at = run[c].at
      /\ r.said = w
  BY <1>1 DEF Invocation
<1>6. Place(r)
  BY <1>1, <1>2, <1>5, InitFacts DEF Place, InitLabels
<1>7. run' \in [Command -> Invocation] /\ Places' /\ Intact'
  BY <1>3, <1>4, <1>5, <1>6, OwnStep DEF Safe, Intact
<1> QED BY <1>7, RunStep DEF FindTable

LEMMA CreateTableStep ==
  ASSUME Safe, NEW c \in Command, CreateTable(c)
  PROVE  Safe'
<1> DEFINE l == Setup(c)
           r == [run[c] EXCEPT !.pc = l, !.said = "meta applied"]
<1>1. run[c].pc \in InitLabels /\ run[c].at \in Server /\ run[c] \in Invocation
  BY DEF CreateTable, InitLabels, Safe, Places, Place, TypeOK
<1>2. l \in {"done", "backend"}
  BY <1>1, InitFacts
<1>3. run' = [run EXCEPT ![c] = r]
  BY DEF CreateTable, Safe, TypeOK
<1> HIDE DEF l
<1>4. r \in Invocation
  BY <1>1, <1>2, SayFacts
<1>5. r.job = run[c].job /\ r.pc = l /\ r.plan = run[c].plan /\ r.said = "meta applied"
  BY <1>1 DEF Invocation
<1>6. Place(r)
  BY <1>1, <1>2, <1>5, InitFacts DEF Place, InitLabels
<1>7. run' \in [Command -> Invocation] /\ Places' /\ Intact'
  BY <1>3, <1>4, <1>5, <1>6, OwnStep DEF Safe, Intact
<1>8. Types'
  BY <1>1 DEF Safe, TypeOK, Types, CreateTable
<1> QED BY <1>7, <1>8, WorldStep

-----------------------------------------------------------------------------
(* Plan files and the commands that use a profile.                         *)

LEMMA ReadPlanStep ==
  ASSUME Safe, NEW c \in Command, ReadPlan(c)
  PROVE  Safe'
<1> DEFINE content == files[Job(c).path]
           r       == [run[c] EXCEPT !.pc = "backend", !.plan = content]
<1>1. /\ run[c] \in Invocation /\ run[c].job \in Jobs
      /\ run[c].job.kind \in {"check", "resolve", "apply", "verify"}
      /\ run[c].said = "nothing"
  BY DEF Safe, TypeOK, ReadPlan, Places, Place
<1>2. content \in PlanFile \cup {None, Torn}
  BY <1>1, JobFacts DEF Safe, TypeOK, Job
<1>3. CASE Exit(c)
  BY <1>3, ExitStep, RunStep DEF ReadPlan
<1>4. CASE Readable(content) /\ run' = [run EXCEPT ![c] = r]
  <2>1. content \in PlanFile /\ content.digest = content.body
    BY <1>2, <1>4 DEF Readable
  <2> HIDE DEF content
  <2>2. r \in Invocation /\ r.job = run[c].job /\ r.pc = "backend" /\ r.plan = content
        /\ r.said = "nothing"
    BY <1>1, <2>1, ZenonT(30) DEF Invocation, Labels
  <2>3. Place(r)
    BY <1>1, <2>1, <2>2 DEF Place, InitLabels
  <2>4. run' \in [Command -> Invocation] /\ Places' /\ Intact'
    BY <1>4, <2>1, <2>2, <2>3, OwnStep
  <2> QED BY <2>4, RunStep DEF ReadPlan
<1>5. Exit(c) \/ (Readable(content) /\ run' = [run EXCEPT ![c] = r])
  BY DEF ReadPlan, Safe, TypeOK
<1> QED BY <1>3, <1>4, <1>5

\* What a command has that is writing a plan.
LEMMA WriteFacts ==
  ASSUME Safe, NEW c \in Command, run[c].pc \in {"write", "fill plan"}
  PROVE  /\ run[c] \in Invocation /\ run[c].plan \in PlanFile /\ Job(c).out \in Path
         /\ run[c].job \in Jobs /\ run[c].job.kind \in {"create", "resolve"}
         /\ run[c].said = "nothing"
<1>1. /\ run[c] \in Invocation /\ run[c].plan \in PlanFile
      /\ run[c].job \in Jobs /\ run[c].job.kind \in {"create", "resolve"}
      /\ run[c].said = "nothing"
  BY DEF Safe, TypeOK, Places, Place
<1> QED BY <1>1, JobFacts DEF Job

LEMMA TruncatePlanStep ==
  ASSUME Safe, NEW c \in Command, TruncatePlan(c)
  PROVE  Safe'
<1>1. run[c].pc \in {"write", "fill plan"}
  BY DEF TruncatePlan
<1>2. [run[c] EXCEPT !.pc = "fill plan"] \in Invocation
  BY <1>1, WriteFacts, ZenonT(30) DEF Invocation, Labels
<1>3. Place([run[c] EXCEPT !.pc = "fill plan"])
  BY <1>1, WriteFacts DEF Place, InitLabels, Invocation
<1>4. run' \in [Command -> Invocation] /\ Places' /\ Intact'
  BY <1>2, <1>3, GotoStep DEF TruncatePlan
<1>5. Types'
  BY <1>1, WriteFacts DEF Safe, TypeOK, Types, TruncatePlan
<1> QED BY <1>4, <1>5, WorldStep

LEMMA FillPlanStep ==
  ASSUME Safe, NEW c \in Command, FillPlan(c)
  PROVE  Safe'
<1>1. run[c].pc \in {"write", "fill plan"}
  BY DEF FillPlan
<1>2. run[c].plan \in PlanFile /\ run[c].plan.digest \in Body
  BY <1>1, WriteFacts DEF PlanFile
<1>3. run' \in [Command -> Invocation] /\ Places' /\ Intact'
  BY ExitStep DEF FillPlan
<1>4. Types'
  BY <1>1, <1>2, WriteFacts DEF Safe, TypeOK, Types, FillPlan
<1> QED BY <1>3, <1>4, WorldStep

\* A plan a command has just made is whole.
LEMMA NewPlanFacts ==
  \A c \in Command, s \in Server, class \in {"safe", "unsafe_resolved"} :
    /\ NewPlan(c, s, class) \in PlanFile
    /\ NewPlan(c, s, class).digest = NewPlan(c, s, class).body
    /\ NewPlan(c, s, class).body.instance = s
BY DEF NewPlan, PlanFile, Body

LEMMA ResolveBackendStep ==
  ASSUME Safe, NEW c \in Command, ResolveBackend(c)
  PROVE  Safe'
<1> DEFINE p == IF config \in {None, Torn} THEN None ELSE config[Job(c).profile]
           q == IF Job(c).kind = "create" THEN NewPlan(c, serves[p.source], "safe") ELSE run[c].plan
           l == AfterBackend(c)
           r == [run[c] EXCEPT !.pc = l, !.profile = p, !.source = serves[p.source],
                               !.target = serves[p.target], !.plan = q]
<1>1. run[c] \in Invocation /\ run[c].job \in Jobs /\ run[c].pc = "backend" /\ Place(run[c])
      /\ Job(c) = run[c].job
  BY DEF Safe, TypeOK, ResolveBackend, Places, Place, Job
<1>2. CASE Exit(c)
  BY <1>2, ExitStep, RunStep DEF ResolveBackend
<1>3. CASE p \notin {None, Stub} /\ run' = [run EXCEPT ![c] = r]
  <2>1. p \in Profile /\ serves[p.source] \in Server /\ serves[p.target] \in Server
    <3>1. p \in Profile
      BY <1>1, <1>3, JobFacts DEF Safe, TypeOK, Config
    <3> QED BY <3>1 DEF Profile, Safe, TypeOK
  <2>2. run[c].job.kind \in Kinds
    BY <1>1, JobFacts
  <2>3. /\ l \in {"examine", "write", "check", "confirm", "ask"}
        /\ l = "write" => run[c].job.kind = "create"
        /\ l = "check" => run[c].job.kind \in {"check", "resolve"}
        /\ l # "examine" => run[c].job.kind \in {"create", "check", "resolve", "apply", "verify"}
        /\ run[c].said = "nothing" \/ (run[c].said = "meta applied" /\ l = "examine"
                                         /\ run[c].job.kind = "init")
    BY <1>1, <2>2 DEF AfterBackend, Kinds, Place
  <2>4. /\ q \in PlanFile \cup {None} /\ (q # None => q.digest = q.body)
        /\ l # "examine" => q \in PlanFile
    <3>1. CASE run[c].job.kind = "create"
      BY <1>1, <2>1, <2>3, <3>1, NewPlanFacts
    <3>2. CASE run[c].job.kind # "create"
      <4>1. q = run[c].plan
        BY <1>1, <3>2
      <4>2. q \in PlanFile \cup {None}
        BY <1>1, <4>1 DEF Invocation
      <4>3. l # "examine" => q \in PlanFile
        BY <1>1, <2>3, <3>2, <4>1 DEF Place
      <4> QED BY <4>1, <4>2, <4>3 DEF Safe, Intact
    <3> QED BY <3>1, <3>2
  <2> HIDE DEF p, q, l
  <2>5. r \in Invocation
    BY <1>1, <2>1, <2>3, <2>4, ZenonT(40) DEF Invocation, Labels
  <2>6. r.job = run[c].job /\ r.pc = l /\ r.plan = q /\ r.profile = p /\ r.said = run[c].said
    BY <1>1 DEF Invocation
  <2>7. Place(r)
    BY <1>1, <2>1, <2>3, <2>4, <2>6 DEF Place, InitLabels
  <2>8. run' \in [Command -> Invocation] /\ Places' /\ Intact'
    BY <1>3, <2>4, <2>5, <2>6, <2>7, OwnStep
  <2> QED BY <2>8, RunStep DEF ResolveBackend
<1>4. Exit(c) \/ (p \notin {None, Stub} /\ run' = [run EXCEPT ![c] = r])
  <2>1. Exit(c) \/ (p \notin {None, Stub} /\ run' = [run EXCEPT ![c].pc = l, ![c].profile = p,
             ![c].source = serves[p.source], ![c].target = serves[p.target], ![c].plan = q])
    BY DEF ResolveBackend, Safe, TypeOK
  <2> HIDE DEF p, q, l
  <2> QED BY <2>1 DEF Safe, TypeOK
<1> QED BY <1>2, <1>3, <1>4

\* A command says its result and ends.
LEMMA SayStep ==
  ASSUME Safe, NEW c \in Command, run[c].pc \notin {"idle", "ended"},
         NEW w \in Words, NEW s \in Server, Say(c, w, s)
  PROVE  /\ run' \in [Command -> Invocation] /\ Places' /\ Intact'
         /\ \A d \in Command \ {c} : run'[d] = run[d]
         /\ run'[c].pc = "done" /\ run'[c].said = w /\ run'[c].at = s
         /\ run'[c].plan = run[c].plan /\ run'[c].typed = run[c].typed
         /\ run'[c].accepted = run[c].accepted /\ run'[c].job = run[c].job
         /\ run'[c].cfg = None /\ run'[c].profile = None
<1> DEFINE r == [Fresh EXCEPT !.job = Job(c), !.plan = run[c].plan, !.typed = run[c].typed,
                              !.accepted = run[c].accepted, !.pc = "done", !.said = w, !.at = s]
<1>1. run[c] \in Invocation /\ run[c].job \in Jobs /\ Job(c) = run[c].job
  BY DEF Safe, TypeOK, Places, Place, Job
<1>2. run' = [run EXCEPT ![c] = r]
  BY DEF Say
<1>3. r \in Invocation
  BY <1>1 DEF Fresh, Invocation, Labels
<1>4. /\ r.pc = "done" /\ r.said = w /\ r.at = s /\ r.plan = run[c].plan
      /\ r.typed = run[c].typed /\ r.accepted = run[c].accepted /\ r.job = run[c].job
      /\ r.cfg = None /\ r.profile = None
  BY <1>1 DEF Fresh
<1>5. Place(r)
  BY <1>1, <1>4 DEF Place, InitLabels
<1>6. r.plan # None => r.plan.digest = r.plan.body
  BY <1>4 DEF Safe, Intact
<1> HIDE DEF r
<1> QED BY <1>2, <1>3, <1>4, <1>5, <1>6, OwnStep

\* What a command has that is connected.
LEMMA ConnectedFacts ==
  ASSUME Safe, NEW c \in Command,
         run[c].pc \in {"check", "confirm", "execute", "ask", "examine"}
  PROVE  /\ run[c] \in Invocation /\ run[c].job \in Jobs /\ run[c].profile \in Profile
         /\ Target(c) \in Server
         /\ run[c].pc # "examine" => /\ run[c].plan \in PlanFile
                                     /\ run[c].plan.digest = run[c].plan.body
                                     /\ run[c].plan.body \in Body
                                     /\ run[c].said = "nothing"
<1>1. run[c] \in Invocation /\ run[c].job \in Jobs /\ run[c].profile \in Profile
      /\ (run[c].pc # "examine" => run[c].plan \in PlanFile /\ run[c].said = "nothing")
  BY DEF Safe, TypeOK, Places, Place
<1>2. Target(c) \in Server
  BY <1>1 DEF Target, Profile, Safe, TypeOK
<1>3. run[c].pc # "examine" => run[c].plan.digest = run[c].plan.body
  BY <1>1, NoneFacts DEF Safe, Intact
<1> QED BY <1>1, <1>2, <1>3 DEF PlanFile

LEMMA CheckStep ==
  ASSUME Safe, NEW c \in Command, Check(c)
  PROVE  Safe'
<1>1. run[c].pc = "check"
  BY DEF Check
<1>2. CASE Exit(c)
  BY <1>2, ExitStep, RunStep DEF Check
<1>3. ASSUME NEW w \in {"ready", "conflict"}, Say(c, w, Target(c))
      PROVE  Safe'
  BY <1>1, <1>3, ConnectedFacts, SayStep, RunStep DEF Check, Words
<1> DEFINE q == NewPlan(c, run[c].plan.body.instance, "unsafe_resolved")
           r == [run[c] EXCEPT !.pc = "write", !.at = Target(c), !.plan = q]
<1>4. CASE Job(c).kind = "resolve" /\ run' = [run EXCEPT ![c] = r]
  <2>1. /\ q \in PlanFile /\ q.digest = q.body
        /\ run[c] \in Invocation /\ Target(c) \in Server
    BY <1>1, ConnectedFacts, NewPlanFacts DEF Body
  <2> HIDE DEF q
  <2>2. r \in Invocation
    BY <2>1, ZenonT(40) DEF Invocation, Labels
  <2>3. r.pc = "write" /\ r.plan = q /\ r.job = run[c].job
    BY <1>1, ConnectedFacts DEF Invocation
  <2>4. Place(r)
    BY <1>1, <1>4, <2>1, <2>3, ConnectedFacts DEF Place, InitLabels, Job
  <2>5. run' \in [Command -> Invocation] /\ Places' /\ Intact'
    BY <1>4, <2>1, <2>2, <2>3, <2>4, OwnStep
  <2> QED BY <2>5, RunStep DEF Check
<1>5. \/ Exit(c) \/ (\E w \in {"ready", "conflict"} : Say(c, w, Target(c)))
      \/ (Job(c).kind = "resolve" /\ run' = [run EXCEPT ![c] = r])
  BY DEF Check, Safe, TypeOK
<1> QED BY <1>2, <1>3, <1>4, <1>5

LEMMA ConfirmStep ==
  ASSUME Safe, NEW c \in Command, NEW x \in noted, NEW y \in noted \cup {None},
         Confirm(c, x, y)
  PROVE  Safe'
<1> DEFINE r == [run[c] EXCEPT !.pc = "execute", !.typed = x, !.accepted = y]
<1>1. run[c].pc = "confirm"
  BY DEF Confirm
<1>2. CASE Exit(c)
  BY <1>2, ExitStep, RunStep DEF Confirm
<1>3. CASE run' = [run EXCEPT ![c] = r]
  <2>1. r \in Invocation
    <3>1. run[c] \in Invocation /\ x \in Body /\ y \in Body \cup {None}
      BY <1>1, ConnectedFacts DEF Safe, TypeOK
    <3> QED BY <3>1 DEF Invocation, Labels
  <2>2. /\ r.pc = "execute" /\ r.job = run[c].job /\ r.plan = run[c].plan
        /\ r.profile = run[c].profile
    BY <1>1, ConnectedFacts DEF Invocation
  <2>3. Place(r)
    BY <1>1, <2>2, ConnectedFacts DEF Place, InitLabels
  <2>4. run' \in [Command -> Invocation] /\ Places' /\ Intact'
    BY <1>3, <2>1, <2>2, <2>3, OwnStep DEF Safe, Intact
  <2> QED BY <2>4, RunStep DEF Confirm
<1>4. Exit(c) \/ run' = [run EXCEPT ![c] = r]
  BY DEF Confirm, Safe, TypeOK
<1> QED BY <1>2, <1>3, <1>4

LEMMA ExecuteStep ==
  ASSUME Safe, NEW c \in Command, Execute(c)
  PROVE  Safe'
<1>1. run[c].pc = "execute"
  BY DEF Execute
<1>2. \/ Exit(c) \/ \E w \in {"applied", "unknown", "nothing"} : Say(c, w, Target(c))
  BY DEF Execute
<1>3. run' \in [Command -> Invocation] /\ Places' /\ Intact'
  <2>1. CASE Exit(c)
    BY <2>1, ExitStep
  <2>2. ASSUME NEW w \in {"applied", "unknown", "nothing"}, Say(c, w, Target(c))
        PROVE  run' \in [Command -> Invocation] /\ Places' /\ Intact'
    BY <1>1, <2>2, ConnectedFacts, SayStep DEF Words
  <2> QED BY <1>2, <2>1, <2>2
<1>4. Types'
  <2>1. [server |-> Target(c), body |-> run[c].plan.body, by |-> c]
          \in [server : Server, body : Body, by : Command]
    BY <1>1, ConnectedFacts
  <2>2. markers' \subseteq [server : Server, body : Body, by : Command]
    BY <2>1 DEF Execute, Safe, TypeOK
  <2> QED BY <2>2 DEF Safe, TypeOK, Types, Execute
<1> QED BY <1>3, <1>4, WorldStep

LEMMA VerifyStep ==
  ASSUME Safe, NEW c \in Command, Verify(c)
  PROVE  Safe'
<1>1. run[c].pc = "ask"
  BY DEF Verify
<1>2. \E w \in {"indeterminate", "committed", "not committed"} : Say(c, w, Target(c))
  BY DEF Verify
<1>3. run' \in [Command -> Invocation] /\ Places' /\ Intact'
  BY <1>1, <1>2, ConnectedFacts, SayStep DEF Words
<1> QED BY <1>3, RunStep DEF Verify

LEMMA ExamineStep ==
  ASSUME Safe, NEW c \in Command, Examine(c)
  PROVE  Safe'
<1>1. run[c].pc = "examine"
  BY DEF Examine
<1>2. Exit(c) \/ Say(c, "passed", Target(c))
  BY DEF Examine
<1>3. run' \in [Command -> Invocation] /\ Places' /\ Intact'
  BY <1>1, <1>2, ConnectedFacts, ExitStep, SayStep DEF Words
<1> QED BY <1>3, RunStep DEF Examine

LEMMA EnvironmentStep ==
  ASSUME Safe, \/ \E c \in Command : Kill(c)
               \/ \E a \in Address, s \in Server : Failover(a, s)
               \/ \E p \in Path : Edit(p)
  PROVE  Safe'
<1>1. ASSUME NEW c \in Command, Kill(c) PROVE Safe'
  <2>1. run' \in [Command -> Invocation] /\ Places' /\ Intact'
    BY <1>1, ExitStep DEF Kill
  <2>2. Types'
    BY <1>1 DEF Kill, Types, Safe, TypeOK
  <2> QED BY <2>1, <2>2, WorldStep
<1>2. ASSUME NEW a \in Address, NEW s \in Server, Failover(a, s) PROVE Safe'
  <2>1. Types'
    BY <1>2, WorkspaceAssumption DEF Failover, Types, Safe, TypeOK
  <2>2. run' \in [Command -> Invocation] /\ Places' /\ Intact'
    BY <1>2 DEF Failover, Safe, TypeOK, Places, Intact
  <2> QED BY <2>1, <2>2, WorldStep
<1>3. ASSUME NEW p \in Path, Edit(p) PROVE Safe'
  <2> DEFINE f == [files[p] EXCEPT !.body.edited = TRUE]
  <2>1. files[p] \in PlanFile /\ files' = [files EXCEPT ![p] = f]
    BY <1>3 DEF Edit, Safe, TypeOK
  <2>2. f \in PlanFile
    <3>1. files[p].body \in Body /\ files[p].digest \in Body
      BY <2>1 DEF PlanFile
    <3>2. [files[p].body EXCEPT !.edited = TRUE] \in Body
      BY <3>1 DEF Body
    <3> QED BY <2>1, <3>2 DEF PlanFile
  <2> HIDE DEF f
  <2>3. Types'
    <3>1. files' \in [Path -> PlanFile \cup {None, Torn}]
      BY <2>1, <2>2 DEF Safe, TypeOK
    <3>2. edits' \in 0..MaxEdits
      BY <1>3, WorkspaceAssumption DEF Edit, Safe, TypeOK
    <3> QED BY <1>3, <3>1, <3>2 DEF Edit, Types, Safe, TypeOK
  <2>4. run' \in [Command -> Invocation] /\ Places' /\ Intact'
    BY <1>3 DEF Edit, Safe, TypeOK, Places, Intact
  <2> QED BY <2>3, <2>4, WorldStep
<1> QED BY <1>1, <1>2, <1>3

LEMMA SafeInit == Init => Safe
<1> SUFFICES ASSUME Init PROVE Safe
  OBVIOUS
<1>1. run \in [Command -> Invocation] /\ Places /\ Intact
  BY FreshFacts DEF Init, Places, Intact
<1>2. config \in Config \cup {None} /\ saved \in Whole /\ cut = {}
  BY NoneFacts, WorkspaceAssumption DEF Init
<1>3. files \in [Path -> PlanFile \cup {None, Torn}] /\ noted \subseteq Body
  BY WorkspaceAssumption DEF Init, PlanFile
<1>4. meta \in [Server -> {"none", "database", "table"}]
  BY DEF Init
<1>5. failovers \in 0..MaxFailovers /\ edits \in 0..MaxEdits
  BY WorkspaceAssumption DEF Init
<1> QED BY <1>1, <1>2, <1>3, <1>4, <1>5 DEF Init, Safe, TypeOK

LEMMA SafeStep == Safe /\ [Next]_vars => Safe'
<1> SUFFICES ASSUME Safe, [Next]_vars PROVE Safe'
  OBVIOUS
<1>1. CASE UNCHANGED vars
  BY <1>1 DEF vars, world, Safe, TypeOK, Places, Intact
<1>2. ASSUME NEW c \in Command, NEW j \in Jobs, Begin(c, j) PROVE Safe'
  BY <1>2, BeginStep
<1>3. ASSUME NEW c \in Command, InitSteps(c) PROVE Safe'
  BY <1>3, InitLoadStep, TruncateConfigStep, WritePartStep, FillConfigStep, WriteGrantsStep, FindDatabaseStep,
     CreateDatabaseStep, FindTableStep, CreateTableStep DEF InitSteps
<1>4. ASSUME NEW c \in Command, PlanSteps(c) PROVE Safe'
  BY <1>4, ReadPlanStep, ResolveBackendStep, CheckStep, TruncatePlanStep, FillPlanStep,
     ConfirmStep, ExecuteStep, VerifyStep, ExamineStep DEF PlanSteps
<1> QED BY <1>1, <1>2, <1>3, <1>4, EnvironmentStep DEF Next

LEMMA Safety == Spec => []Safe
BY SafeInit, SafeStep, PTL DEF Spec

\* Every value the directory, the servers and the commands ever hold is of its kind: TypeOK.
THEOREM TypeCorrect == Spec => []TypeOK
<1>1. Safe => TypeOK
  BY DEF Safe
<1> QED BY <1>1, Safety, PTL

-----------------------------------------------------------------------------
(* What a step may do to the other commands and to the world.              *)

\* The steps of a command that neither connect, nor confirm, nor say a result.
Quiet(c) ==
  \/ (\E j \in Jobs : Begin(c, j)) \/ InitSteps(c) \/ Kill(c)
  \/ ReadPlan(c) \/ TruncatePlan(c) \/ FillPlan(c)

Steps(c) == (\E j \in Jobs : Begin(c, j)) \/ InitSteps(c) \/ PlanSteps(c) \/ Kill(c)

LEMMA StepCases ==
  ASSUME Next
  PROVE  \/ \E c \in Command : Steps(c)
         \/ \E a \in Address, s \in Server : Failover(a, s)
         \/ \E p \in Path : Edit(p)
BY DEF Next, Steps

LEMMA StepKinds ==
  ASSUME NEW c \in Command, Steps(c)
  PROVE  \/ Quiet(c) \/ ResolveBackend(c) \/ Check(c) \/ Execute(c) \/ Verify(c) \/ Examine(c)
         \/ \E x \in noted, y \in noted \cup {None} : Confirm(c, x, y)
BY DEF Steps, Quiet, PlanSteps

\* A command that has ended stays as it is, and a step of one leaves the others alone.
LEMMA OneMoves ==
  ASSUME Safe, NEW c \in Command, Steps(c)
  PROVE  /\ \A d \in Command \ {c} : run'[d] = run[d]
         /\ run[c].pc \notin Ended
<1>1. run \in [Command -> Invocation]
  BY DEF Safe, TypeOK
<1>2. ASSUME NEW j \in Jobs, Begin(c, j)
      PROVE  (\A d \in Command \ {c} : run'[d] = run[d]) /\ run[c].pc \notin Ended
  BY <1>1, <1>2 DEF Begin, Ended
<1>3. CASE InitSteps(c)
  BY <1>1, <1>3 DEF InitSteps, InitLoad, TruncateConfig, WritePart, FillConfig, WriteGrants, FindDatabase,
     CreateDatabase, FindTable, CreateTable, Goto, Exit, Ended
<1>4. CASE ReadPlan(c) \/ TruncatePlan(c) \/ FillPlan(c) \/ ResolveBackend(c) \/ Kill(c)
  BY <1>1, <1>4 DEF ReadPlan, TruncatePlan, FillPlan, ResolveBackend, Kill, Goto, Exit, Ended
<1>5. CASE Check(c) \/ Execute(c) \/ Verify(c) \/ Examine(c)
  BY <1>1, <1>5 DEF Check, Execute, Verify, Examine, Say, Exit, Ended
<1>6. ASSUME NEW x, NEW y, Confirm(c, x, y)
      PROVE  (\A d \in Command \ {c} : run'[d] = run[d]) /\ run[c].pc \notin Ended
  BY <1>1, <1>6 DEF Confirm, Exit, Ended
<1> QED BY <1>2, <1>3, <1>4, <1>5, <1>6 DEF Steps, PlanSteps

\* Digests of plans that were written, compensations and marker tables remain; a step of a command moves
\* no address.
LEMMA WorldGrows ==
  ASSUME Safe, Next
  PROVE  /\ noted \subseteq noted' /\ markers \subseteq markers'
         /\ \A s \in Server : meta[s] = "table" => meta'[s] = "table"
         /\ (\E c \in Command : Steps(c)) => serves' = serves
<1>1. meta \in [Server -> {"none", "database", "table"}]
  BY DEF Safe, TypeOK
<1>2. ASSUME NEW c \in Command, InitSteps(c)
      PROVE  /\ UNCHANGED <<noted, markers, serves>>
             /\ \A s \in Server : meta[s] = "table" => meta'[s] = "table"
  BY <1>1, <1>2 DEF InitSteps, InitLoad, TruncateConfig, WritePart, FillConfig, WriteGrants, FindDatabase,
     CreateDatabase, FindTable, CreateTable, world
<1>3. ASSUME NEW c \in Command, PlanSteps(c)
      PROVE  /\ noted \subseteq noted' /\ markers \subseteq markers'
             /\ UNCHANGED <<meta, serves>>
  BY <1>3 DEF PlanSteps, ReadPlan, TruncatePlan, FillPlan, ResolveBackend, Check, Confirm, Execute,
     Verify, Examine, world
<1>4. ASSUME NEW c \in Command, Kill(c) \/ \E j \in Jobs : Begin(c, j)
      PROVE  UNCHANGED <<noted, markers, meta, serves>>
  BY <1>4 DEF Kill, Begin, world
<1>5. ASSUME \/ \E a \in Address, s \in Server : Failover(a, s)
             \/ \E p \in Path : Edit(p)
      PROVE  UNCHANGED <<noted, markers, meta>> /\ ((\E p \in Path : Edit(p)) => UNCHANGED serves)
  BY <1>5 DEF Failover, Edit
<1> QED BY <1>2, <1>3, <1>4, <1>5, StepCases DEF Steps, world

\* What a quiet step leaves its command with.
Plain(r) == /\ r.pc \notin {"check", "confirm", "execute", "ask", "examine"}
            /\ r.said \in {"nothing", "meta applied"}

\* What it keeps in memory.
Keeps(q, r) == /\ r.profile \in {q.profile, None}
               /\ r.cfg \in {q.cfg, None, LoadForInit(config)}

\* Which quiet steps save a configuration, and which say that the migration has been done.
Sole(c) == /\ ~InitLoad(c) /\ ~TruncateConfig(c) /\ ~WritePart(c) => run'[c].pc \notin {"save", "fill config"}
           /\ ~FindTable(c) /\ ~CreateTable(c) => run'[c].said = "nothing"

LEMMA InitStepsFacts ==
  ASSUME Safe, NEW c \in Command, InitSteps(c)
  PROVE  /\ Plain(run'[c]) /\ Keeps(run[c], run'[c]) /\ Sole(c)
         /\ UNCHANGED <<markers, serves>>
<1>1. run[c].pc \in InitLabels
  BY DEF InitSteps, InitLoad, TruncateConfig, WritePart, FillConfig, WriteGrants, FindDatabase,
     CreateDatabase, FindTable, CreateTable, InitLabels
<1>2. /\ Setup(c) \in {"done", "backend"} /\ run[c].said = "nothing"
      /\ run[c] \in Invocation /\ run \in [Command -> Invocation]
  BY <1>1, InitFacts DEF Safe, TypeOK
<1>3. CASE Exit(c)
  BY <1>3, ExitStep DEF InitSteps, InitLoad, TruncateConfig, WritePart, FillConfig, WriteGrants, FindDatabase,
     CreateDatabase, FindTable, CreateTable, world, Plain, Keeps, Sole
<1>4. CASE InitLoad(c) /\ ~Exit(c)
  <2> DEFINE r == [run[c] EXCEPT !.pc = "save", !.cfg = LoadForInit(config)]
  <2>1. /\ r.pc = "save" /\ r.said = "nothing"
        /\ r.profile = run[c].profile /\ r.cfg = LoadForInit(config)
    BY <1>2 DEF Invocation
  <2>2. run'[c] = r
    BY <1>2, <1>4 DEF InitLoad
  <2> QED BY <1>4, <2>1, <2>2 DEF InitLoad, world, Plain, Keeps, Sole
<1>5. CASE TruncateConfig(c)
  <2> DEFINE r == [run[c] EXCEPT !.pc = "fill config"]
  <2>1. /\ r.pc = "fill config" /\ r.said = "nothing"
        /\ r.profile = run[c].profile /\ r.cfg = run[c].cfg
    BY <1>2 DEF Invocation
  <2>2. run'[c] = r
    BY <1>2, <1>5 DEF TruncateConfig, Goto
  <2> QED BY <1>5, <2>1, <2>2 DEF TruncateConfig, Plain, Keeps, Sole
<1>12. CASE WritePart(c)
  BY <1>2, <1>12 DEF WritePart, Plain, Keeps, Sole
<1>6. CASE FillConfig(c)
  <2> DEFINE r == [run[c] EXCEPT !.pc = "grants", !.cfg = None]
  <2>1. /\ r.pc = "grants" /\ r.said = "nothing"
        /\ r.profile = run[c].profile /\ r.cfg = None
    BY <1>2 DEF Invocation
  <2>2. run'[c] = r
    BY <1>2, <1>6 DEF FillConfig
  <2> QED BY <1>6, <2>1, <2>2 DEF FillConfig, Plain, Keeps, Sole
<1>7. CASE WriteGrants(c)
  <2> DEFINE l == IF Job(c).applyMeta THEN "migrate" ELSE Setup(c)
             r == [run[c] EXCEPT !.pc = l]
  <2>1. /\ r.pc = l /\ r.said = "nothing"
        /\ r.profile = run[c].profile /\ r.cfg = run[c].cfg
    BY <1>2 DEF Invocation
  <2>2. run'[c] = r
    BY <1>2, <1>7 DEF WriteGrants, Goto
  <2>3. l \in {"migrate", "done", "backend"}
    BY <1>2
  <2> HIDE DEF l, r
  <2> QED BY <1>7, <2>1, <2>2, <2>3 DEF WriteGrants, Plain, Keeps, Sole
<1>8. CASE FindDatabase(c)
  <2> DEFINE s == serves[NewProfile(Job(c)).target]
             l == IF meta[s] # "none" THEN "look for table" ELSE "create database"
             r == [run[c] EXCEPT !.at = s, !.pc = l, !.said = @]
  <2>1. /\ r.pc = l /\ r.said = "nothing"
        /\ r.profile = run[c].profile /\ r.cfg = run[c].cfg
    BY <1>2 DEF Invocation
  <2>2. run'[c] = r
    BY <1>2, <1>8 DEF FindDatabase, AfterDatabaseFound
  <2>3. l \in {"look for table", "create database"}
    OBVIOUS
  <2> HIDE DEF l, r
  <2> QED BY <1>8, <2>1, <2>2, <2>3 DEF FindDatabase, world, Plain, Keeps, Sole
<1>9. CASE CreateDatabase(c)
  <2> DEFINE r == [run[c] EXCEPT !.pc = "look for table"]
  <2>1. /\ r.pc = "look for table" /\ r.said = "nothing"
        /\ r.profile = run[c].profile /\ r.cfg = run[c].cfg
    BY <1>2 DEF Invocation
  <2>2. run'[c] = r
    BY <1>2, <1>9 DEF CreateDatabase, Goto
  <2> QED BY <1>9, <2>1, <2>2 DEF CreateDatabase, Plain, Keeps, Sole
<1>10. CASE FindTable(c)
  <2> DEFINE found == meta[run[c].at] = "table"
             l == IF found THEN Setup(c) ELSE "create table"
             w == IF found THEN "meta applied" ELSE run[c].said
             r == [run[c] EXCEPT !.pc = l, !.said = w]
  <2>1. /\ r.pc = l /\ r.said = w
        /\ r.profile = run[c].profile /\ r.cfg = run[c].cfg
    BY <1>2 DEF Invocation
  <2>2. run'[c] = r
    BY <1>2, <1>10 DEF FindTable
  <2>3. l \in {"done", "backend", "create table"} /\ w \in {"meta applied", "nothing"}
    BY <1>2
  <2> HIDE DEF l, w, r
  <2> QED BY <1>10, <2>1, <2>2, <2>3 DEF FindTable, world, Plain, Keeps, Sole
<1>11. CASE CreateTable(c)
  <2> DEFINE l == Setup(c)
             r == [run[c] EXCEPT !.pc = l, !.said = "meta applied"]
  <2>1. /\ r.pc = l /\ r.said = "meta applied"
        /\ r.profile = run[c].profile /\ r.cfg = run[c].cfg
    BY <1>2 DEF Invocation
  <2>2. run'[c] = r
    BY <1>2, <1>11 DEF CreateTable
  <2> QED BY <1>2, <1>11, <2>1, <2>2 DEF CreateTable, Plain, Keeps, Sole
<1> QED BY <1>3, <1>4, <1>5, <1>6, <1>7, <1>8, <1>9, <1>10, <1>11, <1>12 DEF InitSteps

\* A quiet step says no more than that the migration has been done.
LEMMA QuietFacts ==
  ASSUME Safe, NEW c \in Command, Quiet(c)
  PROVE  /\ Plain(run'[c]) /\ Keeps(run[c], run'[c]) /\ Sole(c)
         /\ UNCHANGED <<markers, serves>>
<1>1. /\ run[c] \in Invocation /\ run \in [Command -> Invocation]
      /\ run[c].pc \notin {"done", "backend", "examine"} => run[c].said = "nothing"
  BY DEF Safe, TypeOK, Places, Place
<1>2. ASSUME NEW j \in Jobs, Begin(c, j)
      PROVE  /\ Plain(run'[c]) /\ Keeps(run[c], run'[c]) /\ Sole(c)
             /\ UNCHANGED <<markers, serves>>
  <2> DEFINE l == CASE j.kind = "init" -> "load"
                    [] j.kind \in {"doctor", "create"} -> "backend"
                    [] OTHER -> "read"
             r == [run[c] EXCEPT !.job = j, !.pc = l]
  <2>1. l \in {"load", "backend", "read"}
    OBVIOUS
  <2>2. run'[c] = r /\ run[c].pc = "idle"
    BY <1>1, <1>2 DEF Begin
  <2> HIDE DEF l
  <2>3. /\ r.pc = l /\ r.said = run[c].said
        /\ r.profile = run[c].profile /\ r.cfg = run[c].cfg
    BY <1>1 DEF Invocation
  <2> QED BY <1>1, <1>2, <2>1, <2>2, <2>3 DEF Begin, world, Plain, Keeps, Sole
<1>3. CASE Kill(c) \/ FillPlan(c)
  <2>1. Exit(c) /\ UNCHANGED <<markers, serves>>
    BY <1>3 DEF Kill, FillPlan, world
  <2> QED BY <2>1, ExitStep DEF Plain, Keeps, Sole
<1>4. CASE ReadPlan(c)
  <2> DEFINE r == [run[c] EXCEPT !.pc = "backend", !.plan = files[Job(c).path]]
  <2>1. /\ r.pc = "backend" /\ r.said = run[c].said /\ run[c].said = "nothing"
        /\ r.profile = run[c].profile /\ r.cfg = run[c].cfg
    BY <1>1, <1>4 DEF Invocation, ReadPlan
  <2>2. Exit(c) \/ run'[c] = r
    BY <1>1, <1>4 DEF ReadPlan
  <2>3. CASE Exit(c)
    BY <1>4, <2>3, ExitStep DEF ReadPlan, world, Plain, Keeps, Sole
  <2> QED BY <1>1, <1>4, <2>1, <2>2, <2>3 DEF ReadPlan, world, Plain, Keeps, Sole
<1>5. CASE TruncatePlan(c)
  <2> DEFINE r == [run[c] EXCEPT !.pc = "fill plan"]
  <2>1. /\ r.pc = "fill plan" /\ r.said = run[c].said /\ run[c].said = "nothing"
        /\ r.profile = run[c].profile /\ r.cfg = run[c].cfg
    BY <1>1, <1>5 DEF Invocation, TruncatePlan
  <2>2. run'[c] = r
    BY <1>1, <1>5 DEF TruncatePlan, Goto
  <2> QED BY <1>1, <1>5, <2>1, <2>2 DEF TruncatePlan, Plain, Keeps, Sole
<1> QED BY <1>2, <1>3, <1>4, <1>5, InitStepsFacts DEF Quiet

\* A command that has resolved its profile is about the servers behind its addresses.
LEMMA ConnectStep ==
  ASSUME Safe, NEW c \in Command, ResolveBackend(c), ~Exit(c)
  PROVE  LET p == run'[c].profile IN
         /\ config \in Config /\ p \in Profile /\ p = config[Job(c).profile]
         /\ run'[c].pc = AfterBackend(c) /\ run'[c].target = serves[p.target]
         /\ run'[c].said = run[c].said /\ run'[c].at = run[c].at /\ run'[c].cfg = run[c].cfg
         /\ UNCHANGED world
<1> DEFINE p == IF config \in {None, Torn} THEN None ELSE config[Job(c).profile]
           q == IF Job(c).kind = "create" THEN NewPlan(c, serves[p.source], "safe") ELSE run[c].plan
           l == AfterBackend(c)
           r == [run[c] EXCEPT !.pc = l, !.profile = p, !.source = serves[p.source],
                               !.target = serves[p.target], !.plan = q]
<1>1. run[c] \in Invocation /\ run[c].job \in Jobs /\ Job(c) = run[c].job
      /\ run \in [Command -> Invocation]
  BY DEF Safe, TypeOK, ResolveBackend, Places, Place, Job
<1>2. p \notin {None, Stub} /\ UNCHANGED world /\ run' = [run EXCEPT ![c].pc = l, ![c].profile = p,
             ![c].source = serves[p.source], ![c].target = serves[p.target], ![c].plan = q]
  BY DEF ResolveBackend
<1>3. config \in Config /\ p = config[Job(c).profile] /\ p \in Profile
  BY <1>1, <1>2, JobFacts DEF Safe, TypeOK, Config
<1> HIDE DEF p, q, l
<1>4. run'[c] = r
  BY <1>1, <1>2
<1>5. /\ r.pc = l /\ r.profile = p /\ r.target = serves[p.target] /\ r.said = run[c].said
      /\ r.at = run[c].at /\ r.cfg = run[c].cfg
  BY <1>1 DEF Invocation
<1> QED BY <1>2, <1>3, <1>4, <1>5 DEF l

\* A command that has checked a plan says so of the plan's server, or goes on to write another.
LEMMA CheckFacts ==
  ASSUME Safe, NEW c \in Command, Check(c)
  PROVE  \/ Exit(c)
         \/ InstanceMatches(c) /\ \E w \in {"ready", "conflict"} : Say(c, w, Target(c))
         \/ run'[c].pc = "write" /\ run'[c].said = "nothing" /\ Keeps(run[c], run'[c])
<1> DEFINE q == NewPlan(c, run[c].plan.body.instance, "unsafe_resolved")
           r == [run[c] EXCEPT !.pc = "write", !.at = Target(c), !.plan = q]
<1>1. run[c] \in Invocation /\ run[c].said = "nothing" /\ run \in [Command -> Invocation]
  BY ConnectedFacts DEF Check, Safe, TypeOK
<1>2. \/ Exit(c)
      \/ InstanceMatches(c) /\ \E w \in {"ready", "conflict"} : Say(c, w, Target(c))
      \/ run'[c] = r
  BY <1>1 DEF Check
<1> HIDE DEF q
<1>3. r.pc = "write" /\ r.said = "nothing" /\ r.cfg = run[c].cfg /\ r.profile = run[c].profile
  BY <1>1 DEF Invocation
<1> HIDE DEF r
<1> QED BY <1>2, <1>3 DEF Keeps

-----------------------------------------------------------------------------
(* What is applied was confirmed.                                          *)

\* The gates a command has passed, about what it holds.
Cleared(r) ==
  /\ r.typed = r.plan.body
  /\ r.plan.body.class = "unsafe_resolved" => r.accepted = r.plan.body

Allowed == \A c \in Command : run[c].pc = "execute" => Cleared(run[c])

\* The command behind a compensation has ended, and is the one that passed the gates.
Behind == \A m \in markers : run[m.by].pc = "done"

Careful == Allowed /\ Behind /\ AppliedAsConfirmed

LEMMA CarefulStep == Safe /\ Careful /\ [Next]_vars => Careful'
<1> SUFFICES ASSUME Safe, Careful, [Next]_vars PROVE Careful'
  OBVIOUS
<1>1. \A m \in markers : m.by \in Command
  BY DEF Safe, TypeOK
<1>2. CASE UNCHANGED vars
  BY <1>2 DEF vars, world, Careful, Allowed, Behind, AppliedAsConfirmed, Cleared
<1>3. ASSUME NEW a \in Address, NEW s \in Server, Failover(a, s) PROVE Careful'
  BY <1>3 DEF Failover, Careful, Allowed, Behind, AppliedAsConfirmed, Cleared
<1>4. ASSUME NEW p \in Path, Edit(p) PROVE Careful'
  BY <1>4 DEF Edit, Careful, Allowed, Behind, AppliedAsConfirmed, Cleared
<1>5. ASSUME NEW c \in Command, Steps(c) PROVE Careful'
  <2>1. Next
    BY <1>5 DEF Steps, Next
  <2>2. /\ \A d \in Command \ {c} : run'[d] = run[d]
        /\ run[c].pc # "done" /\ noted \subseteq noted'
    BY <1>5, <2>1, OneMoves, WorldGrows DEF Ended
  <2>3. \A m \in markers : m.by \in Command \ {c}
    BY <1>1, <2>2 DEF Careful, Behind
  <2>4. \A m \in markers : run'[m.by] = run[m.by]
    BY <2>2, <2>3
  \* What held of the compensations and of the others still does: c and a new one remain.
  <2>5. SUFFICES /\ run'[c].pc = "execute" => Cleared(run[c])' 
                 /\ \A m \in markers' \ markers :
                      /\ m.by = c /\ run'[c].pc = "done"
                      /\ run'[c].typed = m.body
                      /\ m.body.class = "unsafe_resolved" => run'[c].accepted = m.body
    BY <2>2, <2>4, <2>5 DEF Careful, Allowed, Behind, AppliedAsConfirmed, Cleared
  <2>6. CASE Quiet(c)
    BY <2>6, QuietFacts DEF Plain
  <2>7. CASE ResolveBackend(c)
    <3>1. run[c].job.kind \in Kinds
      BY <2>7, JobFacts DEF ResolveBackend, Safe, Places, Place
    <3>2. AfterBackend(c) # "execute"
      BY <3>1 DEF AfterBackend, Kinds, Job
    <3>3. markers' = markers
      BY <2>7 DEF ResolveBackend, world
    <3>4. CASE Exit(c)
      BY <3>3, <3>4, ExitStep
    <3>5. CASE ~Exit(c)
      BY <2>7, <3>2, <3>3, <3>5, ConnectStep
    <3> QED BY <3>4, <3>5
  <2>8. CASE Check(c) \/ Verify(c) \/ Examine(c)
    <3>1. markers' = markers
      BY <2>8 DEF Check, Verify, Examine, world
    <3>2. CASE Check(c)
      <4>1. ASSUME NEW w, Say(c, w, Target(c)) PROVE run'[c].pc = "done"
        BY <4>1 DEF Say, Fresh, Safe, TypeOK
      <4> QED BY <3>1, <3>2, <4>1, CheckFacts, ExitStep
    <3>3. CASE Verify(c)
      BY <3>1, <3>3 DEF Verify, Say, Fresh, Safe, TypeOK
    <3>4. CASE Examine(c)
      BY <3>1, <3>4, ExitStep DEF Examine, Say, Fresh, Safe, TypeOK
    <3> QED BY <2>8, <3>2, <3>3, <3>4
  <2>9. ASSUME NEW x \in noted, NEW y \in noted \cup {None}, Confirm(c, x, y)
        PROVE  markers' = markers /\ (run'[c].pc = "execute" => Cleared(run[c])')
    <3>1. run[c] \in Invocation /\ run[c].plan.digest = run[c].plan.body
      BY <2>9, ConnectedFacts DEF Confirm
    <3>2. CASE Exit(c)
      BY <2>9, <3>2, ExitStep DEF Confirm, world
    <3>3. CASE /\ Confirmed(run[c].plan, x, y)
               /\ run' = [run EXCEPT ![c].pc = "execute", ![c].typed = x, ![c].accepted = y]
      <4>1. run'[c].typed = x /\ run'[c].accepted = y /\ run'[c].plan = run[c].plan
        BY <3>1, <3>3 DEF Safe, TypeOK, Invocation
      <4> QED BY <2>9, <3>1, <3>3, <4>1 DEF Confirm, Confirmed, Cleared, world
    <3> QED BY <2>9, <3>2, <3>3 DEF Confirm
  <2>10. CASE Execute(c)
    <3>1. run[c].pc = "execute" /\ run[c].plan.body \in Body /\ Target(c) \in Server
      BY <2>10, ConnectedFacts DEF Execute
    <3>2. Cleared(run[c])
      BY <3>1 DEF Careful, Allowed
    <3>3. run'[c].pc # "execute"
      BY <2>10, <3>1, ZenonT(30) DEF Execute, Say, Exit, Fresh, Safe, TypeOK
    <3>4. ASSUME markers' # markers
          PROVE  /\ markers' = markers \cup
                      {[server |-> Target(c), body |-> run[c].plan.body, by |-> c]}
                 /\ \E w \in {"applied", "unknown", "nothing"} : Say(c, w, Target(c))
      BY <2>10, <3>4 DEF Execute
    <3>5. ASSUME markers' # markers
          PROVE  /\ run'[c].pc = "done" /\ run'[c].typed = run[c].typed
                 /\ run'[c].accepted = run[c].accepted
      BY <3>1, <3>4, <3>5, SayStep DEF Words
    <3>6. ASSUME NEW m \in markers' \ markers
          PROVE  m.by = c /\ m.body = run[c].plan.body /\ markers' # markers
      BY <3>4, <3>6
    <3> QED BY <2>2, <3>2, <3>3, <3>5, <3>6 DEF Cleared
  <2> QED BY <1>5, <2>6, <2>7, <2>8, <2>9, <2>10, StepKinds
<1> QED BY <1>2, <1>3, <1>4, <1>5, StepCases

\* What is applied is, to the letter, what was confirmed by its digest to the command that applied
\* it, and whose risk was accepted if it is a resolved plan: AppliedAsConfirmed.
THEOREM ConfirmedIsApplied == Spec => []AppliedAsConfirmed
<1>1. Init => Careful
  BY DEF Init, Careful, Allowed, Behind, AppliedAsConfirmed, Fresh
<1>2. Careful => AppliedAsConfirmed
  BY DEF Careful
<1> QED BY <1>1, <1>2, Safety, CarefulStep, PTL DEF Spec

-----------------------------------------------------------------------------
(* What is said of a plan is said of its server, as long as no address     *)
(* fails over while a command uses it.                                     *)

\* The servers a command has asked at first are still the ones behind its addresses.
Steady == \A c \in Command :
  run[c].pc \in {"check", "confirm", "execute", "ask"} => run[c].target = Target(c)

Honest == Steady /\ RightServer /\ VerdictIsOfPlan

Results == {"ready", "conflict", "applied", "unknown", "committed", "not committed"}

\* What an invocation that has said a result is held to.
Kept(c) ==
  /\ run[c].pc \in {"check", "confirm", "execute", "ask"} => run[c].target = Target(c)
  /\ run[c].said \in Results => run[c].at = run[c].plan.body.instance
  /\ run[c].said = "committed" =>
       \E m \in markers : /\ m.server = run[c].plan.body.instance
                          /\ m.body = run[c].plan.body /\ m.by = run[c].job.action

LEMMA HonestIsKept == Honest <=> \A c \in Command : Kept(c)
BY DEF Honest, Steady, RightServer, VerdictIsOfPlan, Kept, Results, Job

\* A command that ends without a result, or with one of no plan, is held to nothing.
LEMMA ExitKeeps ==
  ASSUME Safe, NEW c \in Command, Exit(c)
  PROVE  Kept(c)'
BY ExitStep DEF Kept, Results

LEMMA ResultKeeps ==
  ASSUME Safe, Honest, NEW c \in Command, Check(c) \/ Execute(c) \/ Verify(c) \/ Examine(c)
  PROVE  Kept(c)'
<1>1. run[c].pc \in {"check", "execute", "ask", "examine"}
  BY DEF Check, Execute, Verify, Examine
<1>2. /\ Target(c) \in Server /\ Job(c) = run[c].job
      /\ run[c].pc # "examine" => run[c].target = Target(c)
  BY <1>1, ConnectedFacts DEF Honest, Steady, Job
<1>3. CASE Exit(c)
  BY <1>3, ExitKeeps
<1>4. ASSUME NEW w \in Words, Say(c, w, Target(c)), w \notin Results
      PROVE  Kept(c)'
  BY <1>1, <1>2, <1>4, SayStep DEF Kept, Results
<1>5. ASSUME NEW w \in Words, Say(c, w, Target(c)), InstanceMatches(c), run[c].pc # "examine",
             w # "committed"
      PROVE  Kept(c)'
  BY <1>1, <1>2, <1>5, SayStep DEF Kept, InstanceMatches
<1>6. CASE Check(c)
  <2>1. run'[c].pc = "write" /\ run'[c].said = "nothing" => Kept(c)'
    BY DEF Kept, Results
  <2>2. run[c].pc = "check"
    BY <1>6 DEF Check
  <2> QED BY <1>3, <1>5, <1>6, <2>1, <2>2, CheckFacts DEF Words
<1>7. CASE Execute(c)
  <2>1. /\ run[c].pc = "execute"
        /\ \/ Exit(c)
           \/ InstanceMatches(c) /\ \E w \in {"applied", "unknown", "nothing"} : Say(c, w, Target(c))
    BY <1>7 DEF Execute
  <2> QED BY <1>3, <1>5, <2>1 DEF Words
<1>8. CASE Verify(c)
  <2>1. /\ run[c].pc = "ask"
        /\ \/ Say(c, "indeterminate", Target(c))
           \/ InstanceMatches(c) /\ Say(c, "not committed", Target(c))
           \/ /\ InstanceMatches(c) /\ Say(c, "committed", Target(c))
              /\ Found(c) # {} /\ \A m \in Found(c) : SamePlan(m, run[c].plan)
    BY <1>8 DEF Verify
  <2>2. CASE /\ InstanceMatches(c) /\ Say(c, "committed", Target(c))
             /\ Found(c) # {} /\ \A m \in Found(c) : SamePlan(m, run[c].plan)
    <3>1. PICK m \in markers : /\ m.server = Target(c) /\ m.by = Job(c).action
                               /\ m.body = run[c].plan.body
      BY <2>2 DEF Found, SamePlan
    <3>2. Target(c) = run[c].plan.body.instance
      BY <1>2, <2>1, <2>2 DEF InstanceMatches
    <3>3. /\ run'[c].pc = "done" /\ run'[c].at = Target(c) /\ run'[c].plan = run[c].plan
          /\ run'[c].job = run[c].job
      BY <1>1, <1>2, <2>2, SayStep DEF Words
    <3>4. m \in markers'
      BY <1>8, <3>1 DEF Verify, world
    <3> QED BY <1>2, <3>1, <3>2, <3>3, <3>4 DEF Kept
  <2> QED BY <1>4, <1>5, <2>1, <2>2 DEF Words, Results
<1>9. CASE Examine(c)
  BY <1>3, <1>4, <1>9 DEF Examine, Words, Results
<1> QED BY <1>6, <1>7, <1>8, <1>9

LEMMA ConfirmKeeps ==
  ASSUME Safe, Honest, NEW c \in Command, NEW x \in noted, NEW y \in noted \cup {None},
         Confirm(c, x, y)
  PROVE  Kept(c)'
<1> DEFINE r == [run[c] EXCEPT !.pc = "execute", !.typed = x, !.accepted = y]
<1>1. /\ run[c] \in Invocation /\ run[c].said = "nothing" /\ run[c].target = Target(c)
      /\ run \in [Command -> Invocation]
  BY ConnectedFacts DEF Confirm, Safe, TypeOK, Honest, Steady
<1>2. r.said = "nothing" /\ r.target = run[c].target /\ r.profile = run[c].profile
  BY <1>1 DEF Invocation
<1>3. CASE run'[c] = r
  BY <1>1, <1>2, <1>3 DEF Kept, Results, Target, Confirm, world
<1>4. Exit(c) \/ run'[c] = r
  BY <1>1 DEF Confirm
<1> QED BY <1>3, <1>4, ExitKeeps

LEMMA HonestStep ==
  ASSUME SteadyAddresses
  PROVE  Safe /\ Honest /\ [Next]_vars => Honest'
<1> SUFFICES ASSUME Safe, Honest, [Next]_vars PROVE Honest'
  OBVIOUS
<1>1. \A c \in Command : Kept(c)
  BY HonestIsKept
<1>2. SUFFICES ASSUME NEW d \in Command PROVE Kept(d)'
  BY <1>2 DEF Honest, Steady, RightServer, VerdictIsOfPlan, Kept, Results, Job
<1>3. CASE UNCHANGED vars
  BY <1>1, <1>3 DEF vars, world, Kept, Target
<1>4. ASSUME NEW p \in Path, Edit(p) PROVE Kept(d)'
  BY <1>1, <1>4 DEF Edit, Kept, Target
<1>5. ASSUME NEW a \in Address, NEW s \in Server, Failover(a, s) PROVE Kept(d)'
  BY <1>1, <1>5 DEF Failover, Kept, Connected
<1>6. ASSUME NEW c \in Command, Steps(c) PROVE Kept(d)'
  <2>1. Next
    BY <1>6 DEF Steps, Next
  <2>2. CASE d # c
    <3>1. run'[d] = run[d] /\ markers \subseteq markers' /\ serves' = serves
      BY <1>6, <2>1, <2>2, OneMoves, WorldGrows
    <3> QED BY <1>1, <3>1 DEF Kept, Target
  <2>3. CASE d = c
    <3>1. CASE Quiet(c)
      BY <2>3, <3>1, QuietFacts DEF Plain, Kept, Results
    <3>2. CASE ResolveBackend(c)
      <4>1. CASE Exit(c)
        BY <2>3, <4>1, ExitKeeps
      <4>2. CASE ~Exit(c)
        <5>1. run'[c].target = Target(c)'
          BY <3>2, <4>2, ConnectStep DEF Target, world
        <5>2. run[c].said \in {"nothing", "meta applied"}
          BY <3>2 DEF ResolveBackend, Safe, Places, Place
        <5> QED BY <2>3, <3>2, <4>2, <5>1, <5>2, ConnectStep DEF Kept, Results
      <4> QED BY <4>1, <4>2
    <3>3. CASE Check(c) \/ Execute(c) \/ Verify(c) \/ Examine(c)
      BY <2>3, <3>3, ResultKeeps
    <3>4. ASSUME NEW x \in noted, NEW y \in noted \cup {None}, Confirm(c, x, y)
          PROVE  Kept(d)'
      BY <2>3, <3>4, ConfirmKeeps
    <3> QED BY <1>6, <3>1, <3>2, <3>3, <3>4, StepKinds
  <2> QED BY <2>2, <2>3
<1> QED BY <1>3, <1>4, <1>5, <1>6, StepCases

LEMMA Honesty ==
  ASSUME SteadyAddresses
  PROVE  Spec => []Honest
<1>1. Init => Honest
  BY FreshFacts, HonestIsKept DEF Init, Kept, Results
<1>2. Safe /\ Honest /\ [Next]_vars => Honest'
  BY HonestStep
<1> QED BY <1>1, <1>2, Safety, PTL DEF Spec

\* If addresses fail over only between commands, what a command says of a plan and does with it
\* is about the server the plan was made for: RightServer.
THEOREM SaidOfTheRightServer ==
  ASSUME SteadyAddresses
  PROVE  Spec => []RightServer
<1>1. Honest => RightServer
  BY DEF Honest
<1> QED BY <1>1, Honesty, PTL

\* Under the same assumption a verdict COMMITTED is about a compensation that is there and did
\* what the plan says that was given to `action verify`: VerdictIsOfPlan.
THEOREM CommittedIsThePlan ==
  ASSUME SteadyAddresses
  PROVE  Spec => []VerdictIsOfPlan
<1>1. Honest => VerdictIsOfPlan
  BY DEF Honest
<1> QED BY <1>1, Honesty, PTL

-----------------------------------------------------------------------------
(* No profile is lost but by a write that was cut short, as long as there  *)
(* is one `init` at a time.                                                *)

Filling(c) == run[c].pc = "fill config"

\* A configuration is what was saved last, but for what an `init` that died has taken from it.
Agrees(cfg) ==
  \A n \in ProfileName : cfg[n] = saved[n] \/ (n \in cut /\ cfg[n] \in {None, Stub})

\* A part of a configuration, as a reader finds it.
PartOf(part, cfg) == \A n \in ProfileName : part[n] \in {cfg[n], None, Stub}

\* What is there agrees with what was saved last, and so does what an `init` has read of it, and
\* what it is writing; who writes is alone.
Orderly ==
  /\ config \in Config /\ (\A c \in Command : ~Filling(c)) => Agrees(config)
  /\ config = None => saved = NoProfile
  /\ \A c \in Command : run[c].pc = "save" => Agrees(run[c].cfg)
  /\ \A c \in Command : Filling(c) =>
       Agrees(Written(c)) /\ (config \in Config => PartOf(config, Written(c)))
  /\ \A c, d \in Command : Saving(c) /\ Saving(d) => c = d

LEMMA OrderlyIsKept ==
  ASSUME Orderly
  PROVE  ProfilesAreKept
<1> SUFFICES ASSUME config \in Config, NEW n \in ProfileName
             PROVE  \/ config[n] = saved[n]
                    \/ /\ config[n] \in {None, Stub}
                       /\ n \in cut \/ \E c \in Command : run[c].pc = "fill config"
  BY DEF ProfilesAreKept
<1>1. CASE \A c \in Command : ~Filling(c)
  BY <1>1 DEF Orderly, Agrees
<1>2. ASSUME NEW c \in Command, Filling(c)
      PROVE  config[n] = saved[n] \/ config[n] \in {None, Stub}
  BY <1>2 DEF Orderly, Agrees, PartOf
<1> QED BY <1>1, <1>2 DEF Filling

LEMMA OrderlyStep ==
  ASSUME OneInit
  PROVE  Safe /\ Orderly /\ [Next]_vars => Orderly'
<1> SUFFICES ASSUME Safe, Orderly, [Next]_vars PROVE Orderly'
  OBVIOUS
<1>1. CASE UNCHANGED vars
  BY <1>1 DEF vars, world, Orderly, Agrees, PartOf, Filling, Saving, Written, Job
<1>2. ASSUME \/ \E a \in Address, s \in Server : Failover(a, s)
             \/ \E p \in Path : Edit(p)
      PROVE  Orderly'
  BY <1>2 DEF Failover, Edit, Orderly, Agrees, PartOf, Filling, Saving, Written, Job
<1>3. ASSUME NEW c \in Command, Steps(c) PROVE Orderly'
  <2>1. \A d \in Command \ {c} : run'[d] = run[d] /\ Written(d)' = Written(d)
    BY <1>3, OneMoves DEF Written, Job
  <2>2. run[c] \in Invocation /\ run \in [Command -> Invocation]
    BY DEF Safe, TypeOK
  <2>3. CASE InitLoad(c) /\ ~Exit(c)
    <3> DEFINE cfg == LoadForInit(config)
               r   == [run[c] EXCEPT !.pc = "save", !.cfg = cfg]
    <3>1. cfg # Torn /\ run'[c] = r /\ UNCHANGED <<config, saved, cut>>
      BY <2>2, <2>3 DEF InitLoad, world
    <3>2. \A d \in Command : ~Saving(d) /\ ~Filling(d)
      BY <2>3 DEF InitLoad, Saving, Filling
    <3>3. Agrees(cfg) /\ (config \in Config => Agrees(config))
      BY <3>1, <3>2, NoneFacts DEF Orderly, Agrees, LoadForInit, Safe, TypeOK
    <3> HIDE DEF cfg
    <3>4. r.pc = "save" /\ r.cfg = cfg
      BY <2>2 DEF Invocation
    <3> HIDE DEF r
    <3>5. run'[c].pc = "save" /\ run'[c].cfg = cfg
      BY <3>1, <3>4
    <3>6. Agrees(run[c].cfg)' /\ (config \in Config => Agrees(config))'
      BY <3>1, <3>3, <3>5 DEF Agrees
    <3>7. \A d \in Command \ {c} : ~Saving(d)' /\ ~Filling(d)'
      BY <2>1, <3>2 DEF Saving, Filling
    <3>8. (config = None => saved = NoProfile)'
      BY <3>1 DEF Orderly
    <3> QED BY <3>5, <3>6, <3>7, <3>8 DEF Orderly, Filling, Saving
  <2>4. CASE TruncateConfig(c)
    <3> DEFINE n == Job(c).profile
               p == NewProfile(Job(c))
    <3>1. /\ Saving(c) /\ run'[c].pc = "fill config" /\ run'[c].cfg = run[c].cfg
          /\ run'[c].job = run[c].job /\ config' = Torn /\ cut' = cut
          /\ saved' = [saved EXCEPT ![n] = p]
      BY <2>2, <2>4 DEF TruncateConfig, Goto, Saving, Invocation
    <3>2. /\ Agrees(run[c].cfg) /\ run[c].cfg \in Config /\ saved \in Whole
          /\ run[c].pc \in InitLabels
      BY <2>4 DEF TruncateConfig, Orderly, Safe, TypeOK, Places, Place, InitLabels
    <3>3. p \in Profile /\ n \in ProfileName
      BY <3>2, InitFacts
    <3>4. Written(c)' = [run[c].cfg EXCEPT ![n] = p]
      BY <3>1 DEF Written, Job
    <3> HIDE DEF n, p
    <3>5. Agrees(Written(c))'
      BY <3>1, <3>2, <3>3, <3>4 DEF Agrees, Config, Whole
    <3>6. \A d \in Command \ {c} : ~Saving(d)'
      BY <2>1, <3>1 DEF Orderly, Saving
    <3> QED BY <3>1, <3>5, <3>6, NoneFacts DEF Orderly, Filling, Saving
  <2>5. CASE WritePart(c)
    <3>1. Filling(c) /\ UNCHANGED <<run, saved, cut>> /\ Written(c)' = Written(c)
      BY <2>5 DEF WritePart, Filling, Written, Job
    <3>2. Written(c) \in Config
      BY <3>1, WrittenFacts DEF Filling
    <3>3. config' \in Config /\ PartOf(config', Written(c))
      BY <2>5, <3>2, PrefixFacts DEF WritePart, PartOf
    <3>4. Agrees(Written(c))'
      BY <3>1 DEF Orderly, Agrees
    <3>5. \A d \in Command \ {c} : ~Saving(d)'
      BY <3>1 DEF Orderly, Saving, Filling
    <3> QED BY <3>1, <3>3, <3>4, <3>5, NoneFacts DEF Orderly, Filling, Saving, PartOf
  <2>6. CASE FillConfig(c)
    <3> DEFINE n == Job(c).profile
    <3>1. /\ Filling(c) /\ Saving(c) /\ run'[c].pc \notin {"save", "fill config"}
          /\ config' = Written(c) /\ saved' = saved /\ cut' = cut \ {n}
      <4>1. ~InitLoad(c) /\ ~TruncateConfig(c) /\ ~WritePart(c) /\ Quiet(c)
        <5>1. run'[c] # run[c]
          <6> DEFINE r == [run[c] EXCEPT !.pc = "grants", !.cfg = None]
          <6>1. run'[c] = r /\ run[c].pc = "fill config"
            BY <2>2, <2>6 DEF FillConfig
          <6>2. r.pc = "grants"
            BY <2>2 DEF Invocation
          <6> HIDE DEF r
          <6> QED BY <6>1, <6>2
        <5> QED BY <2>6, <5>1 DEF FillConfig, InitLoad, TruncateConfig, WritePart, Quiet, InitSteps
      <4> QED BY <2>6, <4>1, QuietFacts DEF FillConfig, Saving, Filling, Sole
    <3>2. /\ Written(c) \in Config /\ Written(c)[n] \in Profile /\ Agrees(Written(c))
      BY <3>1, WrittenFacts, InitFacts DEF Filling, Orderly
    <3> HIDE DEF n
    <3>3. Agrees(config)'
      BY <3>1, <3>2, NoneFacts DEF Agrees
    <3>4. \A d \in Command : ~Saving(d)'
      BY <2>1, <3>1 DEF Orderly, Saving
    <3> QED BY <3>1, <3>2, <3>3, <3>4, NoneFacts DEF Orderly, Filling, Saving
  <2>7. CASE Kill(c)
    <3>1. ~Saving(c)' /\ UNCHANGED <<config, saved>>
      BY <2>7, ExitStep DEF Kill, Saving
    <3>2. CASE Filling(c)
      <4>1. \A d \in Command : ~Saving(d)'
        BY <2>1, <3>1, <3>2 DEF Orderly, Saving, Filling
      <4>2. config \in Config => Agrees(config)'
        BY <2>7, <3>1, <3>2 DEF Kill, Orderly, Agrees, PartOf, Filling
      <4> QED BY <3>1, <4>1, <4>2 DEF Orderly, Filling, Saving
    <3>3. CASE ~Filling(c)
      <4>1. cut' = cut
        BY <2>7, <3>3 DEF Kill, Filling
      <4> QED BY <2>1, <3>1, <3>3, <4>1 DEF Orderly, Agrees, Filling, Saving
    <3> QED BY <3>2, <3>3
  <2>8. CASE /\ ~(InitLoad(c) /\ ~Exit(c)) /\ ~TruncateConfig(c) /\ ~WritePart(c)
             /\ ~FillConfig(c) /\ ~Kill(c)
    <3>1. UNCHANGED <<config, saved, cut>> /\ ~Filling(c)
      BY <1>3, <2>8 DEF Filling, Steps, Begin, Kill, InitSteps, InitLoad, WriteGrants, FindDatabase,
         CreateDatabase, FindTable, CreateTable, PlanSteps, ReadPlan, TruncatePlan, FillPlan,
         ResolveBackend, Check, Confirm, Execute, Verify, Examine, world
    <3>2. ~Saving(c)'
      <4>1. CASE Exit(c)
        BY <4>1, ExitStep DEF Saving
      <4>2. CASE Quiet(c) /\ ~Exit(c)
        BY <2>8, <4>2, QuietFacts DEF Sole, Saving
      <4>3. CASE ResolveBackend(c) /\ ~Exit(c)
        <5>1. run[c].job.kind \in Kinds
          BY <4>3, JobFacts DEF ResolveBackend, Safe, Places, Place
        <5>2. AfterBackend(c) \notin {"save", "fill config"}
          BY <5>1 DEF AfterBackend, Kinds, Job
        <5> QED BY <4>3, <5>2, ConnectStep DEF Saving
      <4>4. ASSUME NEW w, Say(c, w, Target(c)) PROVE run'[c].pc = "done"
        BY <4>4 DEF Say, Fresh, Safe, TypeOK
      <4>5. CASE Check(c)
        BY <4>1, <4>4, <4>5, CheckFacts DEF Saving
      <4>6. CASE Execute(c) \/ Verify(c) \/ Examine(c)
        BY <4>1, <4>4, <4>6 DEF Execute, Verify, Examine, Saving
      <4>7. ASSUME NEW x, NEW y, Confirm(c, x, y), ~Exit(c) PROVE ~Saving(c)'
        <5> DEFINE r == [run[c] EXCEPT !.pc = "execute", !.typed = x, !.accepted = y]
        <5>1. run'[c] = r
          BY <2>2, <4>7 DEF Confirm
        <5>2. r.pc = "execute"
          BY <2>2 DEF Invocation
        <5> QED BY <5>1, <5>2 DEF Saving
      <4> QED BY <1>3, <4>1, <4>2, <4>3, <4>5, <4>6, <4>7, StepKinds
    <3> QED BY <2>1, <3>1, <3>2 DEF Orderly, Agrees, Filling, Saving
  <2> QED BY <2>3, <2>4, <2>5, <2>6, <2>7, <2>8
<1> QED BY <1>1, <1>2, <1>3, StepCases

\* If there is one `init` at a time, a configuration that can be read holds every profile as it
\* was saved last, but for those an `init` that died in the middle of its write has left out or
\* cut short, and those one is about to write: ProfilesAreKept.
THEOREM LostOnlyIfCutShort ==
  ASSUME OneInit
  PROVE  Spec => []ProfilesAreKept
<1>1. Init => Orderly
  BY FreshFacts, NoneFacts DEF Init, Orderly, Agrees, Filling, Saving
<1>2. Orderly => ProfilesAreKept
  BY OrderlyIsKept
<1>3. Safe /\ Orderly /\ [Next]_vars => Orderly'
  BY OrderlyStep
<1> QED BY <1>1, <1>2, <1>3, Safety, PTL DEF Spec

-----------------------------------------------------------------------------
(* A migration that said so has been done, and doctor asks for it, as long *)
(* as no profile has one account for both connections.                     *)

\* No profile of a configuration has one account for both connections.
Apart(cfg) == \A n \in ProfileName : cfg[n] \in Profile => ~cfg[n].oneUser

\* Neither the configurations that may be there at first nor an `init` has such a profile.
TwoAccounts ==
  /\ \A j \in Jobs : j.kind = "init" => ~j.oneUser
  /\ \A cfg \in Configs : cfg # None => Apart(cfg)

\* What is true of a command with it.
Parted(c) == /\ run[c].cfg \in Config => Apart(run[c].cfg)
             /\ run[c].profile # None => ~run[c].profile.oneUser
             /\ run[c].said \in {"meta applied", "passed"} =>
                  run[c].at \in Server /\ meta[run[c].at] = "table"

Founded == (config \in Config => Apart(config)) /\ \A c \in Command : Parted(c)

\* The words of a command that has no profile and no configuration in memory any more.
LEMMA SayParts ==
  ASSUME Safe, NEW c \in Command, run[c].pc \notin {"idle", "ended"},
         NEW w \in Words, NEW s \in Server, Say(c, w, s),
         w \in {"meta applied", "passed"} => meta'[s] = "table"
  PROVE  Parted(c)'
BY SayStep, NoneFacts, ZenonT(30) DEF Parted

LEMMA QuietParts ==
  ASSUME Safe, Founded, NEW c \in Command, Quiet(c)
  PROVE  Parted(c)'
<1>1. /\ run[c] \in Invocation /\ run \in [Command -> Invocation]
      /\ meta \in [Server -> {"none", "database", "table"}]
  BY DEF Safe, TypeOK
<1>2. Keeps(run[c], run'[c]) /\ Sole(c)
  BY QuietFacts
<1>3. LoadForInit(config) \in Config => Apart(LoadForInit(config))
  BY NoneFacts DEF LoadForInit, Founded, Apart, NoProfile
<1>4. Parted(c)
  BY DEF Founded
<1>5. /\ run'[c].cfg \in Config => Apart(run'[c].cfg)
      /\ run'[c].profile # None => ~run'[c].profile.oneUser
  BY <1>2, <1>3, <1>4, NoneFacts DEF Keeps, Parted
<1>6. CASE FindTable(c)
  <2> DEFINE found == meta[run[c].at] = "table"
             l == IF found THEN Setup(c) ELSE "create table"
             w == IF found THEN "meta applied" ELSE run[c].said
             r == [run[c] EXCEPT !.pc = l, !.said = w]
  <2>1. run[c].at \in Server /\ run[c].said = "nothing"
    BY <1>6 DEF FindTable, Safe, Places, Place
  <2>2. run'[c] = r /\ meta' = meta
    BY <1>1, <1>6 DEF FindTable, world
  <2>3. w = "nothing" \/ meta[run[c].at] = "table"
    BY <2>1
  <2> HIDE DEF l, w
  <2>4. r.said = w /\ r.at = run[c].at
    BY <1>1 DEF Invocation
  <2> HIDE DEF r
  <2> QED BY <1>5, <2>1, <2>2, <2>3, <2>4 DEF Parted
<1>7. CASE CreateTable(c)
  <2> DEFINE r == [run[c] EXCEPT !.pc = Setup(c), !.said = "meta applied"]
  <2>1. run[c].at \in Server
    BY <1>7 DEF CreateTable, Safe, Places, Place
  <2>2. run'[c] = r /\ meta'[run[c].at] = "table"
    BY <1>1, <1>7, <2>1 DEF CreateTable
  <2>3. r.at = run[c].at
    BY <1>1 DEF Invocation
  <2> HIDE DEF r
  <2> QED BY <1>5, <2>1, <2>2, <2>3 DEF Parted
<1>8. CASE ~FindTable(c) /\ ~CreateTable(c)
  BY <1>2, <1>5, <1>8 DEF Sole, Parted
<1> QED BY <1>6, <1>7, <1>8

LEMMA FillParts ==
  ASSUME TwoAccounts, Safe, Founded, NEW c \in Command, FillConfig(c) \/ WritePart(c)
  PROVE  Apart(config')
<1> DEFINE n == Job(c).profile
           p == NewProfile(Job(c))
<1>1. run[c].pc = "fill config"
  BY DEF FillConfig, WritePart
<1>2. Apart(run[c].cfg) /\ ~p.oneUser
  BY <1>1, WrittenFacts, InitFacts DEF NewProfile, TwoAccounts, Founded, Parted
<1>3. Written(c) \in Config /\ Apart(Written(c))
  BY <1>1, <1>2, WrittenFacts DEF Apart
<1>4. \A m \in ProfileName : config'[m] \in {Written(c)[m], None, Stub}
  BY <1>3, PrefixFacts DEF FillConfig, WritePart
<1> QED BY <1>3, <1>4, NoneFacts DEF Apart

LEMMA PlanParts ==
  ASSUME Safe, Founded, NEW c \in Command, PlanSteps(c), ~Quiet(c)
  PROVE  Parted(c)'
<1>1. run[c] \in Invocation /\ run \in [Command -> Invocation] /\ Parted(c)
  BY DEF Safe, TypeOK, Founded
<1>2. CASE Exit(c)
  BY <1>2, ExitStep, NoneFacts DEF Parted
<1>3. CASE ResolveBackend(c) /\ ~Exit(c)
  <2>1. Job(c).profile \in ProfileName
    BY <1>3, JobFacts DEF ResolveBackend, Safe, Places, Place, Job
  <2>2. run'[c].profile # None => ~run'[c].profile.oneUser
    BY <1>3, <2>1, ConnectStep DEF Founded, Apart
  <2> QED BY <1>1, <1>3, <2>2, ConnectStep DEF Parted, world
<1>4. CASE Check(c)
  <2>1. run[c].pc = "check" /\ Target(c) \in Server
    BY <1>4, ConnectedFacts DEF Check
  <2>2. ASSUME run'[c].said = "nothing", Keeps(run[c], run'[c]) PROVE Parted(c)'
    <3>1. LoadForInit(config) \in Config => Apart(LoadForInit(config))
      BY NoneFacts DEF LoadForInit, Founded, Apart, NoProfile
    <3> QED BY <1>1, <2>2, <3>1, NoneFacts DEF Keeps, Parted
  <2> QED BY <1>2, <1>4, <2>1, <2>2, CheckFacts, SayParts DEF Words
<1>5. CASE Execute(c)
  <2>1. /\ run[c].pc = "execute" /\ Target(c) \in Server
        /\ Exit(c) \/ \E w \in {"applied", "unknown", "nothing"} : Say(c, w, Target(c))
    BY <1>5, ConnectedFacts DEF Execute
  <2> QED BY <1>2, <2>1, SayParts DEF Words
<1>6. CASE Verify(c)
  <2>1. /\ run[c].pc = "ask" /\ Target(c) \in Server
        /\ \E w \in {"indeterminate", "committed", "not committed"} : Say(c, w, Target(c))
    BY <1>6, ConnectedFacts DEF Verify
  <2> QED BY <2>1, SayParts DEF Words
<1>7. CASE Examine(c) /\ ~Exit(c)
  <2>1. /\ run[c].pc = "examine" /\ Target(c) \in Server /\ run[c].profile \in Profile
        /\ Say(c, "passed", Target(c)) /\ meta' = meta
        /\ OneDSN(run[c].profile) \/ HasMarkers(Target(c))
    BY <1>7, ConnectedFacts DEF Examine, world
  <2>2. ~OneDSN(run[c].profile)
    BY <1>1, <2>1, NoneFacts DEF Parted, OneDSN
  <2> QED BY <2>1, <2>2, SayParts DEF Words, HasMarkers
<1>8. ASSUME NEW x \in noted, NEW y \in noted \cup {None}, Confirm(c, x, y), ~Exit(c)
      PROVE  Parted(c)'
  <2> DEFINE r == [run[c] EXCEPT !.pc = "execute", !.typed = x, !.accepted = y]
  <2>1. run'[c] = r /\ run[c].said = "nothing"
    BY <1>1, <1>8, ConnectedFacts DEF Confirm
  <2>2. r.said = run[c].said /\ r.cfg = run[c].cfg /\ r.profile = run[c].profile
    BY <1>1 DEF Invocation
  <2> HIDE DEF r
  <2> QED BY <1>1, <2>1, <2>2 DEF Parted
<1> QED BY <1>2, <1>3, <1>4, <1>5, <1>6, <1>7, <1>8 DEF PlanSteps, Quiet

LEMMA FoundedStep ==
  ASSUME TwoAccounts
  PROVE  Safe /\ Founded /\ [Next]_vars => Founded'
<1> SUFFICES ASSUME Safe, Founded, [Next]_vars PROVE Founded'
  OBVIOUS
<1>1. CASE UNCHANGED vars
  BY <1>1 DEF vars, world, Founded, Parted
<1>2. ASSUME \/ \E a \in Address, s \in Server : Failover(a, s)
             \/ \E p \in Path : Edit(p)
      PROVE  Founded'
  BY <1>2 DEF Failover, Edit, Founded, Parted
<1>3. ASSUME NEW c \in Command, Steps(c) PROVE Founded'
  <2>1. Next
    BY <1>3 DEF Steps, Next
  <2>2. config' \in Config => Apart(config')
    <3>1. CASE FillConfig(c) \/ WritePart(c)
      BY <3>1, FillParts
    <3>2. CASE ~FillConfig(c) /\ ~WritePart(c)
      <4>1. config' \in {config, Torn}
        BY <1>3, <3>2 DEF Steps, Begin, Kill, InitSteps, InitLoad, TruncateConfig, WriteGrants,
           FindDatabase, CreateDatabase, FindTable, CreateTable, PlanSteps, ReadPlan, TruncatePlan,
           FillPlan, ResolveBackend, Check, Confirm, Execute, Verify, Examine, world
      <4> QED BY <4>1, NoneFacts DEF Founded
    <3> QED BY <3>1, <3>2
  <2>3. ASSUME NEW d \in Command, d # c PROVE Parted(d)'
    <3>1. run'[d] = run[d]
      BY <1>3, <2>3, OneMoves
    <3>2. \A s \in Server : meta[s] = "table" => meta'[s] = "table"
      BY <2>1, WorldGrows
    <3> QED BY <3>1, <3>2 DEF Founded, Parted
  <2>4. Parted(c)'
    BY <1>3, QuietParts, PlanParts DEF Steps, Quiet
  <2> QED BY <2>2, <2>3, <2>4 DEF Founded
<1> QED BY <1>1, <1>2, <1>3, StepCases

\* If no profile has one account for both connections, the marker table is there whenever `init`
\* said it has applied the migration or doctor had nothing to complain of: MetaStands.
THEOREM MigratedStands ==
  ASSUME TwoAccounts
  PROVE  Spec => []MetaStands
<1>1. Init => Founded
  BY FreshFacts, NoneFacts, ZenonT(30) DEF Init, Founded, Parted, TwoAccounts, Fresh
<1>2. Founded => MetaStands
  BY DEF Founded, Parted, MetaStands
<1>3. Safe /\ Founded /\ [Next]_vars => Founded'
  BY FoundedStep
<1> QED BY <1>1, <1>2, <1>3, Safety, PTL DEF Spec

=============================================================================
