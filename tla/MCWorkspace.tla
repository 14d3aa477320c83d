---------------------------- MODULE MCWorkspace -----------------------------
(* Jobs for TLC: two profiles, two addresses, the plan file everybody uses.   *)
EXTENDS Workspace, TLC

CONSTANTS local, staging, a1, a2, f1

InitJob(name, source, target, overwrite, applyMeta, skipDoctor) ==
  [kind |-> "init", profile |-> name, source |-> source, target |-> target, oneUser |-> FALSE,
   overwrite |-> overwrite, applyMeta |-> applyMeta, skipDoctor |-> skipDoctor]

Setups   == { InitJob(local, a1, None, TRUE, TRUE, TRUE), InitJob(staging, a1, None, FALSE, FALSE, FALSE) }
Doctors  == { [kind |-> "doctor", profile |-> local] }
Creates  == { [kind |-> "create", profile |-> local, out |-> f1] }
Resolves == { [kind |-> "resolve", profile |-> local, path |-> f1, out |-> f1] }
Checks   == { [kind |-> "check", profile |-> local, path |-> f1] }
Applies  == { [kind |-> "apply", profile |-> local, path |-> f1] }
Verifies == { [kind |-> "verify", profile |-> local, path |-> f1, action |-> c] : c \in Command }

EveryJob == Setups \cup Doctors \cup Creates \cup Resolves \cup Checks \cup Applies \cup Verifies

\* Nothing, or a profile that reads from one address and writes to the other.
AtFirst  == { None, [n \in ProfileName |-> IF n = local THEN [source |-> a1, target |-> a2, oneUser |-> FALSE] ELSE None] }

Earlier == { [digest |-> b, body |-> b] :
               b \in {b \in Body : b.id = None /\ b.class = "safe" /\ ~b.edited} }

\* A profile that reads and writes with one account.
OneAccount == { [n \in ProfileName |-> IF n = local THEN [source |-> a1, target |-> a1, oneUser |-> TRUE] ELSE None] }

ByName == [n \in ProfileName |-> IF n = local THEN 1 ELSE 2]

\* What one would have of a file that is written at once: what can be read is what was saved.
EveryProfileKept ==
  config \in Config /\ (\A c \in Command : run[c].pc # "fill config") => config = saved

Symmetry == Permutations(Command) \cup Permutations(Server)
=============================================================================
