-------------------------- MODULE LocalEventStream --------------------------
(***************************************************************************)
(* Reading archived binlogs: one goroutine per file parses it and hands    *)
(* each event over an unbuffered channel (mysql/source localEventStream),  *)
(* the iterator assembles transactions out of them (binlogIterator.Next),  *)
(* and a command (`index build`, `txn list`, `txn show`) consumes those,   *)
(* stops when it has enough, and is interrupted or runs into its deadline  *)
(* at any moment.                                                          *)
(*                                                                         *)
(* Go's select is modelled as it works: a goroutine that arrives picks any *)
(* of the cases that are ready, or parks; a parked one takes the case of   *)
(* the first thing that happens to it.                                     *)
(***************************************************************************)
EXTENDS Integers, Sequences

CONSTANTS
  Files,      \* how many binlogs there are to scan, in the order of their names
  Length,     \* per file: how many events it holds
  Commits,    \* per file: the events that complete a transaction
  Commands    \* the commands: [kind, limit, target]

File     == 1..Files
Event    == UNION {1..Length[f] : f \in File}
Txn      == {t \in File \X Event : t[2] \in Commits[t[1]]}
Eof      == 0          \* io.EOF
CtxErr   == -1         \* context.Canceled or DeadlineExceeded
ParseErr == -2
Final    == {Eof, CtxErr, ParseErr}

\* limit 0: no limit.  A target is the transaction Find looks for.
CommandType == [kind : {"build", "list", "find"}, limit : Nat, target : Txn \cup {<<>>}]

ASSUME StreamAssumption ==
  /\ Files \in Nat \ {0}
  /\ Length \in [File -> Nat]
  /\ Commits \in [File -> SUBSET Nat] /\ \A f \in File : Commits[f] \subseteq 1..Length[f]
  /\ Commands \subseteq CommandType

VARIABLES
  cmd,        \* the command that runs
  broken,     \* the files at whose end ParseFile fails (truncated, or no binlog)
  ctx,        \* its context: live, or done and why
  \* the streams, per file
  sender,     \* the goroutine: none, parsing, at its select, parked there, closing, ended
  item,       \* what it offers: an event, or how the parsing ended
  parsed,     \* events parsed
  stopped,    \* parser.Stop was called
  child,      \* the stream's own context is done
  \* the command and its iterator
  reader,     \* where it is
  file,       \* the file it scans
  current,    \* the transaction that is complete and not yet returned, or 0
  exhausted,  \* the limit was reached
  ending,     \* why it closes the stream
  out,        \* the transactions it printed, indexed or looked at, in order
  outcome

input      == <<cmd, broken>>
streamVars == <<sender, item, parsed, stopped, child>>
readerVars == <<file, current, exhausted, ending, out, outcome>>
vars == <<input, ctx, streamVars, reader, readerVars>>

Init ==
  /\ cmd \in Commands /\ broken \in SUBSET File
  /\ ctx = "live"
  /\ sender = [f \in File |-> "none"]
  /\ item = [f \in File |-> Eof]
  /\ parsed = [f \in File |-> 0]
  /\ stopped = [f \in File |-> FALSE]
  /\ child = [f \in File |-> FALSE]
  /\ reader = "scan" /\ file = 1 /\ current = 0 /\ exhausted = FALSE
  /\ ending = "none" /\ out = <<>> /\ outcome = "none"

-----------------------------------------------------------------------------
(* What GetEvent's answer makes of the iterator and the command.           *)

\* Close the stream, for a reason.
CloseBecause(why) == reader' = "stop" /\ ending' = why

\* An error of Next.  `txn list` takes its own deadline for a normal end.
FailWith(err) ==
  CloseBecause(IF err = CtxErr /\ cmd.kind = "list" /\ ctx = "deadline" THEN "window" ELSE "failed")

\* A faulty variant: every error of the parser ends the file.
TakeErrorsAsEnd(result) ==
  /\ UNCHANGED <<file, exhausted, out, outcome>>
  /\ \/ result \in {Eof, ParseErr} /\ CloseBecause("eof") /\ UNCHANGED current
     \/ result = CtxErr /\ FailWith(result) /\ UNCHANGED current
     \/ /\ result \notin Final
        /\ reader' = "check" /\ UNCHANGED ending
        /\ current' = IF result \in Commits[file] THEN result ELSE 0

\* Next, after getEvent: io.EOF ends the file, an event goes to handleEvent.
Take(result) ==
  /\ UNCHANGED <<file, exhausted, out, outcome>>
  /\ \/ result = Eof /\ CloseBecause("eof") /\ UNCHANGED current
     \/ result \in {CtxErr, ParseErr} /\ FailWith(result) /\ UNCHANGED current
     \/ /\ result \notin Final
        /\ reader' = "check" /\ UNCHANGED ending
        /\ current' = IF result \in Commits[file] THEN result ELSE 0

-----------------------------------------------------------------------------
(* The goroutine of a file.                                                *)

\* After its select took the send: the callback returns, or the goroutine ends.
AfterSend(f) == sender' = [sender EXCEPT ![f] = IF item[f] \in Final THEN "closing" ELSE "parsing"]

\* After it took ctx.Done: the callback fails and ParseFile returns its error,
\* or the goroutine ends.
AfterDone(f) ==
  /\ sender' = [sender EXCEPT ![f] = IF item[f] \in Final THEN "closing" ELSE "select"]
  /\ item' = [item EXCEPT ![f] = IF @ \in Final THEN @ ELSE CtxErr]

\* Faulty variants: one event too many; nobody is told of the end.
ParsePast(f) ==
  /\ sender[f] = "parsing"
  /\ sender' = [sender EXCEPT ![f] = "select"]
  /\ IF ~stopped[f] /\ parsed[f] <= Length[f]
     THEN /\ parsed' = [parsed EXCEPT ![f] = @ + 1]
          /\ item' = [item EXCEPT ![f] = parsed[f] + 1]
     ELSE item' = [item EXCEPT ![f] = Eof] /\ UNCHANGED parsed
  /\ UNCHANGED <<input, ctx, stopped, child, reader, readerVars>>
ParseQuietly(f) ==
  /\ sender[f] = "parsing"
  /\ IF ~stopped[f] /\ parsed[f] < Length[f]
     THEN /\ parsed' = [parsed EXCEPT ![f] = @ + 1]
          /\ item' = [item EXCEPT ![f] = parsed[f] + 1]
          /\ sender' = [sender EXCEPT ![f] = "select"]
     ELSE sender' = [sender EXCEPT ![f] = "ended"] /\ UNCHANGED <<item, parsed>>
  /\ UNCHANGED <<input, ctx, stopped, child, reader, readerVars>>

\* ParseFile reads the next event, or returns.
Parse(f) ==
  /\ sender[f] = "parsing"
  /\ sender' = [sender EXCEPT ![f] = "select"]
  /\ IF ~stopped[f] /\ parsed[f] < Length[f]
     THEN /\ parsed' = [parsed EXCEPT ![f] = @ + 1]
          /\ item' = [item EXCEPT ![f] = parsed[f] + 1]
     ELSE /\ item' = [item EXCEPT ![f] = IF ~stopped[f] /\ f \in broken THEN ParseErr ELSE Eof]
          /\ UNCHANGED parsed
  /\ UNCHANGED <<input, ctx, stopped, child, reader, readerVars>>

Receiving(f) == file = f /\ reader = "parked"

\* A faulty variant: a select with a default case, which drops the event.
SenderSelectDropping(f) ==
  /\ sender[f] = "select"
  /\ \/ Receiving(f) /\ AfterSend(f) /\ Take(item[f])
     \/ ~Receiving(f) /\ AfterSend(f) /\ UNCHANGED <<reader, readerVars>>
  /\ UNCHANGED <<input, ctx, item, parsed, stopped, child>>

SenderSelect(f) ==
  /\ sender[f] = "select"
  /\ \/ Receiving(f) /\ AfterSend(f) /\ Take(item[f]) /\ UNCHANGED item
     \/ child[f] /\ AfterDone(f) /\ UNCHANGED <<reader, readerVars>>
     \/ /\ ~Receiving(f) /\ ~child[f]
        /\ sender' = [sender EXCEPT ![f] = "parked"]
        /\ UNCHANGED <<item, reader, readerVars>>
  /\ UNCHANGED <<input, ctx, parsed, stopped, child>>

\* The deferred close(results): a reader that is parked there gets io.EOF.
CloseResults(f) ==
  /\ sender[f] = "closing"
  /\ sender' = [sender EXCEPT ![f] = "ended"]
  /\ IF Receiving(f) THEN Take(Eof) ELSE UNCHANGED <<reader, readerVars>>
  /\ UNCHANGED <<input, ctx, item, parsed, stopped, child>>

-----------------------------------------------------------------------------
(* The contexts.                                                           *)

\* An interrupt, or the deadline of a command that has one.  A reader that is
\* parked sees it at once.
Cancel(why) ==
  /\ ctx = "live" /\ outcome = "none"
  /\ why = "deadline" => cmd.kind = "list"
  /\ ctx' = why
  /\ IF reader = "parked"
     THEN /\ CloseBecause(IF why = "deadline" THEN "window" ELSE "failed")
          /\ UNCHANGED <<file, current, exhausted, out, outcome>>
     ELSE UNCHANGED <<reader, readerVars>>
  /\ UNCHANGED <<input, streamVars>>

\* The stream's context is done; a goroutine parked in its select takes it.
ChildDone(f) ==
  /\ child' = [child EXCEPT ![f] = TRUE]
  /\ IF sender[f] = "parked" /\ ~child[f] THEN AfterDone(f) ELSE UNCHANGED <<sender, item>>

\* The parent hands its end down.
Propagate(f) ==
  /\ ctx # "live" /\ sender[f] # "none" /\ ~child[f]
  /\ ChildDone(f)
  /\ UNCHANGED <<input, ctx, parsed, stopped, reader, readerVars>>

-----------------------------------------------------------------------------
(* The command.                                                            *)

\* The next file: Build looks at its context first and the last file is followed
\* by the publication; Scan starts a goroutine.
Scan ==
  /\ reader = "scan"
  /\ \/ /\ file > Files
        /\ reader' = "end" /\ outcome' = "complete"
        /\ UNCHANGED <<sender, child>>
     \/ /\ file <= Files /\ cmd.kind = "build" /\ ctx # "live"
        /\ reader' = "end" /\ outcome' = "failed"
        /\ UNCHANGED <<sender, child>>
     \/ /\ file <= Files /\ (cmd.kind = "build" => ctx = "live")
        /\ sender' = [sender EXCEPT ![file] = "parsing"]
        /\ child' = [child EXCEPT ![file] = ctx # "live"]
        /\ reader' = "check" /\ UNCHANGED outcome
  /\ UNCHANGED <<input, ctx, item, parsed, stopped, file, current, exhausted, ending, out>>

\* The limit counts what Next returned.
Reached(outs) == cmd.limit > 0 /\ Len(outs) >= cmd.limit

\* The top of Next's loop: done, or the transaction that is complete, or the next event.
Check ==
  /\ reader = "check"
  /\ \/ exhausted /\ CloseBecause("enough") /\ UNCHANGED <<current, exhausted, out>>
     \/ ~exhausted /\ ctx # "live" /\ FailWith(CtxErr) /\ UNCHANGED <<current, exhausted, out>>
     \/ /\ ~exhausted /\ ctx = "live" /\ current # 0
        /\ out' = Append(out, <<file, current>>) /\ current' = 0
        /\ exhausted' = Reached(out')
        /\ IF cmd.target = <<file, current>> THEN CloseBecause("enough")
           ELSE UNCHANGED <<reader, ending>>
     \/ /\ ~exhausted /\ ctx = "live" /\ current = 0
        /\ reader' = "select" /\ UNCHANGED <<current, exhausted, ending, out>>
  /\ UNCHANGED <<input, ctx, streamVars, file, outcome>>

\* GetEvent.
ReaderSelect ==
  /\ reader = "select"
  /\ \/ sender[file] = "parked" /\ AfterSend(file) /\ Take(item[file])
     \/ sender[file] = "ended" /\ Take(Eof) /\ UNCHANGED sender
     \/ ctx # "live" /\ Take(CtxErr) /\ UNCHANGED sender
     \/ /\ sender[file] \notin {"parked", "ended"} /\ ctx = "live"
        /\ reader' = "parked" /\ UNCHANGED <<sender, readerVars>>
  /\ UNCHANGED <<input, ctx, item, parsed, stopped, child>>

\* Close: the parser is stopped, then the context is cancelled.
StopParser ==
  /\ reader = "stop"
  /\ stopped' = [stopped EXCEPT ![file] = TRUE]
  /\ reader' = "cancel"
  /\ UNCHANGED <<input, ctx, sender, item, parsed, child, readerVars>>

\* A faulty variant: Close only stops the parser.
CancelNothing ==
  /\ reader = "cancel"
  /\ IF ending = "eof" /\ cmd.kind = "build"
     THEN reader' = "scan" /\ file' = file + 1 /\ ending' = "none" /\ UNCHANGED outcome
     ELSE /\ reader' = "end"
          /\ outcome' = IF ending = "eof" THEN "complete" ELSE ending
          /\ UNCHANGED <<file, ending>>
  /\ UNCHANGED <<input, ctx, streamVars, current, exhausted, out>>

CancelStream ==
  /\ reader = "cancel"
  /\ ChildDone(file)
  /\ IF ending = "eof" /\ cmd.kind = "build"
     THEN reader' = "scan" /\ file' = file + 1 /\ ending' = "none" /\ UNCHANGED outcome
     ELSE /\ reader' = "end"
          /\ outcome' = IF ending = "eof" THEN "complete" ELSE ending
          /\ UNCHANGED <<file, ending>>
  /\ UNCHANGED <<input, ctx, parsed, stopped, current, exhausted, out>>

-----------------------------------------------------------------------------

Goroutine(f) == Parse(f) \/ SenderSelect(f) \/ CloseResults(f)
Reader       == Scan \/ Check \/ ReaderSelect \/ StopParser \/ CancelStream
Interrupt    == Cancel("interrupt") \/ Cancel("deadline")

\* The command has returned.
Finished == reader = "end" /\ UNCHANGED vars

Next ==
  \/ Reader
  \/ \E f \in File : Goroutine(f) \/ Propagate(f)
  \/ Interrupt
  \/ Finished

\* The Go runtime runs every goroutine that can run.
Fairness == WF_vars(Reader) /\ \A f \in File : WF_vars(Goroutine(f)) /\ WF_vars(Propagate(f))
Spec     == Init /\ [][Next]_vars /\ Fairness

-----------------------------------------------------------------------------
(* Properties.                                                             *)

TypeOK ==
  /\ cmd \in Commands /\ broken \subseteq File
  /\ ctx \in {"live", "interrupt", "deadline"}
  /\ sender \in [File -> {"none", "parsing", "select", "parked", "closing", "ended"}]
  /\ item \in [File -> Final \cup Event]
  /\ parsed \in [File -> Nat] /\ \A f \in File : parsed[f] <= Length[f]
  /\ stopped \in [File -> BOOLEAN] /\ child \in [File -> BOOLEAN]
  /\ reader \in {"scan", "check", "select", "parked", "stop", "cancel", "end"}
  /\ file \in 1..(Files + 1) /\ (reader # "scan" /\ reader # "end" => file <= Files)
  /\ current \in {0} \cup Event
  /\ exhausted \in BOOLEAN
  /\ ending \in {"none", "eof", "failed", "enough", "window"}
  /\ out \in Seq(Txn)
  /\ outcome \in {"none", "complete", "failed", "enough", "window"}

Before(t, u) == t[1] < u[1] \/ (t[1] = u[1] /\ t[2] < u[2])
Preceding(t) == {u \in Txn : Before(u, t)}
Returned     == {out[i] : i \in DOMAIN out}

\* Whatever is parsed ahead, parked, dropped by a cancellation or left over by an
\* earlier file's goroutine that still runs, the command sees the transactions of
\* the archive in their order, each once and none left out.
InOrder ==
  [][Len(out') > Len(out) => /\ Len(out') = Len(out) + 1
                             /\ Returned = Preceding(out'[Len(out')])]_vars

\* What a command has to see before it may say that there is nothing more.
Wanted   == IF cmd.kind = "build" THEN Txn ELSE {t \in Txn : t[1] = 1}
Scanned  == IF cmd.kind = "build" THEN File ELSE {1}
Complete == Returned = Wanted /\ cmd.target \notin Wanted /\ broken \cap Scanned = {}

\* A command that nobody interrupts publishes an index, ends a listing or says that a
\* transaction is not there only after all of the file, of every file, was read: no
\* parse error and no early end is taken for the end of the file.
CompleteUnlessStopped == outcome = "complete" /\ ctx = "live" => Complete

\* Every command ends: it never waits for a goroutine that waits for it, or is gone.
Answered == <>(outcome # "none")

\* No goroutine is left behind by a command that stops early, fails or is interrupted.
NoLeak == \A f \in File : sender[f] # "none" ~> sender[f] = "ended"

\* README.md:168 says of the index that the output is published after the temporary
\* file is complete, and index.go:58 that Build scans every file before it publishes.
PublishedIsComplete == cmd.kind = "build" /\ outcome = "complete" => Complete
=============================================================================
