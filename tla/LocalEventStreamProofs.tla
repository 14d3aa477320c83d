----------------------- MODULE LocalEventStreamProofs -----------------------
(***************************************************************************)
(* What LocalEventStream promises, for archives of any size: the order of  *)
(* what a command sees, and that it reports a complete scan only after     *)
(* one, unless it was stopped.                                             *)
(*                                                                         *)
(* The inductive invariant speaks of a context that is live: once it is    *)
(* done the iterator returns no transaction, and nothing is promised.      *)
(***************************************************************************)
EXTENDS LocalEventStream, SequenceTheorems, TLAPS

Open == reader \in {"check", "select", "parked"}

\* The transactions up to the n-th event of file f.
UpTo(f, n) == {u \in Txn : u[1] < f \/ (u[1] = f /\ u[2] <= n)}

\* How many events of its file the iterator has been given.
Given == IF sender[file] \in {"select", "parked"} /\ item[file] \notin Final
         THEN parsed[file] - 1 ELSE parsed[file]

\* Streams that are not open yet.
Fresh == \A f \in File :
  f > file \/ (f = file /\ reader = "scan")
    => sender[f] = "none" /\ parsed[f] = 0 /\ ~stopped[f] /\ ~child[f]

\* While the iterator reads, the goroutine is there, and they are not parked together.
Feeding == Open =>
  /\ ~stopped[file] /\ ~child[file]
  /\ sender[file] \in {"parsing", "select", "parked"}
  /\ reader = "parked" => sender[file] # "parked"

\* The goroutine offers the event it parsed last, or the end of what it parsed.
Offering == Open /\ sender[file] \in {"select", "parked"} =>
  \/ item[file] = parsed[file] /\ parsed[file] >= 1
  \/ item[file] = Eof /\ parsed[file] = Length[file] /\ file \notin broken
  \/ item[file] = ParseErr

\* What was returned is everything up to the event the iterator is at.
Position == Open =>
  \/ current = 0 /\ Returned = UpTo(file, Given)
  \/ /\ reader = "check" /\ current = Given /\ current \in Commits[file]
     /\ Returned = UpTo(file, Given - 1)

Between == reader = "scan" => current = 0 /\ Returned = UpTo(file, 0)

AtEnd == reader \in {"stop", "cancel"} /\ ending = "eof" =>
  current = 0 /\ Returned = UpTo(file + 1, 0) /\ file \notin broken

\* The files behind were read to their end; only a build reads several.
Behind ==
  /\ broken \cap 1..(file - 1) = {}
  /\ cmd.kind # "build" => file = 1

Going ==
  /\ Open \/ reader = "scan" => ending = "none"
  /\ reader # "end" => outcome = "none"
  /\ reader # "end" /\ ending # "enough" => cmd.target \notin Returned

Live == Fresh /\ Feeding /\ Offering /\ Position /\ Between /\ AtEnd /\ Behind /\ Going
        /\ (outcome = "complete" => Complete)

IInv == TypeOK /\ (ctx = "live" => Live)

-----------------------------------------------------------------------------
(* Events and transactions.                                                *)

LEMMA EventFacts ==
  /\ Event \subseteq Nat \ {0} /\ Event \cap Final = {}
  /\ \A f \in File : 1..Length[f] \subseteq Event /\ Commits[f] \subseteq 1..Length[f]
BY StreamAssumption DEF Event, Final, Eof, CtxErr, ParseErr, File

LEMMA TxnFacts ==
  /\ \A u \in Txn : u[1] \in File /\ u[2] \in Commits[u[1]] /\ u = <<u[1], u[2]>>
  /\ \A f \in File : \A n \in Commits[f] : <<f, n>> \in Txn /\ <<f, n>>[1] = f /\ <<f, n>>[2] = n
BY EventFacts DEF Txn

\* An event that completes nothing moves the position and nothing else.
LEMMA UpToSkip ==
  ASSUME NEW f \in File, NEW n \in Nat, n \notin Commits[f]
  PROVE  UpTo(f, n) = UpTo(f, n - 1)
<1>1. \A u \in Txn : u[1] = f => u[2] \in Nat /\ u[2] # n
  BY TxnFacts, EventFacts
<1> QED BY <1>1 DEF UpTo

\* A transaction is preceded by all up to the event before its last.
LEMMA UpToCommit ==
  ASSUME NEW f \in File, NEW n \in Commits[f]
  PROVE  /\ UpTo(f, n) = UpTo(f, n - 1) \cup {<<f, n>>}
         /\ Preceding(<<f, n>>) = UpTo(f, n - 1)
<1>1. <<f, n>> \in Txn /\ <<f, n>>[1] = f /\ <<f, n>>[2] = n /\ n \in Nat
  BY TxnFacts, EventFacts
<1>2. \A u \in Txn : u = <<u[1], u[2]>> /\ u[1] \in Nat /\ u[2] \in Nat
  BY TxnFacts, EventFacts DEF File
<1>3. UpTo(f, n) = UpTo(f, n - 1) \cup {<<f, n>>}
  BY <1>1, <1>2 DEF UpTo
<1>4. Preceding(<<f, n>>) = UpTo(f, n - 1)
  BY <1>1, <1>2 DEF UpTo, Preceding, Before
<1> QED BY <1>3, <1>4

LEMMA UpToEnd ==
  ASSUME NEW f \in File
  PROVE  UpTo(f, Length[f]) = UpTo(f + 1, 0)
<1>1. \A u \in Txn : u[1] \in Nat /\ u[2] \in Nat \ {0} /\ (u[1] = f => u[2] <= Length[f])
  BY TxnFacts, EventFacts, StreamAssumption DEF File
<1> QED BY <1>1, StreamAssumption DEF UpTo, File

LEMMA UpToWanted ==
  /\ UpTo(1, 0) = {}
  /\ UpTo(2, 0) = {t \in Txn : t[1] = 1}
  /\ UpTo(Files + 1, 0) = Txn
<1>1. \A u \in Txn : u[1] \in 1..Files /\ u[2] \in Nat \ {0}
  BY TxnFacts, EventFacts DEF File
<1> QED BY <1>1, StreamAssumption DEF UpTo

LEMMA ReturnedAppend ==
  ASSUME TypeOK, NEW t \in Txn, out' = Append(out, t)
  PROVE  Returned' = Returned \cup {t} /\ Len(out') = Len(out) + 1 /\ out'[Len(out')] = t
<1>1. out \in Seq(Txn) /\ Len(out) \in Nat
  BY DEF TypeOK
<1>2. Len(out') = Len(out) + 1 /\ out'[Len(out')] = t
  BY <1>1
<1>3. DOMAIN out' = 1..Len(out) + 1 /\ DOMAIN out = 1..Len(out)
  BY <1>1, <1>2
<1>4. \A i \in 1..Len(out) : out'[i] = out[i]
  BY <1>1
<1>5. Returned' = Returned \cup {t}
  BY <1>1, <1>2, <1>3, <1>4 DEF Returned
<1> QED BY <1>2, <1>5

-----------------------------------------------------------------------------
(* Types.                                                                  *)

\* An answer of GetEvent leaves the iterator and the command in their types.
LEMMA TakeType ==
  ASSUME TypeOK, NEW result \in Final \cup Event, Take(result), file \in File
  PROVE  /\ reader' \in {"check", "stop"} /\ file' = file /\ current' \in {0} \cup Event
         /\ exhausted' = exhausted /\ out' = out /\ outcome' = outcome
         /\ ending' \in {"none", "eof", "failed", "enough", "window"}
<1>1. CASE result \in Final
  BY <1>1 DEF TypeOK, Take, FailWith, CloseBecause, Final
<1>2. CASE result \notin Final
  BY <1>2 DEF TypeOK, Take, Final, Eof, CtxErr, ParseErr
<1> QED BY <1>1, <1>2

\* The iterator is at a file of the archive unless it is between files.
LEMMA TypeStep ==
  ASSUME IInv, [Next]_vars
  PROVE  TypeOK'
<1> USE DEF IInv
<1>0. CASE UNCHANGED vars
  BY <1>0 DEF TypeOK, vars, input, streamVars, readerVars
<1>1. ASSUME NEW f \in File, Parse(f) PROVE TypeOK'
  <2>1. parsed[f] \in Nat /\ Length[f] \in Nat
    BY StreamAssumption DEF TypeOK
  <2>2. parsed[f] < Length[f] => parsed[f] + 1 \in Event
    BY <2>1, EventFacts
  <2>3. Eof \in Final /\ ParseErr \in Final
    BY DEF Final
  <2>4. item' \in [File -> Final \cup Event]
    BY <1>1, <2>1, <2>2, <2>3 DEF TypeOK, Parse
  <2>5. parsed' \in [File -> Nat] /\ \A g \in File : parsed'[g] <= Length[g]
    <3>1. CASE ~stopped[f] /\ parsed[f] < Length[f]
      <4>1. parsed' = [parsed EXCEPT ![f] = @ + 1] /\ parsed[f] + 1 <= Length[f]
        BY <1>1, <2>1, <3>1 DEF Parse
      <4> QED BY <2>1, <4>1 DEF TypeOK
    <3>2. CASE ~(~stopped[f] /\ parsed[f] < Length[f])
      BY <1>1, <3>2 DEF TypeOK, Parse
    <3> QED BY <3>1, <3>2
  <2> QED BY <1>1, <2>4, <2>5 DEF TypeOK, Parse, input, readerVars
<1>2. ASSUME NEW f \in File, SenderSelect(f) PROVE TypeOK'
  <2>1. CASE Receiving(f) /\ AfterSend(f) /\ Take(item[f]) /\ UNCHANGED item
    <3>1. file = f /\ item[f] \in Final \cup Event
      BY <2>1 DEF Receiving, TypeOK
    <3>2. /\ reader' \in {"check", "stop"} /\ file' = file /\ current' \in {0} \cup Event
          /\ exhausted' = exhausted /\ out' = out /\ outcome' = outcome
          /\ ending' \in {"none", "eof", "failed", "enough", "window"}
      BY <2>1, <3>1, TakeType
    <3>3. sender' \in [File -> {"none", "parsing", "select", "parked", "closing", "ended"}]
      BY <2>1 DEF TypeOK, AfterSend
    <3> QED BY <1>2, <2>1, <3>1, <3>2, <3>3 DEF TypeOK, SenderSelect, input, File
  <2>2. CASE child[f] /\ AfterDone(f) /\ UNCHANGED <<reader, readerVars>>
    BY <1>2, <2>2 DEF TypeOK, SenderSelect, AfterDone, input, readerVars, Final
  <2>3. CASE ~Receiving(f) /\ ~child[f] /\ sender' = [sender EXCEPT ![f] = "parked"]
              /\ UNCHANGED <<item, reader, readerVars>>
    BY <1>2, <2>3 DEF TypeOK, SenderSelect, input, readerVars
  <2> QED BY <1>2, <2>1, <2>2, <2>3 DEF SenderSelect
<1>3. ASSUME NEW f \in File, CloseResults(f) PROVE TypeOK'
  <2>1. CASE Receiving(f)
    <3>1. file = f /\ Eof \in Final \cup Event
      BY <2>1 DEF Receiving, Final
    <3>2. Take(Eof)
      BY <1>3, <2>1 DEF CloseResults
    <3>3. /\ reader' \in {"check", "stop"} /\ file' = file /\ current' \in {0} \cup Event
          /\ exhausted' = exhausted /\ out' = out /\ outcome' = outcome
          /\ ending' \in {"none", "eof", "failed", "enough", "window"}
      BY <3>1, <3>2, TakeType
    <3> QED BY <1>3, <3>1, <3>3 DEF TypeOK, CloseResults, input, File
  <2>2. CASE ~Receiving(f)
    BY <1>3, <2>2 DEF TypeOK, CloseResults, input, readerVars
  <2> QED BY <2>1, <2>2
<1>4. ASSUME NEW f \in File, Propagate(f) PROVE TypeOK'
  BY <1>4 DEF TypeOK, Propagate, ChildDone, AfterDone, input, readerVars, Final
<1>5. CASE Interrupt
  BY <1>5 DEF TypeOK, Interrupt, Cancel, CloseBecause, input, readerVars, streamVars
<1>6. CASE Scan
  BY <1>6, StreamAssumption DEF TypeOK, Scan, input, File
<1>7. CASE Check
  <2>1. CASE ctx = "live" /\ current # 0 /\ ~exhausted
    <3>1. current \in Commits[file] /\ file \in File
      BY <1>7, <2>1 DEF Live, Position, Open, Check, TypeOK, File
    <3>2. <<file, current>> \in Txn
      BY <3>1, TxnFacts
    <3>3. out' = Append(out, <<file, current>>)
      BY <1>7, <2>1 DEF Check
    <3>4. out' \in Seq(Txn)
      BY <3>2, <3>3 DEF TypeOK
    <3>5. exhausted' \in BOOLEAN /\ current' = 0
      BY <1>7, <2>1 DEF Check, Reached
    <3> QED BY <1>7, <2>1, <3>4, <3>5 DEF TypeOK, Check, CloseBecause, input, streamVars
  <2>2. CASE ~(ctx = "live" /\ current # 0 /\ ~exhausted)
    BY <1>7, <2>2 DEF TypeOK, Check, CloseBecause, FailWith, input, streamVars
  <2> QED BY <2>1, <2>2
<1>8. CASE ReaderSelect
  <2>1. file \in File
    BY <1>8 DEF ReaderSelect, TypeOK, File
  <2>2. item[file] \in Final \cup Event /\ Eof \in Final /\ CtxErr \in Final
    BY <2>1 DEF TypeOK, Final
  <2>3. CASE sender[file] = "parked" /\ AfterSend(file) /\ Take(item[file])
    BY <1>8, <2>1, <2>2, <2>3, TakeType DEF TypeOK, ReaderSelect, AfterSend, input
  <2>4. CASE sender' = sender /\ (Take(Eof) \/ Take(CtxErr))
    BY <1>8, <2>1, <2>2, <2>4, TakeType DEF TypeOK, ReaderSelect, input
  <2>5. CASE reader' = "parked" /\ UNCHANGED <<sender, readerVars>>
    BY <1>8, <2>1, <2>5 DEF TypeOK, ReaderSelect, input, readerVars, File
  <2> QED BY <1>8, <2>3, <2>4, <2>5 DEF ReaderSelect
<1>9. CASE StopParser
  BY <1>9 DEF TypeOK, StopParser, input, readerVars
<1>10. CASE CancelStream
  <2>1. file \in File
    BY <1>10 DEF CancelStream, TypeOK, File
  <2>2. child' \in [File -> BOOLEAN] /\ item' \in [File -> Final \cup Event]
        /\ sender' \in [File -> {"none", "parsing", "select", "parked", "closing", "ended"}]
    BY <1>10, <2>1 DEF TypeOK, CancelStream, ChildDone, AfterDone, Final
  <2>3. /\ reader' \in {"scan", "end"} /\ file' \in 1..(Files + 1)
        /\ ending' \in {"none", "eof", "failed", "enough", "window"}
        /\ outcome' \in {"none", "complete", "failed", "enough", "window"}
    BY <1>10, <2>1, StreamAssumption DEF TypeOK, CancelStream, File
  <2> QED BY <1>10, <2>2, <2>3 DEF TypeOK, CancelStream, input
<1>11. CASE Finished
  BY <1>11, <1>0 DEF Finished
<1> QED
  BY <1>0, <1>1, <1>2, <1>3, <1>4, <1>5, <1>6, <1>7, <1>8, <1>9, <1>10, <1>11
  DEF Next, Goroutine, Reader

-----------------------------------------------------------------------------
(* While the context is live.                                              *)

\* A stream that is not the one being read changes nothing of what is promised.
LEMMA OtherStream ==
  ASSUME IInv, Live, NEW f \in File, sender[f] # "none", f # file \/ ~Open,
         UNCHANGED <<input, reader, readerVars, stopped, child>>,
         \A g \in File : g # f => /\ sender'[g] = sender[g] /\ item'[g] = item[g]
                                 /\ parsed'[g] = parsed[g]
  PROVE  Live'
<1>1. Returned' = Returned /\ (Open' <=> Open) /\ file' = file /\ (Complete' <=> Complete)
  BY DEF input, readerVars, Returned, Open, Complete, Wanted, Scanned
<1>2. Open => file \in File /\ file # f
  BY DEF Open, IInv, TypeOK, File
<1>3. Open => Given' = Given
  BY <1>1, <1>2 DEF Given
<1>4. Fresh'
  BY DEF Live, Fresh, input, readerVars
<1>5. Feeding' /\ Offering'
  BY <1>1, <1>2 DEF Live, Feeding, Offering, input, readerVars
<1>6. Position'
  BY <1>1, <1>2, <1>3 DEF Live, Position, readerVars, UpTo
<1>7. Between' /\ AtEnd' /\ Behind' /\ Going'
  BY <1>1 DEF Live, Between, AtEnd, Behind, Going, input, readerVars, UpTo
<1> QED BY <1>1, <1>4, <1>5, <1>6, <1>7 DEF Live, readerVars

\* An event, or the end of the file, goes from the goroutine to the iterator.
LEMMA Handover ==
  ASSUME IInv, Live, reader \in {"select", "parked"}, sender[file] \in {"select", "parked"},
         AfterSend(file), Take(item[file]),
         UNCHANGED <<input, ctx, item, parsed, stopped, child>>
  PROVE  Live'
<1>1. /\ Open /\ file \in File /\ file' = file /\ out' = out /\ outcome' = outcome
      /\ Returned' = Returned /\ (Complete' <=> Complete) /\ current = 0
  BY DEF Open, IInv, TypeOK, File, Take, Returned, Complete, Wanted, Scanned, input, Live, Position
<1>2. Offering /\ Position /\ Going /\ Feeding /\ Fresh /\ Behind
  BY DEF Live
<1>3. parsed[file] \in Nat /\ Length[file] \in Nat
  BY <1>1, StreamAssumption DEF IInv, TypeOK
<1>4. \A g \in File : g # file => sender'[g] = sender[g]
  BY <1>1 DEF AfterSend, IInv, TypeOK
<1>5. Fresh' /\ Behind' /\ (outcome = "none" /\ cmd.target \notin Returned)
  BY <1>1, <1>2, <1>4 DEF Fresh, Behind, Going, Open, input, Take, CloseBecause, FailWith
<1>6. CASE item[file] = parsed[file] /\ parsed[file] >= 1
  <2>1. item[file] \notin Final /\ item[file] # Eof
    BY <1>3, <1>6 DEF Final, Eof, CtxErr, ParseErr
  <2>2. /\ sender'[file] = "parsing" /\ reader' = "check" /\ ending' = ending
        /\ current' = IF item[file] \in Commits[file] THEN item[file] ELSE 0
    BY <1>1, <2>1 DEF AfterSend, Take, IInv, TypeOK, Final
  <2>3. Given = parsed[file] - 1 /\ Given' = parsed[file] /\ Open'
    BY <1>1, <2>1, <2>2 DEF Given, Open
  <2>4. Returned = UpTo(file, parsed[file] - 1)
    BY <1>1, <1>2, <2>3 DEF Position
  <2>5. Position'
    <3>1. CASE item[file] \in Commits[file]
      BY <1>1, <1>6, <2>2, <2>3, <2>4, <3>1 DEF Position, UpTo
    <3>2. CASE item[file] \notin Commits[file]
      <4>1. UpTo(file, parsed[file]) = UpTo(file, parsed[file] - 1)
        BY <1>1, <1>3, <1>6, <3>2, UpToSkip
      <4> QED BY <1>1, <1>6, <2>2, <2>3, <2>4, <3>2, <4>1 DEF Position, UpTo
    <3> QED BY <3>1, <3>2
  <2>6. Feeding' /\ Offering' /\ Between' /\ AtEnd' /\ Going'
    BY <1>1, <1>2, <1>5, <2>2 DEF Feeding, Offering, Between, AtEnd, Going, Open, input
  <2> QED BY <1>1, <1>5, <2>5, <2>6 DEF Live
<1>7. CASE item[file] = Eof /\ parsed[file] = Length[file] /\ file \notin broken
  <2>1. reader' = "stop" /\ ending' = "eof" /\ current' = current
    BY <1>1, <1>7 DEF Take, CloseBecause, Final, Eof, CtxErr, ParseErr
  <2>2. Given = Length[file]
    BY <1>7 DEF Given, Final
  <2>3. Returned = UpTo(file + 1, 0)
    BY <1>1, <1>2, <2>2, UpToEnd DEF Position
  <2>4. AtEnd'
    BY <1>1, <1>7, <2>1, <2>3 DEF AtEnd, input, UpTo
  <2>5. Feeding' /\ Offering' /\ Position' /\ Between' /\ Going'
    BY <1>1, <1>5, <2>1 DEF Feeding, Offering, Position, Between, Going, Open, input
  <2> QED BY <1>1, <1>5, <2>4, <2>5 DEF Live
<1>8. CASE item[file] = ParseErr
  <2>1. reader' = "stop" /\ ending' = "failed"
    BY <1>1, <1>8 DEF Take, FailWith, CloseBecause, Final, Eof, CtxErr, ParseErr
  <2>2. Feeding' /\ Offering' /\ Position' /\ Between' /\ AtEnd' /\ Going'
    BY <1>1, <1>5, <2>1 DEF Feeding, Offering, Position, Between, AtEnd, Going, Open, input
  <2> QED BY <1>1, <1>5, <2>2 DEF Live
<1> QED BY <1>1, <1>2, <1>6, <1>7, <1>8 DEF Offering

\* The goroutine parses on: what it has handed over does not change.
LEMMA ParseKeeps ==
  ASSUME IInv, Live, NEW f \in File, Parse(f)
  PROVE  Live'
<1>1. /\ UNCHANGED <<input, reader, readerVars, stopped, child>> /\ sender[f] = "parsing"
      /\ \A g \in File : g # f => /\ sender'[g] = sender[g] /\ item'[g] = item[g]
                                  /\ parsed'[g] = parsed[g]
  BY DEF Parse, IInv, TypeOK
<1>2. CASE f # file \/ ~Open
  BY <1>1, <1>2, OtherStream
<1>3. CASE f = file /\ Open
  <2>0. Returned' = Returned /\ Open' /\ file' = file /\ (Complete' <=> Complete)
    BY <1>1, <1>3 DEF input, readerVars, Returned, Open, Complete, Wanted, Scanned
  <2>1. /\ Returned' = Returned /\ Open' /\ file' = file /\ (Complete' <=> Complete)
        /\ Given = parsed[f] /\ parsed[f] \in Nat /\ Length[f] \in Nat /\ ~stopped[f]
        /\ parsed[f] <= Length[f] /\ sender'[f] = "select"
    <3>1. parsed[f] \in Nat /\ Length[f] \in Nat /\ parsed[f] <= Length[f] /\ ~stopped[f]
      BY <1>3, StreamAssumption DEF IInv, TypeOK, Live, Feeding
    <3>2. Given = parsed[f] /\ sender'[f] = "select"
      BY <1>1, <1>3 DEF Given, Parse, IInv, TypeOK
    <3> QED BY <2>0, <3>1, <3>2
  <2>2. CASE parsed[f] < Length[f]
    <3>1. item'[f] = parsed[f] + 1 /\ parsed'[f] = parsed[f] + 1
      BY <2>1, <2>2 DEF Parse, IInv, TypeOK
    <3>2. Given' = Given /\ Offering'
      BY <1>3, <2>1, <3>1 DEF Given, Offering, Final, Eof, CtxErr, ParseErr
    <3> QED BY <1>1, <1>3, <2>1, <3>2
            DEF Live, Fresh, Feeding, Position, Between, AtEnd, Behind, Going, input, readerVars, Open, UpTo
  <2>3. CASE parsed[f] = Length[f]
    <3>1. item'[f] = (IF f \in broken THEN ParseErr ELSE Eof) /\ parsed'[f] = parsed[f]
      BY <2>1, <2>3 DEF Parse, IInv, TypeOK
    <3>2. Given' = Given /\ Offering'
      BY <1>1, <1>3, <2>1, <2>3, <3>1 DEF Given, Offering, Final, input
    <3> QED BY <1>1, <1>3, <2>1, <3>2
            DEF Live, Fresh, Feeding, Position, Between, AtEnd, Behind, Going, input, readerVars, Open, UpTo
  <2> QED BY <2>1, <2>2, <2>3
<1> QED BY <1>2, <1>3

\* What is in the archive beyond the last file: nothing.
LEMMA BehindAll ==
  ASSUME IInv, Live, reader = "scan", file > Files
  PROVE  Complete
<1>1. file = Files + 1 /\ cmd.kind = "build" /\ Returned = Txn
  BY StreamAssumption, UpToWanted DEF IInv, TypeOK, Live, Between, Behind
<1>2. broken \cap File = {}
  BY <1>1, StreamAssumption DEF Live, Behind, File
<1>3. cmd.target \notin Txn
  BY <1>1 DEF Live, Between, Going, IInv, TypeOK
<1> QED BY <1>1, <1>2, <1>3 DEF Complete, Wanted, Scanned

LEMMA ScanKeeps ==
  ASSUME IInv, Live, Scan, ctx = "live"
  PROVE  Live'
<1>1. /\ UNCHANGED <<input, item, parsed, stopped, file, current, exhausted, ending, out>>
      /\ Returned' = Returned /\ (Complete' <=> Complete) /\ reader = "scan"
      /\ current = 0 /\ Returned = UpTo(file, 0)
  BY DEF Scan, input, Returned, Complete, Wanted, Scanned, Live, Between
<1>2. CASE file > Files
  <2>1. reader' = "end" /\ UNCHANGED <<sender, child>>
    BY <1>2, <1>1, StreamAssumption DEF Scan, IInv, TypeOK
  <2>2. Complete
    BY <1>1, <1>2, BehindAll
  <2> QED BY <1>1, <2>1, <2>2 DEF Live, Fresh, Feeding, Offering, Position, Between, AtEnd,
             Behind, Going, input, Open
<1>3. CASE file <= Files /\ reader' = "end" /\ outcome' = "failed" /\ UNCHANGED <<sender, child>>
  BY <1>1, <1>3 DEF Live, Fresh, Feeding, Offering, Position, Between, AtEnd, Behind, Going, input, Open
<1>4. CASE file <= Files /\ reader' = "check" /\ ctx = "live"
  <2>1. file \in File /\ Open' /\ outcome' = outcome
    BY <1>1, <1>4 DEF IInv, TypeOK, File, Open, Scan
  <2>2. /\ sender'[file] = "parsing" /\ ~child'[file]
        /\ \A g \in File : g # file => sender'[g] = sender[g] /\ child'[g] = child[g]
    BY <1>1, <1>4, <2>1 DEF Scan, IInv, TypeOK
  <2>3. parsed[file] = 0 /\ ~stopped[file]
    BY <1>1, <2>1 DEF Live, Fresh
  <2>4. Given' = 0
    BY <1>1, <2>2, <2>3 DEF Given
  <2>5. Position'
    BY <1>1, <2>4 DEF Position, UpTo
  <2>6. Fresh'
    BY <1>1, <1>4, <2>1, <2>2 DEF Live, Fresh, IInv, TypeOK, File
  <2> QED BY <1>1, <1>4, <2>1, <2>2, <2>3, <2>5, <2>6
          DEF Live, Feeding, Offering, Between, AtEnd, Behind, Going, input
<1>5. file \in Nat /\ Files \in Nat
  BY StreamAssumption DEF IInv, TypeOK
<1> QED BY <1>2, <1>3, <1>4, <1>5 DEF Scan

\* A transaction is returned: it is the one that follows all that were.
LEMMA ReturnIsNext ==
  ASSUME IInv, Live, Open, current # 0
  PROVE  /\ current \in Commits[file] /\ file \in File /\ <<file, current>> \in Txn
         /\ current = Given /\ Returned = Preceding(<<file, current>>)
         /\ UpTo(file, Given) = Returned \cup {<<file, current>>}
<1>1. current = Given /\ current \in Commits[file] /\ Returned = UpTo(file, Given - 1) /\ file \in File
  BY DEF Live, Position, Open, IInv, TypeOK, File
<1>2. <<file, current>> \in Txn
  BY <1>1, TxnFacts
<1> QED BY <1>1, <1>2, UpToCommit

LEMMA CheckKeeps ==
  ASSUME IInv, Live, Check, ctx = "live"
  PROVE  Live'
<1>1. /\ UNCHANGED <<input, ctx, streamVars, file, outcome>> /\ reader = "check" /\ Open
      /\ Given' = Given /\ outcome = "none" /\ ending = "none" /\ cmd.target \notin Returned
  BY DEF Check, Open, streamVars, Given, Live, Going
<1>2. Fresh' /\ Behind'
  BY <1>1 DEF Live, Fresh, Behind, input, streamVars, Check, CloseBecause, FailWith
<1>3. CASE exhausted
  <2>1. reader' = "stop" /\ ending' = "enough"
    BY <1>3 DEF Check, CloseBecause
  <2> QED BY <1>1, <1>2, <2>1 DEF Live, Feeding, Offering, Position, Between, AtEnd, Going, Open
<1>4. CASE ~exhausted /\ current # 0
  <2>1. /\ out' = Append(out, <<file, current>>) /\ current' = 0
        /\ IF cmd.target = <<file, current>> THEN CloseBecause("enough")
           ELSE UNCHANGED <<reader, ending>>
    BY <1>4 DEF Check
  <2>2. Returned' = Returned \cup {<<file, current>>}
    BY <1>1, <1>4, <2>1, ReturnIsNext, ReturnedAppend DEF IInv
  <2>3. Returned' = UpTo(file, Given)
    BY <1>1, <1>4, <2>2, ReturnIsNext
  <2>4. CASE cmd.target = <<file, current>>
    <3>1. reader' = "stop" /\ ending' = "enough"
      BY <2>1, <2>4 DEF CloseBecause
    <3> QED BY <1>1, <1>2, <3>1 DEF Live, Feeding, Offering, Position, Between, AtEnd, Going, Open
  <2>5. CASE cmd.target # <<file, current>>
    <3>1. reader' = reader /\ ending' = ending
      BY <2>1, <2>5
    <3>2. Position'
      BY <1>1, <2>1, <2>3 DEF Position, UpTo
    <3>3. Feeding' /\ Offering' /\ Between' /\ AtEnd'
      BY <1>1, <3>1 DEF Live, Feeding, Offering, Between, AtEnd, Open, streamVars, input
    <3>4. Going' /\ outcome' # "complete"
      BY <1>1, <2>2, <2>5, <3>1 DEF Going, Open, input
    <3> QED BY <1>2, <3>2, <3>3, <3>4 DEF Live
  <2> QED BY <2>4, <2>5
<1>5. CASE ~exhausted /\ current = 0
  <2>1. reader' = "select" /\ UNCHANGED <<current, ending, out>>
    BY <1>5 DEF Check
  <2>2. Returned' = Returned
    BY <2>1 DEF Returned
  <2>3. Position'
    <3>1. 0 \notin Commits[file]
      BY <1>1, EventFacts DEF Open, IInv, TypeOK, File
    <3>2. Returned = UpTo(file, Given)
      BY <1>1, <1>5, <3>1 DEF Live, Position
    <3> QED BY <1>1, <1>5, <2>1, <2>2, <3>2 DEF Position, UpTo
  <2>4. Feeding' /\ Offering' /\ Between' /\ AtEnd'
    BY <1>1, <1>5, <2>1 DEF Live, Feeding, Offering, Between, AtEnd, Open, streamVars, input
  <2>5. Going' /\ outcome' # "complete"
    BY <1>1, <2>1, <2>2 DEF Going, Open, input
  <2> QED BY <1>2, <2>3, <2>4, <2>5 DEF Live
<1> QED BY <1>3, <1>4, <1>5

LEMMA CloseKeeps ==
  ASSUME IInv, Live, StopParser \/ CancelStream
  PROVE  Live'
<1>1. /\ UNCHANGED <<input, parsed, current, exhausted, out>> /\ file \in File /\ outcome = "none"
      /\ Returned' = Returned
  BY DEF StopParser, CancelStream, readerVars, streamVars, IInv, TypeOK, File, Live, Going, Returned
<1>2. \A g \in File : g # file => /\ stopped'[g] = stopped[g] /\ child'[g] = child[g]
                                /\ sender'[g] = sender[g] /\ parsed'[g] = parsed[g]
  BY <1>1 DEF StopParser, CancelStream, ChildDone, AfterDone, readerVars, IInv, TypeOK
<1>3. CASE StopParser
  <2>1. reader = "stop" /\ reader' = "cancel" /\ UNCHANGED <<file, ending, outcome>>
    BY <1>3 DEF StopParser, readerVars
  <2>2. Fresh'
    BY <1>1, <1>2, <2>1 DEF Live, Fresh, File
  <2> QED BY <1>1, <2>1, <2>2
          DEF Live, Feeding, Offering, Position, Between, AtEnd, Behind, Going, Open, input, UpTo
<1>4. CASE CancelStream /\ ending = "eof" /\ cmd.kind = "build"
  <2>1. /\ reader = "cancel" /\ reader' = "scan" /\ file' = file + 1 /\ ending' = "none"
        /\ outcome' = outcome
    BY <1>4 DEF CancelStream
  <2>2. Returned = UpTo(file + 1, 0) /\ current = 0 /\ file \notin broken
    BY <1>4, <2>1 DEF Live, AtEnd
  <2>3. Fresh'
    BY <1>1, <1>2, <2>1 DEF Live, Fresh, File
  <2>4. Between'
    BY <1>1, <2>1, <2>2 DEF Between, UpTo
  <2>5. Behind'
    BY <1>1, <1>4, <2>1, <2>2 DEF Live, Behind, input, File
  <2>6. Feeding' /\ Offering' /\ Position' /\ AtEnd' /\ Going'
    BY <1>1, <1>4, <2>1 DEF Live, Feeding, Offering, Position, AtEnd, Going, Open, input
  <2> QED BY <1>1, <2>1, <2>3, <2>4, <2>5, <2>6 DEF Live
<1>5. CASE CancelStream /\ ~(ending = "eof" /\ cmd.kind = "build")
  <2>1. /\ reader = "cancel" /\ reader' = "end" /\ UNCHANGED <<file, ending>>
        /\ outcome' = IF ending = "eof" THEN "complete" ELSE ending
    BY <1>5 DEF CancelStream
  <2>2. Fresh'
    BY <1>1, <1>2, <2>1 DEF Live, Fresh, File
  <2>3. Feeding' /\ Offering' /\ Position' /\ Between' /\ AtEnd' /\ Behind' /\ Going'
    BY <1>1, <2>1 DEF Live, Feeding, Offering, Position, Between, AtEnd, Behind, Going, Open, input
  <2>4. outcome' = "complete" => Complete'
    <3>1. CASE ending = "eof"
      <4>1. cmd.kind # "build" /\ file = 1 /\ Returned = UpTo(2, 0) /\ file \notin broken
        BY <1>5, <2>1, <3>1 DEF Live, AtEnd, Behind
      <4>2. Returned = Wanted /\ broken \cap Scanned = {}
        BY <4>1, UpToWanted DEF Wanted, Scanned
      <4>3. cmd.target \notin Wanted
        BY <2>1, <3>1, <4>2 DEF Live, Going
      <4> QED BY <1>1, <4>2, <4>3 DEF Complete, Wanted, Scanned, input
    <3>2. CASE ending # "eof"
      BY <2>1, <3>2 DEF IInv, TypeOK
    <3> QED BY <3>1, <3>2
  <2> QED BY <2>2, <2>3, <2>4 DEF Live
<1> QED BY <1>3, <1>4, <1>5

-----------------------------------------------------------------------------
(* The invariant.                                                          *)

LEMMA Initially == Init => IInv
<1> SUFFICES ASSUME Init PROVE IInv
  OBVIOUS
<1>1. Returned = {}
  BY DEF Init, Returned
<1>2. TypeOK
  <2>1. Files >= 1 /\ Files \in Nat /\ Length \in [File -> Nat]
    BY StreamAssumption
  <2>2. out \in Seq(Txn) /\ item \in [File -> Final \cup Event] /\ file \in 1..(Files + 1)
    BY <2>1 DEF Init, Final
  <2>3. parsed \in [File -> Nat] /\ \A f \in File : parsed[f] <= Length[f]
    BY <2>1 DEF Init
  <2>4. /\ stopped \in [File -> BOOLEAN] /\ child \in [File -> BOOLEAN]
        /\ sender \in [File -> {"none", "parsing", "select", "parked", "closing", "ended"}]
    BY DEF Init
  <2> QED BY <2>2, <2>3, <2>4 DEF Init, TypeOK
<1>3. Between /\ Going
  BY <1>1, UpToWanted DEF Init, Between, Going
<1>4. Fresh /\ Feeding /\ Offering /\ Position /\ AtEnd /\ Behind
  BY StreamAssumption DEF Init, Fresh, Feeding, Offering, Position, AtEnd, Behind, Open, File
<1> QED BY <1>2, <1>3, <1>4 DEF IInv, Live, Init

LEMMA Step == IInv /\ [Next]_vars => IInv'
<1> SUFFICES ASSUME IInv, [Next]_vars, ctx' = "live" PROVE Live'
  BY TypeStep DEF IInv
<1>1. ctx = "live"
  BY DEF Next, Goroutine, Reader, Interrupt, Parse, SenderSelect, CloseResults, Propagate, Cancel,
         Scan, Check, ReaderSelect, StopParser, CancelStream, Finished, vars
<1>2. Live
  BY <1>1 DEF IInv
<1>3. CASE UNCHANGED vars \/ Finished
  <2>1. /\ Returned' = Returned /\ (Complete' <=> Complete)
        /\ UNCHANGED <<input, streamVars, reader, readerVars>>
    BY <1>3 DEF Finished, vars, input, readerVars, Returned, Complete, Wanted, Scanned
  <2> QED BY <1>2, <2>1 DEF Live, Fresh, Feeding, Offering, Position, Between, AtEnd, Behind,
                            Going, Open, Given, UpTo, input, streamVars, readerVars
<1>4. ASSUME NEW f \in File, Parse(f) PROVE Live'
  BY <1>2, <1>4, ParseKeeps
<1>5. ASSUME NEW f \in File, SenderSelect(f) PROVE Live'
  <2>1. CASE Receiving(f) /\ AfterSend(f) /\ Take(item[f]) /\ UNCHANGED item
    BY <1>2, <1>5, <2>1, Handover DEF SenderSelect, Receiving
  <2>2. CASE ~Receiving(f)
    <3>1. /\ UNCHANGED <<input, reader, readerVars, parsed, stopped, child>> /\ sender[f] = "select"
          /\ \A g \in File : g # f => sender'[g] = sender[g] /\ item'[g] = item[g]
      BY <1>5, <2>2 DEF SenderSelect, AfterDone, IInv, TypeOK
    <3>2. CASE f # file \/ ~Open
      BY <1>2, <3>1, <3>2, OtherStream
    <3>3. CASE f = file /\ Open
      <4>1. ~child[f] /\ item' = item /\ sender'[f] = "parked" /\ reader # "parked"
        BY <1>2, <1>5, <2>2, <3>3 DEF Live, Feeding, SenderSelect, Receiving, IInv, TypeOK
      <4>2. Returned' = Returned /\ (Complete' <=> Complete) /\ Open' /\ file' = file
        BY <3>1, <3>3 DEF Returned, Complete, Wanted, Scanned, Open, input, readerVars
      <4>3. Given' = Given
        BY <3>1, <3>3, <4>1, <4>2 DEF Given
      <4>4. Fresh' /\ Feeding' /\ Offering'
        BY <1>2, <3>1, <3>3, <4>1, <4>2 DEF Live, Fresh, Feeding, Offering, Open, input, readerVars
      <4>5. Position'
        <5>1. /\ reader' = reader /\ current' = current /\ Commits[file]' = Commits[file]
              /\ UpTo(file, Given)' = UpTo(file, Given) /\ UpTo(file, Given - 1)' = UpTo(file, Given - 1)
          BY <3>1, <4>2, <4>3 DEF readerVars, UpTo
        <5> QED BY <1>2, <3>3, <4>2, <4>3, <5>1 DEF Live, Position
      <4> QED BY <1>2, <3>1, <3>3, <4>2, <4>4, <4>5
              DEF Live, Between, AtEnd, Behind, Going, Open, input, readerVars
    <3> QED BY <3>2, <3>3
  <2>3. CASE Receiving(f) /\ child[f]
    BY <1>2, <2>3 DEF Live, Feeding, Open, Receiving
  <2> QED BY <1>5, <2>1, <2>2, <2>3 DEF SenderSelect
<1>6. ASSUME NEW f \in File, CloseResults(f) PROVE Live'
  <2>1. f # file \/ ~Open
    BY <1>2, <1>6 DEF Live, Feeding, CloseResults
  <2>2. ~Receiving(f)
    BY <2>1 DEF Receiving, Open
  <2>3. /\ UNCHANGED <<input, reader, readerVars, item, parsed, stopped, child>> /\ sender[f] = "closing"
        /\ \A g \in File : g # f => sender'[g] = sender[g]
    BY <1>6, <2>2 DEF CloseResults, IInv, TypeOK
  <2> QED BY <1>2, <2>1, <2>3, OtherStream
<1>7. CASE Scan
  BY <1>1, <1>2, <1>7, ScanKeeps
<1>8. CASE Check
  BY <1>1, <1>2, <1>8, CheckKeeps
<1>9. CASE ReaderSelect
  <2>1. CASE sender[file] = "parked" /\ AfterSend(file) /\ Take(item[file])
    BY <1>2, <1>9, <2>1, Handover DEF ReaderSelect
  <2>2. CASE sender[file] = "ended"
    BY <1>2, <1>9, <2>2 DEF Live, Feeding, Open, ReaderSelect
  <2>3. CASE sender[file] # "parked" /\ reader' = "parked" /\ UNCHANGED <<sender, readerVars>>
    <3>1. /\ UNCHANGED <<input, item, parsed, stopped, child>> /\ reader = "select"
          /\ Returned' = Returned /\ (Complete' <=> Complete) /\ Given' = Given /\ Open /\ Open'
      BY <1>9, <2>3 DEF ReaderSelect, Returned, Complete, Wanted, Scanned, input, readerVars, Given, Open
    <3>2. Position'
      BY <1>2, <2>3, <3>1 DEF Live, Position, UpTo, readerVars
    <3>3. Fresh' /\ Feeding' /\ Offering' /\ Between' /\ AtEnd' /\ Behind' /\ Going'
      BY <1>2, <2>3, <3>1 DEF Live, Fresh, Feeding, Offering, Between, AtEnd, Behind, Going, input, readerVars, Open
    <3> QED BY <1>2, <2>3, <3>1, <3>2, <3>3 DEF Live, readerVars
  <2> QED BY <1>1, <1>9, <2>1, <2>2, <2>3 DEF ReaderSelect
<1>10. CASE StopParser \/ CancelStream
  BY <1>2, <1>10, CloseKeeps
<1>11. ASSUME NEW f \in File, Propagate(f) PROVE Live'
  BY <1>1, <1>11 DEF Propagate
<1>12. CASE Interrupt
  BY <1>12 DEF Interrupt, Cancel
<1> QED
  BY <1>3, <1>4, <1>5, <1>6, <1>7, <1>8, <1>9, <1>10, <1>11, <1>12 DEF Next, Goroutine, Reader

\* The inductive invariant holds for every archive and every set of commands.
THEOREM Invariance == Spec => []IInv
BY Initially, Step, PTL DEF Spec

\* Everything keeps its type.
THEOREM TypeCorrect == Spec => []TypeOK
<1>1. IInv => TypeOK
  BY DEF IInv
<1> QED BY Invariance, <1>1, PTL

\* A command that nobody stops says `complete` only of a complete scan.
THEOREM CompleteIfNotStopped == Spec => []CompleteUnlessStopped
<1>1. IInv => CompleteUnlessStopped
  BY DEF IInv, Live, CompleteUnlessStopped
<1> QED BY Invariance, <1>1, PTL

\* Transactions are returned in their order, each once and none left out.
THEOREM ReturnedInOrder == Spec => InOrder
<1> DEFINE Good == Len(out') > Len(out) => /\ Len(out') = Len(out) + 1
                                           /\ Returned = Preceding(out'[Len(out')])
<1>1. IInv /\ [Next]_vars => [Good]_vars
  <2> SUFFICES ASSUME IInv, Next, Len(out') > Len(out)
               PROVE  /\ Len(out') = Len(out) + 1
                      /\ Returned = Preceding(out'[Len(out')])
    OBVIOUS
  <2>1. Len(out) \in Nat /\ out' # out
    BY DEF IInv, TypeOK
  <2>2. Check
    BY <2>1 DEF Next, Goroutine, Reader, Interrupt, Parse, SenderSelect, CloseResults, Propagate,
         Cancel, Scan, ReaderSelect, StopParser, CancelStream, Finished, vars, readerVars, Take
  <2>3. ctx = "live" /\ current # 0 /\ out' = Append(out, <<file, current>>) /\ Open /\ Live
    BY <2>1, <2>2 DEF Check, Open, IInv
  <2> QED BY <2>3, ReturnIsNext, ReturnedAppend DEF IInv
<1> QED BY Invariance, <1>1, PTL DEF Spec, InOrder
=============================================================================
