------------------------- MODULE MCLocalEventStream -------------------------
(* A small archive: two files with events and an empty one between them.   *)
EXTENDS LocalEventStream

CommandLimit == 1

LengthDef  == <<3, 0, 2>>
CommitsDef == <<{2, 3}, {}, {2}>>

BuildCommand    == [kind |-> "build", limit |-> 0, target |-> <<>>]
ListCommands    == [kind : {"list"}, limit : 0..CommandLimit, target : {<<>>}]
FindCommands    == [kind : {"find"}, limit : {0}, target : {<<1, 2>>, <<3, 2>>}]
EveryCommand    == {BuildCommand} \cup ListCommands \cup FindCommands
OneBuild        == {BuildCommand}
=============================================================================
