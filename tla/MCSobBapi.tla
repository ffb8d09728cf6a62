------------------------------ MODULE MCSobBapi ------------------------------
(* Instances of the BIOS-API driver for TLC.                                  *)
EXTENDS SobBapi, TLC

NoApi    == [header |-> FALSE, ofs |-> FALSE, old |-> FALSE]
NoEntry  == [header |-> TRUE, ofs |-> FALSE, old |-> FALSE]
OldApi   == [header |-> TRUE, ofs |-> TRUE, old |-> TRUE]
NewApi   == [header |-> TRUE, ofs |-> TRUE, old |-> FALSE]

WithOldApi     == {NoApi, NoEntry, OldApi}
WithOrWithout  == {NoApi, NewApi}
WithNewApi     == {NewApi}

(* Threads, blocks and files are interchangeable in the safety runs.                 *)
Sym == Permutations(Threads) \union Permutations(Blocks) \union Permutations(Files)
=============================================================================
