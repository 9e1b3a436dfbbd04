--------------------------- MODULE MCHookPrograms ---------------------------
(* HookPrograms with packets of three cells.  Strings, writes and reads take *)
(* one packet or two.  The memories have one to three segments, at the ends  *)
(* and in the middle, and one more than the table takes.  A sequence number  *)
(* comes back after four packets: reads are at most three apart.             *)
EXTENDS HookPrograms, TLC

Blank == <<Zero, Zero>>
Block(v) == <<Zero, <<v>>>>
MCMemories ==
    {<<Blank, Block(1), Block(2), Blank>>, <<Block(1), Blank, Block(2), Block(3)>>,
     <<Blank, Blank>>, <<Block(1), Blank, Block(2), Blank, Block(3)>>}
MCSampleData == [c \in 1 .. 4 |-> <<c + 20>>]
MCDisk == NvramFile :> [c \in 1 .. 8 |-> <<c + 10>>]

MCAnyCalls ==
    {[svc |-> "LOG", data |-> <<>>],
     [svc |-> "FOPEN_R", data |-> NvramFile],
     [svc |-> "FOPEN_W", data |-> <<"a", "b", "c", "d">>],
     [svc |-> "FOPEN_W", data |-> <<"d">>],
     [svc |-> "FSEEK", data |-> <<2>>],
     [svc |-> "FWRITE", data |-> MCSampleData],
     [svc |-> "QUIT", data |-> Failed]}
=============================================================================
