------------------------------ MODULE HostFile ------------------------------
(***************************************************************************)
(* The file a console program works on through the I/O hook, as            *)
(* IOH_HandlePacket (host/iohook_svc.c) treats it with stdio: one file is  *)
(* open at a time.  A file system is a record                              *)
(*     [open, name, pos, disk]                                             *)
(* where disk gives each file's contents, a sequence of cells.             *)
(***************************************************************************)
EXTENDS Integers, Sequences

Larger(a, b) == IF a > b THEN a ELSE b
Smaller(a, b) == IF a < b THEN a ELSE b

\* A cell nobody wrote: a file is filled up with zeros.
Zero == <<0>>

Content(fs) == fs.disk[fs.name]

\* fopen with "w+" or "r+".  The file that was open is closed first.
FOpen(fs, name, truncate) ==
    IF truncate \/ name \in DOMAIN fs.disk
      THEN [open |-> TRUE, name |-> name, pos |-> 0,
            disk |-> [n \in DOMAIN fs.disk \cup {name} |->
                        IF n = name /\ truncate THEN <<>> ELSE fs.disk[n]]]
      ELSE [fs EXCEPT !.open = FALSE]

FSeek(fs, offset) == IF fs.open THEN [fs EXCEPT !.pos = offset] ELSE fs

FWrite(fs, data) ==
    IF ~ fs.open \/ data = <<>> THEN fs ELSE
    LET old == Content(fs)
        end == fs.pos + Len(data)
        new == [i \in 1 .. Larger(Len(old), end) |->
                  IF i \in fs.pos + 1 .. end THEN data[i - fs.pos]
                  ELSE IF i <= Len(old) THEN old[i] ELSE Zero]
    IN [fs EXCEPT !.pos = end, !.disk[fs.name] = new]

\* What fread returns, fewer cells than asked for at the end of the file.
FReadData(fs, count) ==
    IF ~ fs.open THEN <<>>
    ELSE SubSeq(Content(fs), fs.pos + 1, Smaller(fs.pos + count, Len(Content(fs))))
FReadPast(fs, count) == [fs EXCEPT !.pos = @ + Len(FReadData(fs, count))]

\* The services that change the file.
Apply(fs, svc, data) ==
    CASE svc = "FOPEN_R" -> FOpen(fs, data, FALSE)
      [] svc = "FOPEN_W" -> FOpen(fs, data, TRUE)
      [] svc = "FSEEK" -> FSeek(fs, data[1])
      [] svc = "FWRITE" -> FWrite(fs, data)
      [] OTHER -> fs
=============================================================================
