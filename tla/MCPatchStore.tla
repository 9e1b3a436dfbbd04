---------------------------- MODULE MCPatchStore ----------------------------
(* PatchStore with sixteen words of memory and four of content.  The regions *)
(* need one block or two, overlap, or do not fit; bursts start inside, at    *)
(* the ends and outside of them, and at the last word.  The arguments give   *)
(* the whole of their region or a part, one region or two, and include each  *)
(* kind the parsers refuse.                                                  *)
EXTENDS PatchStore

Text(format, addr, length) ==
    [format |-> format, addr |-> addr, length |-> length, sound |-> TRUE,
     headers |-> <<>>]
Elf(headers_) ==
    [format |-> "elf", addr |-> 0, length |-> 0, sound |-> TRUE, headers |-> headers_]
Segment(access, addr, filesz, memsz) ==
    [load |-> TRUE, access |-> access, addr |-> addr, filesz |-> filesz,
     memsz |-> memsz]
Note == [load |-> FALSE, access |-> "r", addr |-> 0, filesz |-> 2, memsz |-> 2]

MCArguments ==
    {Text("hex", 6, 12), Text("ascii", 8, 1), Text("flat", 24, 8),
     Text("hex", 4, 3), Text("flat", 4, 0),
     [Text("unknown", 4, 2) EXCEPT !.sound = FALSE],
     Elf(<<Note, Segment("none", 4, 0, 6), Segment("r", 22, 1, 4)>>),
     Elf(<<Segment("r", 8, 0, 2), Segment("rw", 24, 2, 2)>>),
     Elf(<<Segment("r", 8, 4, 2)>>)}

\* A part of the first session's patch, and the same again.
MCLaterArguments == {Text("ascii", 8, 1), Text("hex", 6, 12)}

MCRegions == UNION {RegionsOf(arg) : arg \in {a \in MCArguments : ~ Refused(a)}}
=============================================================================
