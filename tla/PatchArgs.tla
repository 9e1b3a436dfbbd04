----------------------------- MODULE PatchArgs ------------------------------
(***************************************************************************)
(* The arguments that make up a patch (host/hw_patch.c:247-531): text, hex *)
(* digits, a flat file or an ELF file, each turned into regions that       *)
(* PatchAlloc lays out and into the bytes that fill them.                  *)
(*                                                                         *)
(* A word of content is named by its place in the patch, counted from 1; 0 *)
(* is a word no argument gave.                                             *)
(***************************************************************************)
EXTENDS PatchAlloc

CONSTANT Arguments
    \* [format, addr, length, sound, headers]: the characters of a text, the
    \* digits of a hex string or the bytes of a flat file; whether the format
    \* is known, the file can be opened, the digits or the ELF header are legal;
    \* the program headers of an ELF file: [load, access, addr, filesz, memsz].

VARIABLES
    headers,  \* the program headers still to be read
    copy,     \* [bytes, file]: what is to be copied into the last region
    given,    \* for each region, the number of bytes its argument gave
    buffer    \* patch->content

argVars == <<headers, copy, given, buffer>>
NoCopy == [bytes |-> 0, file |-> FALSE]

\* HWPatch_Init clears the content.
ArgInit ==
    /\ headers = <<>> /\ copy = NoCopy /\ given = <<>>
    /\ buffer = [i \in 1 .. ContentWords |-> 0]

ArgReset ==
    /\ headers' = <<>> /\ copy' = NoCopy /\ given' = <<>>
    /\ buffer' = [i \in 1 .. ContentWords |-> 0]

Bytes(arg) ==
    CASE arg.format \in {"flat", "ascii"} -> arg.length
      [] arg.format = "asciiz" -> arg.length + 1
      [] arg.format = "utf16" -> 2 * arg.length
      [] arg.format = "utf16z" -> 2 * (arg.length + 1)
      [] arg.format = "hex" -> arg.length \div 2

\* An empty flat file is refused too, because fread returns no item of size 0.
Refused(arg) ==
    \/ ~ arg.sound
    \/ arg.format = "hex" /\ arg.length % 2 = 1
    \/ arg.format = "flat" /\ arg.length = 0

\* The program headers whose segment is patched.
Patchable(h) == h.load /\ h.access = "r" /\ h.filesz <= h.memsz

\* The regions an argument can make HWPatch_AllocRegion be called for.
RegionsOf(arg) ==
    IF arg.format = "elf"
      THEN {[base |-> arg.headers[i].addr, size |-> arg.headers[i].memsz] :
              i \in {j \in DOMAIN arg.headers : Patchable(arg.headers[j])}}
      ELSE {[base |-> arg.addr, size |-> Bytes(arg)]}
ASSUME ArgumentsAssumption ==
    \A arg \in Arguments :
        /\ Refused(arg) \/ RegionsOf(arg) \subseteq Regions
        /\ arg.headers \in Seq({arg.headers[i] : i \in DOMAIN arg.headers})
        /\ \A i \in DOMAIN arg.headers : arg.headers[i].filesz \in Nat

-----------------------------------------------------------------------------

\* Nothing left to do for the last AllocRegion and what it was called for.
Done == work.size = 0 /\ copy.bytes = 0 /\ ~ exited
Fail == exited' = TRUE /\ UNCHANGED <<patch, work, regions>>

\* Allocate a region and fill it with what a text or a file holds.
FillRegion(base, size, data, file) ==
    /\ AllocRegion([base |-> base, size |-> size])
    /\ IF exited' THEN UNCHANGED <<copy, given>>
       ELSE /\ copy' = [bytes |-> data, file |-> file]
            /\ given' = Append(given, data)
    /\ UNCHANGED buffer

ParseString(arg) ==
    /\ Done /\ headers = <<>>
    /\ \/ Refused(arg) /\ Fail /\ UNCHANGED argVars
       \/ /\ ~ Refused(arg) /\ arg.format = "elf"
          /\ headers' = arg.headers
          /\ UNCHANGED <<allocVars, copy, given, buffer>>
       \/ /\ ~ Refused(arg) /\ arg.format # "elf"
          /\ FillRegion(arg.addr, Bytes(arg), Bytes(arg), arg.format = "flat")
          /\ UNCHANGED headers

\* One program header of an ELF file.
LoadHeader ==
    /\ Done /\ headers # <<>> /\ headers' = Tail(headers)
    /\ LET h == Head(headers) IN
       \/ /\ ~ h.load \/ (h.filesz <= h.memsz /\ h.access = "none")
          /\ UNCHANGED <<allocVars, copy, given, buffer>>
       \/ /\ h.load /\ (h.filesz > h.memsz \/ h.access \in {"w", "rw"})
          /\ Fail /\ UNCHANGED <<copy, given, buffer>>
       \/ /\ Patchable(h)
          /\ FillRegion(h.addr, h.memsz, h.filesz, TRUE)

\* The file may end before its table of program headers does.
HeaderMissing == Done /\ headers # <<>> /\ Fail /\ UNCHANGED argVars

\* AllocRegion has returned: its buffer is filled, from a file if that can be
\* read to the length it is said to have.  Mutant: an odd last byte is left out.
CopyDataWholeWords ==
    /\ work.size = 0 /\ copy.bytes > 0 /\ ~ exited
    /\ LET first == regions[Len(regions)].content \div 2 + 1 IN
       buffer' = [i \in 1 .. ContentWords |->
                    IF i \in first .. first + copy.bytes \div 2 - 1
                      THEN i ELSE buffer[i]]
    /\ copy' = NoCopy
    /\ UNCHANGED <<allocVars, headers, given>>
CopyData ==
    /\ work.size = 0 /\ copy.bytes > 0 /\ ~ exited
    /\ LET first == regions[Len(regions)].content \div 2 + 1 IN
       buffer' = [i \in 1 .. ContentWords |->
                    IF i \in first .. first + RoundUp(copy.bytes) \div 2 - 1
                      THEN i ELSE buffer[i]]
    /\ copy' = NoCopy
    /\ UNCHANGED <<allocVars, headers, given>>
ReadFails ==
    /\ work.size = 0 /\ copy.bytes > 0 /\ copy.file /\ ~ exited
    /\ Fail /\ UNCHANGED argVars

ArgNext(args) ==
    \/ EmitBlock /\ UNCHANGED argVars
    \/ \E arg \in args : ParseString(arg)
    \/ LoadHeader \/ HeaderMissing \/ CopyData \/ ReadFails
=============================================================================
