------------------------------ MODULE BitFile ------------------------------
(***************************************************************************)
(* Reading of a Xilinx bitstream file (host/bit_file.c) and the verdict of *)
(* FPGAConfig_LoadFile on it.                                              *)
(*                                                                         *)
(* A file is a magic number, sections and data.  A section is known by its *)
(* code and its text or number; the text "cut" and the number -1 stand for *)
(* a file that ends within the section, which is then the last.            *)
(***************************************************************************)
EXTENDS Integers, Sequences

CONSTANTS FPGA_PART, NULL

\* The strings the file may hold; an empty one counts as an error, since fread
\* of no bytes returns 0.
bitfile_read_string(text) == IF text \in {"cut", ""} THEN NULL ELSE text

\* memset in bitfile_new_from_file.
NewBitfile == [part_number |-> NULL, length |-> 0, inContent |-> FALSE]

\* The other sections are names and dates; an unknown code is skipped.
bitfile_handle_hdr_field(bf, section) ==
    CASE section.code = "b" ->
           [bf EXCEPT !.part_number = bitfile_read_string(section.text)]
      [] section.code = "e" ->
           [bf EXCEPT !.length = section.number, !.inContent = TRUE]
      [] OTHER -> bf

\* Sections up to the length or the end of the file.  A later section of the
\* same kind replaces an earlier one.
bitfile_read_header(file) ==
    LET read[i \in 0 .. Len(file.sections)] ==
          IF i = 0 THEN NewBitfile
          ELSE IF read[i - 1].inContent THEN read[i - 1]
          ELSE bitfile_handle_hdr_field(read[i - 1], file.sections[i])
    IN  read[Len(file.sections)]

\* The number of bytes read, or -1: malloc(-1) fails, as does fread of nothing.
bitfile_read_content(file, bf) ==
    IF bf.length > 0 /\ bf.length <= file.data THEN bf.length ELSE -1

\* What becomes of the file: it cannot be opened, the process dies in strcmp of
\* no part number, the part is another (which is no error: err is still 0 at
\* "goto done"), the content is not all there, or it is sent.
Verdict(file) ==
    LET bf == bitfile_read_header(file) IN
    CASE ~ file.magic                                -> "unreadable"
      [] file.magic /\ bf.part_number = NULL         -> "crash"
      [] file.magic /\ bf.part_number \notin {NULL, FPGA_PART} -> "refused"
      [] OTHER -> IF bitfile_read_content(file, bf) <= 0 THEN "incomplete" ELSE "send"

Length(file) == bitfile_read_header(file).length
=============================================================================
