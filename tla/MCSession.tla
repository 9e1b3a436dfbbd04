----------------------------- MODULE MCSession -----------------------------
(* Session with a bitstream of three units sent two at a time.  The files   *)
(* are a good one, and others that are unreadable, for another part, cut    *)
(* within a section or within the data, or too short for the FPGA.          *)
EXTENDS Session
Name == [code |-> "a", text |-> "design"]
Part(text) == [code |-> "b", text |-> text]
Data(n) == [code |-> "e", number |-> n]
File(sections, n) == [magic |-> TRUE, sections |-> sections, data |-> n]
MCFiles ==
    {NoFile,
     File(<<Name, Part("ours"), Data(3)>>, 3),
     File(<<Part("other"), Data(3)>>, 3),
     File(<<Part("other"), Part("ours"), Data(3), Part("other")>>, 3),
     File(<<Name, Part("cut")>>, 0),
     File(<<Part("ours"), Data(-1)>>, 0),
     File(<<Part("ours")>>, 0),
     File(<<Part("ours"), Data(3)>>, 2),
     File(<<Part("ours"), Data(2)>>, 2)}
=============================================================================
