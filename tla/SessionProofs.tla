--------------------------- MODULE SessionProofs ---------------------------
(***************************************************************************)
(* Proofs about a run of the host program, for every bitstream file, size  *)
(* of a bitstream and number of sessions before.  The inductive invariant  *)
(* says what the hardware is like at each call of a session, whatever it   *)
(* was like when the session began.                                        *)
(***************************************************************************)
EXTENDS Session, SequenceTheorems, TLAPS

Registered == [conf : {"empty", "loading", "running"}, bits : Int, by : Int,
               traceFlags : SUBSET {"WRITES", "READS"}, batt : BOOLEAN,
               dsiReset : BOOLEAN, clock : Int, patch : Int, hook : BOOLEAN,
               error_latch : BOOLEAN]
Modes == [A : {"reset", "bitbang", "fifo"}, clkout : {"high", "clock"},
          pins : SUBSET Pins]

ConfigPc == {"load", "resetFTDI", "bitbangA", "bitbangB", "progHigh", "progLow",
             "select", "checkLow", "send", "extra", "checkDone"}
TracePc == {"traceFile", "traceOff", "dsiReset", "drain", "traceOn", "release", "stream"}
\* After SetFifoMode, after HW_LoadPatch, and from holding the console in reset
\* until it is released.
Fifo == {"power", "clock", "patch", "close", "done"} \cup TracePc
Patched == {"close", "done"} \cup TracePc
Holding == {"drain", "traceOn", "release"}

AllCalls == {"open", "fifo"} \cup ConfigPc \cup Fifo

TypeOK ==
    /\ pc \in AllCalls \cup {"failed"}
    /\ session \in Nat \ {0} /\ opt \in Options /\ hookPatch \in BOOLEAN
    /\ sent \in Nat /\ async \in Nat
    /\ fpga \in Registered /\ ftdi \in Modes
    /\ untraced \in BOOLEAN

\* Which calls are made with which options, and what was found out before.
Route ==
    /\ pc \in ConfigPc => opt.reset
    /\ pc \in ConfigPc \ {"load"} => Verdict(opt.file) = "send"
    /\ pc \in TracePc => Traces
    /\ pc = "dsiReset" => opt.resetDSi
    /\ pc \in Holding /\ opt.resetDSi => fpga.dsiReset /\ ~ untraced
    /\ pc \notin {"open", "failed"} => hookPatch = (opt.mode = "hook")
    /\ async # 0 => pc = "patch" /\ async = session

\* The configuration of the FPGA.
Port ==
    /\ pc \in {"bitbangA", "bitbangB", "progHigh", "progLow", "select"} => ftdi.clkout = "high"
    /\ pc = "select" => fpga = Blank /\ ftdi.pins = {"CSI", "RDWR"}
    /\ pc = "checkLow" => fpga = [Blank EXCEPT !.conf = "loading"]
    /\ pc \in {"open"} \cup (ConfigPc \ {"send", "extra", "checkDone"}) => sent = 0
    /\ pc \in {"checkLow", "send", "extra", "checkDone"} => ftdi.pins = {"PROG"}
    /\ pc \in {"send", "extra", "checkDone"} =>
         /\ sent <= Length(opt.file)
         /\ \/ fpga.conf = "loading" /\ fpga.bits = sent /\ sent < Whole
            \/ fpga.conf = "running" /\ fpga.by = session
    /\ pc \in {"extra", "checkDone"} => sent = Length(opt.file)

\* The registers.
Loaded ==
    /\ pc \in {"fifo"} \cup Fifo /\ opt.reset /\ Verdict(opt.file) # "refused" =>
         Configured /\ fpga.by = session
    /\ pc \in Fifo => ftdi.A = "fifo" /\ ftdi.clkout = "clock"
    /\ pc \in Fifo \ {"power"} /\ Configured => fpga.batt
    /\ pc \in Fifo \ ({"power"} \cup Holding) /\ Configured => ~ fpga.dsiReset
    /\ pc = "patch" /\ async = 0 /\ Configured =>
         "unnoticed" \in causes \/ fpga.clock = session
    /\ pc \in Patched => /\ Configured
                         /\ "unnoticed" \in causes \/ fpga.clock = session
                         /\ fpga.patch = session
                         /\ fpga.hook = (opt.mode = "hook")
    /\ pc \in {"dsiReset", "drain", "traceOn"} => fpga.traceFlags = {}
    /\ pc \in {"release", "stream", "close", "done"} /\ Traces => fpga.traceFlags = traceFlags

\* What was left in the buffers, and what the console did before it was heard.
Capture ==
    /\ pc \in {"traceOn", "release", "stream"} =>
         "usb" \in causes \/ fpga.error_latch \/ junk = 0
    /\ pc = "stream" /\ opt.resetDSi => fpga.error_latch \/ ~ untraced

Inv == TypeOK /\ Route /\ Port /\ Loaded /\ Capture /\ FailsOnlyForCause

-----------------------------------------------------------------------------
(* The order of the calls *)

\* A sequence of different calls from a to z, all in names, in which the second
\* of each of the pairs comes right after the first.
IsPath(s, a, z, names, pairs) ==
    /\ s \in Seq(AllCalls) /\ Len(s) > 0 /\ s[1] = a /\ s[Len(s)] = z
    /\ \A i \in 1 .. Len(s) : s[i] \in names
    /\ \A i, j \in 1 .. Len(s) : s[i] = s[j] => i = j
    /\ \A p \in pairs : \E i \in 1 .. Len(s) :
         i + 1 <= Len(s) /\ s[i] = p[1] /\ s[i + 1] = p[2]

LEMMA JoinPaths ==
    ASSUME NEW s, NEW a, NEW z, NEW names, NEW pairs, IsPath(s, a, z, names, pairs),
           NEW t, NEW b, NEW y, NEW names2, NEW pairs2, IsPath(t, b, y, names2, pairs2),
           names \cap names2 = {}
    PROVE  IsPath(s \o t, a, y, names \cup names2, pairs \cup pairs2 \cup {<<z, b>>})
<1> DEFINE n == Len(s)
           m == Len(t)
           u == s \o t
<1>1. /\ s \in Seq(AllCalls) /\ n \in Nat /\ n > 0 /\ s[1] = a /\ s[n] = z
      /\ t \in Seq(AllCalls) /\ m \in Nat /\ m > 0 /\ t[1] = b /\ t[m] = y
  BY DEF IsPath
<1>2. /\ u \in Seq(AllCalls) /\ Len(u) = n + m
      /\ \A i \in 1 .. n : u[i] = s[i]
      /\ \A i \in 1 .. m : u[n + i] = t[i]
  BY <1>1
<1> HIDE DEF n, m, u
<1>3. \A i \in 1 .. n + m : i \in 1 .. n \/ (i - n \in 1 .. m /\ n + (i - n) = i)
  BY <1>1
<1>4. u[1] = a /\ u[n + m] = y
  BY <1>1, <1>2
<1>5. ASSUME NEW i \in 1 .. n + m
      PROVE  /\ i \in 1 .. n => u[i] = s[i] /\ u[i] \in names
             /\ i \notin 1 .. n => u[i] = t[i - n] /\ u[i] \in names2 /\ i - n \in 1 .. m
  <2>1. CASE i \in 1 .. n
    BY <1>2, <2>1 DEF IsPath, n
  <2>2. CASE i \notin 1 .. n
    <3>1. i - n \in 1 .. m /\ u[i] = t[i - n]
      BY <1>2, <1>3, <2>2
    <3>2. t[i - n] \in names2
      BY <3>1 DEF IsPath, m
    <3> QED BY <2>2, <3>1, <3>2
  <2> QED BY <2>1, <2>2
<1>6. \A i \in 1 .. n + m : u[i] \in names \cup names2
  BY <1>5
<1>7. ASSUME NEW i \in 1 .. n + m, NEW j \in 1 .. n + m, u[i] = u[j] PROVE i = j
  <2>1. i \in 1 .. n <=> j \in 1 .. n
    BY <1>5, <1>7
  <2>2. CASE i \in 1 .. n /\ j \in 1 .. n
    <3>1. s[i] = s[j]
      BY <1>5, <1>7, <2>2
    <3> QED BY <2>2, <3>1 DEF IsPath, n
  <2>3. CASE i \notin 1 .. n /\ j \notin 1 .. n
    <3>1. t[i - n] = t[j - n] /\ i - n \in 1 .. m /\ j - n \in 1 .. m
      BY <1>5, <1>7, <2>3
    <3>2. i - n = j - n
      BY <3>1 DEF IsPath, m
    <3> QED BY <1>1, <3>2
  <2> QED BY <2>1, <2>2, <2>3
<1>8. ASSUME NEW p \in pairs \cup pairs2 \cup {<<z, b>>}
      PROVE  \E i \in 1 .. n + m : i + 1 <= n + m /\ u[i] = p[1] /\ u[i + 1] = p[2]
  <2>1. CASE p \in pairs
    <3>1. PICK i \in 1 .. n : i + 1 <= n /\ s[i] = p[1] /\ s[i + 1] = p[2]
      BY <2>1 DEF IsPath, n
    <3>2. i + 1 \in 1 .. n /\ i \in 1 .. n + m /\ i + 1 <= n + m
      BY <1>1, <3>1
    <3>3. u[i] = p[1] /\ u[i + 1] = p[2]
      BY <1>2, <3>1, <3>2
    <3> QED BY <3>2, <3>3
  <2>2. CASE p \in pairs2
    <3>1. PICK i \in 1 .. m : i + 1 <= m /\ t[i] = p[1] /\ t[i + 1] = p[2]
      BY <2>2 DEF IsPath, m
    <3>2. u[n + i] = p[1] /\ u[n + (i + 1)] = p[2]
      BY <1>1, <1>2, <3>1
    <3>3. n + i \in 1 .. n + m /\ n + (i + 1) = (n + i) + 1 /\ (n + i) + 1 <= n + m
      BY <1>1, <3>1
    <3> QED BY <3>2, <3>3
  <2>3. CASE p = <<z, b>>
    <3>1. u[n] = z /\ u[n + 1] = b /\ n \in 1 .. n + m /\ n + 1 <= n + m
      BY <1>1, <1>2
    <3> QED BY <2>3, <3>1
  <2> QED BY <2>1, <2>2, <2>3
<1>9. n + m > 0
  BY <1>1
<1> HIDE DEF IsPath
<1>10. IsPath(u, a, y, names \cup names2, pairs \cup pairs2 \cup {<<z, b>>})
  <2>1. \A i \in 1 .. Len(u) : u[i] \in names \cup names2
    BY <1>2, <1>6
  <2>2. \A i, j \in 1 .. Len(u) : u[i] = u[j] => i = j
    BY <1>2, <1>7
  <2>3. \A p \in pairs \cup pairs2 \cup {<<z, b>>} : \E i \in 1 .. Len(u) :
          i + 1 <= Len(u) /\ u[i] = p[1] /\ u[i + 1] = p[2]
    BY <1>2, <1>8
  <2>4. u \in Seq(AllCalls) /\ Len(u) > 0 /\ u[1] = a /\ u[Len(u)] = y
    BY <1>2, <1>4, <1>9
  <2> QED BY ONLY <2>1, <2>2, <2>3, <2>4, Zenon DEF IsPath
<1> QED BY <1>10 DEF u

LEMMA PathAfter ==
    ASSUME NEW a, NEW z, NEW names, NEW pairs, IsPath(Calls, a, z, names, pairs),
           NEW p, NEW q, <<p, q>> \in pairs
    PROVE  After(p) = q
<1>1. Calls \in Seq(AllCalls) /\ DOMAIN Calls = 1 .. Len(Calls)
  BY DEF IsPath
<1>2. PICK i \in 1 .. Len(Calls) : Calls[i] = p /\ Calls[i + 1] = q
  BY DEF IsPath
<1>3. (CHOOSE j \in DOMAIN Calls : Calls[j] = p) = i
  BY <1>1, <1>2 DEF IsPath
<1>4. 1 + i = i + 1
  OBVIOUS
<1>5. Calls[1 + i] = q
  BY <1>2, <1>4
<1> QED BY <1>3, <1>5 DEF After

LEMMA Segments ==
    /\ IsPath(<<"open">>, "open", "open", {"open"}, {})
    /\ IsPath(<<"load">>, "load", "load", {"load"}, {})
    /\ IsPath(ConfigCalls, "resetFTDI", "checkDone", ConfigPc \ {"load"},
              {<<"resetFTDI", "bitbangA">>, <<"bitbangA", "bitbangB">>,
               <<"bitbangB", "progHigh">>, <<"progHigh", "progLow">>,
               <<"progLow", "select">>, <<"select", "checkLow">>,
               <<"checkLow", "send">>, <<"send", "extra">>, <<"extra", "checkDone">>})
    /\ IsPath(<<"fifo">>, "fifo", "fifo", {"fifo"}, {})
    /\ IsPath(SetUpCalls, "power", "patch", {"power", "clock", "patch"},
              {<<"power", "clock">>, <<"clock", "patch">>})
    /\ IsPath(<<"traceFile", "traceOff">>, "traceFile", "traceOff",
              {"traceFile", "traceOff"}, {<<"traceFile", "traceOff">>})
    /\ IsPath(<<"dsiReset">>, "dsiReset", "dsiReset", {"dsiReset"}, {})
    /\ IsPath(<<"drain", "traceOn", "release", "stream">>, "drain", "stream",
              {"drain", "traceOn", "release", "stream"},
              {<<"drain", "traceOn">>, <<"traceOn", "release">>, <<"release", "stream">>})
    /\ IsPath(<<"close", "done">>, "close", "done", {"close", "done"}, {<<"close", "done">>})
<1>1. IsPath(<<"open">>, "open", "open", {"open"}, {})
  BY DEF IsPath, AllCalls, ConfigPc, Fifo, TracePc
<1>2. IsPath(<<"load">>, "load", "load", {"load"}, {})
  BY DEF IsPath, AllCalls, ConfigPc, Fifo, TracePc
<1>3. IsPath(ConfigCalls, "resetFTDI", "checkDone", ConfigPc \ {"load"},
              {<<"resetFTDI", "bitbangA">>, <<"bitbangA", "bitbangB">>,
               <<"bitbangB", "progHigh">>, <<"progHigh", "progLow">>,
               <<"progLow", "select">>, <<"select", "checkLow">>,
               <<"checkLow", "send">>, <<"send", "extra">>, <<"extra", "checkDone">>})
  BY DEF IsPath, AllCalls, ConfigPc, Fifo, TracePc, ConfigCalls
<1>4. IsPath(<<"fifo">>, "fifo", "fifo", {"fifo"}, {})
  BY DEF IsPath, AllCalls, ConfigPc, Fifo, TracePc
<1>5. IsPath(SetUpCalls, "power", "patch", {"power", "clock", "patch"},
              {<<"power", "clock">>, <<"clock", "patch">>})
  BY DEF IsPath, AllCalls, ConfigPc, Fifo, TracePc, SetUpCalls
<1>6. IsPath(<<"traceFile", "traceOff">>, "traceFile", "traceOff",
              {"traceFile", "traceOff"}, {<<"traceFile", "traceOff">>})
  BY DEF IsPath, AllCalls, ConfigPc, Fifo, TracePc
<1>7. IsPath(<<"dsiReset">>, "dsiReset", "dsiReset", {"dsiReset"}, {})
  BY DEF IsPath, AllCalls, ConfigPc, Fifo, TracePc
<1>8. IsPath(<<"drain", "traceOn", "release", "stream">>, "drain", "stream",
              {"drain", "traceOn", "release", "stream"},
              {<<"drain", "traceOn">>, <<"traceOn", "release">>, <<"release", "stream">>})
  BY DEF IsPath, AllCalls, ConfigPc, Fifo, TracePc
<1>9. IsPath(<<"close", "done">>, "close", "done", {"close", "done"}, {<<"close", "done">>})
  BY DEF IsPath, AllCalls, ConfigPc, Fifo, TracePc
<1> QED BY <1>1, <1>2, <1>3, <1>4, <1>5, <1>6, <1>7, <1>8, <1>9

\* More names and fewer pairs make a weaker statement.
LEMMA WeakerPath ==
    ASSUME NEW s, NEW a, NEW z, NEW names, NEW pairs, IsPath(s, a, z, names, pairs),
           NEW names2, names \subseteq names2, NEW pairs2, pairs2 \subseteq pairs
    PROVE  IsPath(s, a, z, names2, pairs2)
BY DEF IsPath

HeadPairs ==
    IF opt.reset
    THEN {<<"open", "load">>, <<"load", "resetFTDI">>,
          <<"resetFTDI", "bitbangA">>, <<"bitbangA", "bitbangB">>,
          <<"bitbangB", "progHigh">>, <<"progHigh", "progLow">>,
          <<"progLow", "select">>, <<"select", "checkLow">>,
          <<"checkLow", "send">>, <<"send", "extra">>, <<"extra", "checkDone">>,
          <<"checkDone", "fifo">>}
    ELSE {<<"open", "fifo">>}
MiddlePairs == {<<"fifo", "power">>, <<"power", "clock">>, <<"clock", "patch">>}
TailPairs ==
    IF Traces
    THEN {<<"patch", "traceFile">>, <<"traceFile", "traceOff">>,
          <<"drain", "traceOn">>, <<"traceOn", "release">>, <<"release", "stream">>,
          <<"stream", "close">>}
         \cup (IF opt.resetDSi THEN {<<"traceOff", "dsiReset">>, <<"dsiReset", "drain">>}
               ELSE {<<"traceOff", "drain">>})
    ELSE {<<"patch", "close">>}

LEMMA SetUpPath ==
    IsPath(<<"open">> \o (IF opt.reset THEN <<"load">> \o ConfigCalls ELSE <<>>)
             \o <<"fifo">> \o SetUpCalls,
           "open", "patch", {"open", "fifo", "power", "clock", "patch"} \cup ConfigPc,
           HeadPairs \cup MiddlePairs)
<1> DEFINE configured == IF opt.reset THEN <<"load">> \o ConfigCalls ELSE <<>>
           begun == <<"open">> \o configured
           last == IF opt.reset THEN "checkDone" ELSE "open"
           pairs == HeadPairs \ {<<last, "fifo">>}
<1>1. IsPath(begun, "open", last, {"open"} \cup ConfigPc, pairs)
  <2>1. CASE opt.reset
    <3> DEFINE inner == {<<"resetFTDI", "bitbangA">>, <<"bitbangA", "bitbangB">>,
               <<"bitbangB", "progHigh">>, <<"progHigh", "progLow">>,
               <<"progLow", "select">>, <<"select", "checkLow">>,
               <<"checkLow", "send">>, <<"send", "extra">>, <<"extra", "checkDone">>}
               all == {} \cup ({} \cup inner \cup {<<"load", "resetFTDI">>})
                         \cup {<<"open", "load">>}
    <3>1. IsPath(<<"load">> \o ConfigCalls, "load", "checkDone",
                 {"load"} \cup (ConfigPc \ {"load"}),
                 {} \cup inner \cup {<<"load", "resetFTDI">>})
      <4>1. {"load"} \cap (ConfigPc \ {"load"}) = {}
        OBVIOUS
      <4> HIDE DEF inner
      <4>2. IsPath(ConfigCalls, "resetFTDI", "checkDone", ConfigPc \ {"load"}, inner)
        BY Segments DEF inner
      <4>3. IsPath(<<"load">>, "load", "load", {"load"}, {})
        BY Segments
      <4> QED BY <4>1, <4>2, <4>3, JoinPaths
    <3>2. {"open"} \cap ({"load"} \cup (ConfigPc \ {"load"})) = {}
      BY DEF ConfigPc
    <3>3. IsPath(<<"open">>, "open", "open", {"open"}, {})
      BY Segments
    <3>4. IsPath(<<"open">> \o (<<"load">> \o ConfigCalls), "open", "checkDone",
                 {"open"} \cup ({"load"} \cup (ConfigPc \ {"load"})), all)
      <4> HIDE DEF inner
      <4> QED BY <3>1, <3>2, <3>3, JoinPaths
    <3>5. pairs \subseteq all
      BY <2>1 DEF HeadPairs
    <3>6. {"open"} \cup ({"load"} \cup (ConfigPc \ {"load"})) \subseteq {"open"} \cup ConfigPc
      BY DEF ConfigPc
    <3>7. begun = <<"open">> \o (<<"load">> \o ConfigCalls) /\ last = "checkDone"
      BY <2>1
    <3> HIDE DEF all, pairs, begun, last
    <3> QED BY <3>4, <3>5, <3>6, <3>7, WeakerPath
  <2>2. CASE ~ opt.reset
    <3>1. IsPath(<<"open">>, "open", "open", {"open"}, {})
      BY Segments
    <3>2. <<"open">> \in Seq(AllCalls)
      BY <3>1 DEF IsPath
    <3>3. <<"open">> \o <<>> = <<"open">>
      BY <3>2, ConcatEmptySeq
    <3>4. begun = <<"open">> /\ last = "open"
      BY <2>2, <3>3
    <3>5. pairs \subseteq {}
      BY <2>2 DEF HeadPairs
    <3> HIDE DEF pairs, begun, last
    <3> QED BY <3>1, <3>4, <3>5, WeakerPath
  <2> QED BY <2>1, <2>2
<1> DEFINE names1 == {"open"} \cup ConfigPc
           names2 == names1 \cup {"fifo"}
           names3 == names2 \cup {"power", "clock", "patch"}
           pairs2 == pairs \cup {} \cup {<<last, "fifo">>}
           inner == {<<"power", "clock">>, <<"clock", "patch">>}
           pairs3 == pairs2 \cup inner \cup {<<"fifo", "power">>}
<1>2. /\ names1 \cap {"fifo"} = {} /\ names2 \cap {"power", "clock", "patch"} = {}
      /\ names3 \subseteq {"open", "fifo", "power", "clock", "patch"} \cup ConfigPc
  BY DEF ConfigPc
<1>3. HeadPairs \cup MiddlePairs \subseteq pairs3
  BY DEF MiddlePairs
<1> HIDE DEF pairs, last, begun, inner
<1>4. IsPath(<<"fifo">>, "fifo", "fifo", {"fifo"}, {})
  BY Segments
<1>5. IsPath(SetUpCalls, "power", "patch", {"power", "clock", "patch"}, inner)
  BY Segments DEF inner
<1>6. IsPath(begun \o <<"fifo">>, "open", "fifo", names2, pairs2)
  BY <1>1, <1>2, <1>4, JoinPaths
<1> HIDE DEF names1, names2, pairs2
<1>7. IsPath((begun \o <<"fifo">>) \o SetUpCalls, "open", "patch", names3, pairs3)
  BY <1>2, <1>5, <1>6, JoinPaths
<1> HIDE DEF names3, pairs3
<1>8. IsPath((begun \o <<"fifo">>) \o SetUpCalls, "open", "patch",
             {"open", "fifo", "power", "clock", "patch"} \cup ConfigPc,
             HeadPairs \cup MiddlePairs)
  BY <1>2, <1>3, <1>7, WeakerPath
<1> QED BY <1>8 DEF begun

LEMMA TracePath ==
    ASSUME Traces
    PROVE  IsPath(TraceCalls, "traceFile", "stream", TracePc,
                  TailPairs \ {<<"patch", "traceFile">>, <<"stream", "close">>})
<1> DEFINE first == <<"traceFile", "traceOff">>
           held == first \o HoldDSi
           last == IF opt.resetDSi THEN "dsiReset" ELSE "traceOff"
           names1 == {"traceFile", "traceOff", "dsiReset"}
           pairs1 == {<<"traceFile", "traceOff">>}
                       \cup (IF opt.resetDSi THEN {<<"traceOff", "dsiReset">>} ELSE {})
           names2 == {"drain", "traceOn", "release", "stream"}
           pairs2 == {<<"drain", "traceOn">>, <<"traceOn", "release">>, <<"release", "stream">>}
           pairs3 == pairs1 \cup pairs2 \cup {<<last, "drain">>}
<1>1. /\ IsPath(first, "traceFile", "traceOff", {"traceFile", "traceOff"},
                {<<"traceFile", "traceOff">>})
      /\ IsPath(<<"dsiReset">>, "dsiReset", "dsiReset", {"dsiReset"}, {})
      /\ IsPath(<<"drain", "traceOn", "release", "stream">>, "drain", "stream", names2, pairs2)
  BY Segments
<1>2. IsPath(held, "traceFile", last, names1, pairs1)
  <2>1. CASE opt.resetDSi
    <3> DEFINE names == {"traceFile", "traceOff"} \cup {"dsiReset"}
               pairs == {<<"traceFile", "traceOff">>} \cup {} \cup {<<"traceOff", "dsiReset">>}
    <3>1. held = first \o <<"dsiReset">> /\ last = "dsiReset"
      BY <2>1 DEF HoldDSi
    <3>2. {"traceFile", "traceOff"} \cap {"dsiReset"} = {}
      OBVIOUS
    <3>3. names \subseteq names1 /\ pairs1 \subseteq pairs
      OBVIOUS
    <3> HIDE DEF held, last, first, names1, pairs1
    <3>4. IsPath(first \o <<"dsiReset">>, "traceFile", "dsiReset", names, pairs)
      BY <1>1, <3>2, JoinPaths
    <3> HIDE DEF names, pairs
    <3> QED BY <3>1, <3>3, <3>4, WeakerPath
  <2>2. CASE ~ opt.resetDSi
    <3>1. first \in Seq(AllCalls)
      BY <1>1 DEF IsPath
    <3>2. first \o <<>> = first
      BY <3>1, ConcatEmptySeq
    <3>3. held = first /\ last = "traceOff"
      BY <2>2, <3>2 DEF HoldDSi
    <3>4. {"traceFile", "traceOff"} \subseteq names1 /\ pairs1 \subseteq {<<"traceFile", "traceOff">>}
      BY <2>2
    <3> HIDE DEF held, last, first, names1, pairs1
    <3> QED BY <1>1, <3>3, <3>4, WeakerPath
  <2> QED BY <2>1, <2>2
<1>3. names1 \cap names2 = {} /\ names1 \cup names2 \subseteq TracePc
  BY DEF TracePc
<1>4. TailPairs \ {<<"patch", "traceFile">>, <<"stream", "close">>} \subseteq pairs3
  BY DEF TailPairs
<1>5. TraceCalls = held \o <<"drain", "traceOn", "release", "stream">>
  BY DEF TraceCalls
<1> HIDE DEF held, last, names1, pairs1, names2, pairs2
<1>6. IsPath(TraceCalls, "traceFile", "stream", names1 \cup names2, pairs3)
  BY <1>1, <1>2, <1>3, <1>5, JoinPaths
<1> HIDE DEF pairs3
<1> QED BY <1>3, <1>4, <1>6, WeakerPath

LEMMA CallsPath ==
    IsPath(Calls, "open", "done", AllCalls,
           HeadPairs \cup MiddlePairs \cup TailPairs \cup {<<"close", "done">>})
<1> DEFINE begun == <<"open">> \o (IF opt.reset THEN <<"load">> \o ConfigCalls ELSE <<>>)
                      \o <<"fifo">> \o SetUpCalls
           names1 == {"open", "fifo", "power", "clock", "patch"} \cup ConfigPc
           pairs1 == HeadPairs \cup MiddlePairs
           traced == begun \o (IF Traces THEN TraceCalls ELSE <<>>)
           last == IF Traces THEN "stream" ELSE "patch"
           names2 == names1 \cup TracePc
           pairs2 == pairs1 \cup (TailPairs \ {<<last, "close">>})
<1>1. IsPath(begun, "open", "patch", names1, pairs1)
  BY SetUpPath
<1>2. Calls = traced \o <<"close", "done">>
  BY Zenon DEF Calls
<1>3. IsPath(traced, "open", last, names2, pairs2)
  <2>1. CASE Traces
    <3> DEFINE pairsT == TailPairs \ {<<"patch", "traceFile">>, <<"stream", "close">>}
               pairs == pairs1 \cup pairsT \cup {<<"patch", "traceFile">>}
    <3>1. traced = begun \o TraceCalls /\ last = "stream"
      BY <2>1
    <3>2. names1 \cap TracePc = {}
      BY DEF TracePc, ConfigPc
    <3>3. pairs2 \subseteq pairs
      BY <3>1
    <3>4. IsPath(TraceCalls, "traceFile", "stream", TracePc, pairsT)
      BY <2>1, TracePath
    <3> HIDE DEF traced, begun, last, names1, pairs1, pairs2, pairsT
    <3>5. IsPath(begun \o TraceCalls, "open", "stream", names2, pairs)
      BY <1>1, <3>2, <3>4, JoinPaths
    <3> HIDE DEF pairs, names2
    <3> QED BY <3>1, <3>3, <3>5, WeakerPath
  <2>2. CASE ~ Traces
    <3> HIDE DEF begun
    <3>1. begun \in Seq(AllCalls)
      BY <1>1 DEF IsPath
    <3>2. begun \o <<>> = begun
      BY <3>1, ConcatEmptySeq
    <3>3. traced = begun /\ last = "patch"
      BY <2>2, <3>2
    <3>4. names1 \subseteq names2 /\ pairs2 \subseteq pairs1
      BY <2>2 DEF TailPairs
    <3> HIDE DEF traced, last, names1, pairs1, names2, pairs2
    <3> QED BY <1>1, <3>3, <3>4, WeakerPath
  <2> QED BY <2>1, <2>2
<1> DEFINE names3 == names2 \cup {"close", "done"}
           pairs3 == pairs2 \cup {<<"close", "done">>} \cup {<<last, "close">>}
<1>4. IsPath(<<"close", "done">>, "close", "done", {"close", "done"}, {<<"close", "done">>})
  BY Segments
<1>5. names2 \cap {"close", "done"} = {} /\ names3 \subseteq AllCalls
  BY DEF TracePc, ConfigPc, AllCalls, Fifo
<1>6. HeadPairs \cup MiddlePairs \cup TailPairs \cup {<<"close", "done">>} \subseteq pairs3
  OBVIOUS
<1> HIDE DEF traced, last, names2, pairs2
<1>7. IsPath(Calls, "open", "done", names3, pairs3)
  BY <1>2, <1>3, <1>4, <1>5, JoinPaths
<1> HIDE DEF names3, pairs3
<1> QED BY <1>5, <1>6, <1>7, WeakerPath

\* The call that follows each call.
LEMMA Order ==
    /\ ~ opt.reset => After("open") = "fifo"
    /\ opt.reset =>
         /\ After("open") = "load" /\ After("load") = "resetFTDI"
         /\ After("resetFTDI") = "bitbangA" /\ After("bitbangA") = "bitbangB"
         /\ After("bitbangB") = "progHigh" /\ After("progHigh") = "progLow"
         /\ After("progLow") = "select" /\ After("select") = "checkLow"
         /\ After("checkLow") = "send" /\ After("send") = "extra"
         /\ After("extra") = "checkDone" /\ After("checkDone") = "fifo"
    /\ After("fifo") = "power" /\ After("power") = "clock" /\ After("clock") = "patch"
    /\ ~ Traces => After("patch") = "close"
    /\ Traces =>
         /\ After("patch") = "traceFile" /\ After("traceFile") = "traceOff"
         /\ After("traceOff") = IF opt.resetDSi THEN "dsiReset" ELSE "drain"
         /\ opt.resetDSi => After("dsiReset") = "drain"
         /\ After("drain") = "traceOn" /\ After("traceOn") = "release"
         /\ After("release") = "stream" /\ After("stream") = "close"
    /\ After("close") = "done"
<1> DEFINE pairs == HeadPairs \cup MiddlePairs \cup TailPairs \cup {<<"close", "done">>}
<1>1. \A p, q : <<p, q>> \in pairs => After(p) = q
  BY CallsPath, PathAfter
<1> HIDE DEF pairs
<1>2. ASSUME ~ opt.reset PROVE After("open") = "fifo"
  <2>1. <<"open", "fifo">> \in pairs
    BY <1>2 DEF HeadPairs, pairs
  <2> QED BY <1>1, <2>1
<1>3. ASSUME opt.reset
      PROVE
        /\ After("open") = "load" /\ After("load") = "resetFTDI"
        /\ After("resetFTDI") = "bitbangA" /\ After("bitbangA") = "bitbangB"
        /\ After("bitbangB") = "progHigh" /\ After("progHigh") = "progLow"
        /\ After("progLow") = "select" /\ After("select") = "checkLow"
        /\ After("checkLow") = "send" /\ After("send") = "extra"
        /\ After("extra") = "checkDone" /\ After("checkDone") = "fifo"
  <2>1. {<<"open", "load">>, <<"load", "resetFTDI">>, <<"resetFTDI",
        "bitbangA">>, <<"bitbangA", "bitbangB">>, <<"bitbangB",
        "progHigh">>, <<"progHigh", "progLow">>, <<"progLow",
        "select">>, <<"select", "checkLow">>, <<"checkLow", "send">>,
        <<"send", "extra">>, <<"extra", "checkDone">>, <<"checkDone",
        "fifo">>} \subseteq pairs
    BY <1>3 DEF HeadPairs, pairs
  <2> QED BY <1>1, <2>1
<1>4.
        /\ After("fifo") = "power" /\ After("power") = "clock"
        /\ After("clock") = "patch" /\ After("close") = "done"
  <2>1. {<<"fifo", "power">>, <<"power", "clock">>, <<"clock", "patch">>,
        <<"close", "done">>} \subseteq pairs
    BY DEF MiddlePairs, pairs
  <2> QED BY <1>1, <2>1
<1>5. ASSUME ~ Traces
      PROVE
        /\ After("patch") = "close"
  <2>1. {<<"patch", "close">>} \subseteq pairs
    BY <1>5 DEF TailPairs, pairs
  <2> QED BY <1>1, <2>1
<1>6. ASSUME Traces
      PROVE
        /\ After("patch") = "traceFile" /\ After("traceFile") = "traceOff"
        /\ After("drain") = "traceOn" /\ After("traceOn") = "release"
        /\ After("release") = "stream" /\ After("stream") = "close"
  <2>1. {<<"patch", "traceFile">>, <<"traceFile", "traceOff">>, <<"drain",
        "traceOn">>, <<"traceOn", "release">>, <<"release", "stream">>,
        <<"stream", "close">>} \subseteq pairs
    BY <1>6 DEF TailPairs, pairs
  <2> QED BY <1>1, <2>1
<1>7. ASSUME Traces, opt.resetDSi
      PROVE
        /\ After("traceOff") = "dsiReset" /\ After("dsiReset") = "drain"
  <2>1. {<<"traceOff", "dsiReset">>, <<"dsiReset", "drain">>} \subseteq pairs
    BY <1>7 DEF TailPairs, pairs
  <2> QED BY <1>1, <2>1
<1>8. ASSUME Traces, ~ opt.resetDSi
      PROVE
        /\ After("traceOff") = "drain"
  <2>1. {<<"traceOff", "drain">>} \subseteq pairs
    BY <1>8 DEF TailPairs, pairs
  <2> QED BY <1>1, <2>1
<1> QED BY <1>2, <1>3, <1>4, <1>5, <1>6, <1>7, <1>8

-----------------------------------------------------------------------------
(* What the calls do *)

LEMMA Effects ==
    ASSUME TypeOK
    PROVE  /\ NoEffect => fpga' \in Registered /\ ftdi' \in Modes
           /\ ResetDevice => fpga' \in Registered /\ ftdi' \in Modes
           /\ \A mode \in {"bitbang", "fifo"} :
                ModeA(mode) => fpga' \in Registered /\ ftdi' \in Modes
           /\ \A high \in SUBSET Pins :
                PortB(high) => fpga' \in Registered /\ ftdi' \in Modes
           /\ \A n \in Nat : ConfigData(n) => fpga' \in Registered /\ ftdi' \in Modes
           /\ \A new \in Registered :
                Registers(new) => fpga' \in Registered /\ ftdi' \in Modes
<1>1. fpga \in Registered /\ ftdi \in Modes /\ session \in Nat
  BY DEF TypeOK
<1>2. NoEffect => fpga' \in Registered /\ ftdi' \in Modes
  BY <1>1 DEF NoEffect, hw
<1>3. ResetDevice => fpga' \in Registered /\ ftdi' \in Modes
  BY <1>1 DEF ResetDevice, Modes
<1>4. ASSUME NEW mode \in {"bitbang", "fifo"}, ModeA(mode)
      PROVE  fpga' \in Registered /\ ftdi' \in Modes
  BY <1>1, <1>4 DEF ModeA, Modes
<1>5. Blank \in Registered
  BY DEF Blank, Registered
<1>6. ASSUME NEW high \in SUBSET Pins, PortB(high)
      PROVE  fpga' \in Registered /\ ftdi' \in Modes
  <2>1. [fpga EXCEPT !.conf = "loading"] \in Registered
    BY <1>1 DEF Registered
  <2>2. fpga' \in Registered
    BY <1>1, <1>5, <1>6, <2>1 DEF PortB
  <2>3. ftdi' \in Modes
    BY <1>1, <1>6 DEF PortB, Modes
  <2> QED BY <2>2, <2>3
<1>7. ASSUME NEW n \in Nat, ConfigData(n)
      PROVE  fpga' \in Registered /\ ftdi' \in Modes
  <2>1. fpga.bits + n \in Int
    BY <1>1 DEF Registered
  <2>2. fpga' \in Registered
    <3> DEFINE conf == IF fpga.bits + n >= Whole THEN "running" ELSE fpga.conf
    <3>1. conf \in {"empty", "loading", "running"}
      BY <1>1 DEF Registered
    <3>2. fpga' = fpga \/ fpga' = [fpga EXCEPT !.bits = fpga.bits + n, !.by = session,
                                              !.conf = conf]
      BY <1>7 DEF ConfigData
    <3> HIDE DEF conf
    <3> DEFINE b == fpga.bits + n
               new == [fpga EXCEPT !.bits = b, !.by = session, !.conf = conf]
    <3>3. b \in Int /\ session \in Int
      BY <1>1, <2>1
    <3> HIDE DEF b
    <3>4. new \in Registered
      BY <1>1, <3>1, <3>3 DEF Registered
    <3>5. fpga' = fpga \/ fpga' = new
      BY <3>2 DEF b
    <3> QED BY ONLY <1>1, <3>4, <3>5
  <2> QED BY <1>1, <1>7, <2>2 DEF ConfigData
<1>8. ASSUME NEW new \in Registered, Registers(new)
      PROVE  fpga' \in Registered /\ ftdi' \in Modes
  BY <1>1, <1>8 DEF Registers
<1> QED BY <1>2, <1>3, <1>4, <1>6, <1>7, <1>8

LEMMA FileLength ==
    ASSUME TypeOK, opt.reset
    PROVE  /\ Length(opt.file) \in Int
           /\ Verdict(opt.file) = "send" => Length(opt.file) > 0
<1>1. opt.file \in Files
  BY DEF TypeOK, Options
<1>2. Length(opt.file) \in Int
  BY <1>1, SessionAssumption
<1>3. Verdict(opt.file) = "send" => Length(opt.file) > 0
  BY <1>2 DEF Verdict, Length, bitfile_read_content
<1> QED BY <1>2, <1>3

\* Once a session has failed, what matters is that there was a cause.
LEMMA Failed ==
    TypeOK /\ pc = "failed" /\ async = 0 /\ FailsOnlyForCause => Inv
<1>1. "failed" \notin AllCalls
  BY DEF AllCalls, ConfigPc, Fifo, TracePc
<1>2. /\ ConfigPc \subseteq AllCalls /\ TracePc \subseteq AllCalls /\ Fifo \subseteq AllCalls
      /\ Holding \subseteq AllCalls /\ Patched \subseteq AllCalls
      /\ {"open", "fifo"} \subseteq AllCalls
  BY DEF AllCalls, ConfigPc, Fifo, TracePc, Holding, Patched
<1> SUFFICES ASSUME TypeOK, pc = "failed", async = 0, FailsOnlyForCause PROVE Inv
  OBVIOUS
<1>3. Route
  BY <1>1, <1>2 DEF Route
<1>4. Port
  BY <1>1, <1>2 DEF Port
<1>5. Loaded
  BY <1>1, <1>2 DEF Loaded
<1>6. Capture
  BY DEF Capture
<1> QED BY <1>3, <1>4, <1>5, <1>6 DEF Inv

LEMMA Noticed ==
    \A c \in {"usb", "no return value", "bad file", "not configured", "overflow", "killed"} :
      {c} \ {"unnoticed"} # {}
<1>1. /\ "usb" # "unnoticed" /\ "no return value" # "unnoticed" /\ "bad file" # "unnoticed"
      /\ "not configured" # "unnoticed" /\ "overflow" # "unnoticed"
      /\ "killed" # "unnoticed"
  BY Zenon
<1>2. \A c : c # "unnoticed" => {c} \ {"unnoticed"} # {}
  OBVIOUS
<1> QED BY <1>1, <1>2, Zenon

LEMMA FailedStep ==
    ASSUME TypeOK, NEW cause, Exit(cause), UNCHANGED <<session, opt, hookPatch>>,
           sent' \in Nat, untraced' \in BOOLEAN, fpga' \in Registered, ftdi' \in Modes,
           cause \ {"unnoticed"} # {} \/ (opt.reset /\ Length(opt.file) < Whole)
    PROVE  Inv'
<1>1. pc' = "failed" /\ async' = 0 /\ causes' = causes \cup cause
  BY DEF Exit
<1>2. TypeOK'
  BY <1>1 DEF TypeOK
<1>3. FailsOnlyForCause'
  BY <1>1 DEF FailsOnlyForCause
<1>4. (TypeOK /\ pc = "failed" /\ async = 0 /\ FailsOnlyForCause)' => Inv'
  BY Failed, PTL
<1> QED BY <1>1, <1>2, <1>3, <1>4

-----------------------------------------------------------------------------
(* Initially, and from one session to the next *)

LEMMA InitInv == Init => Inv
<1> SUFFICES ASSUME Init PROVE Inv
  OBVIOUS
<1>1. TypeOK
  <2>1. fpga \in Registered
    BY DEF Init, Blank, Registered
  <2>2. ftdi \in Modes
    BY DEF Init, Modes
  <2>3. 1 \in Nat \ {0} /\ 0 \in Nat
    OBVIOUS
  <2> QED BY <2>1, <2>2, <2>3, Zenon DEF Init, TypeOK, AllCalls
<1>2. Route /\ Port /\ Loaded /\ Capture /\ FailsOnlyForCause
  BY DEF Init, Route, Port, Loaded, Capture, FailsOnlyForCause, ConfigPc, Fifo, TracePc,
         Holding, Patched
<1> QED BY <1>1, <1>2 DEF Inv

LEMMA NewSessionStep == ASSUME Inv, NewSession PROVE Inv'
<1>1. PICK o \in Options : Start(o)
  BY DEF NewSession
<1>2. /\ pc' = "open" /\ session' = session + 1 /\ opt' = o
      /\ hookPatch' = FALSE /\ sent' = 0 /\ async' = 0
      /\ fpga' = fpga /\ ftdi' = ftdi /\ untraced' = untraced
  BY <1>1 DEF Start, hw
<1>3. TypeOK'
  <2>1. session + 1 \in Nat \ {0}
    BY DEF Inv, TypeOK
  <2>2. fpga \in Registered /\ ftdi \in Modes /\ untraced \in BOOLEAN
    BY DEF Inv, TypeOK
  <2> QED BY <1>2, <2>1, <2>2 DEF TypeOK, AllCalls
<1>4. Route' /\ Port' /\ Loaded' /\ Capture' /\ FailsOnlyForCause'
  BY <1>2 DEF Route, Port, Loaded, Capture, FailsOnlyForCause, ConfigPc, Fifo, TracePc,
         Holding, Patched
<1> QED BY <1>3, <1>4 DEF Inv

LEMMA KillStep == ASSUME Inv, Kill PROVE Inv'
<1>1. TypeOK
  BY DEF Inv
<1>2. /\ Exit({"killed"}) /\ UNCHANGED <<session, opt, hookPatch>>
      /\ fpga' = fpga /\ ftdi' = ftdi /\ untraced' = untraced /\ sent' = sent
  BY DEF Kill, host, hw
<1>3. sent' \in Nat /\ untraced' \in BOOLEAN /\ fpga' \in Registered /\ ftdi' \in Modes
  BY <1>1, <1>2 DEF TypeOK
<1>4. {"killed"} \ {"unnoticed"} # {}
  OBVIOUS
<1> QED BY <1>1, <1>2, <1>3, <1>4, FailedStep

-----------------------------------------------------------------------------
(* The steps of the program *)

LEMMA OpenStep == ASSUME Inv, Open PROVE Inv'
<1>1. /\ pc = "open" /\ UNCHANGED <<session, opt, sent, async>>
      /\ fpga' = fpga /\ ftdi' = ftdi /\ untraced' = untraced /\ junk' = junk
  BY DEF Open, hw
<1>2. TypeOK /\ sent = 0 /\ async = 0
  BY <1>1 DEF Inv, Port, Route, TypeOK
<1>3. CASE pc' = After("open") /\ hookPatch' = (opt.mode = "hook") /\ causes' = causes
  <2>1. pc' = IF opt.reset THEN "load" ELSE "fifo"
    BY <1>3, Order, <1>2 DEF TypeOK, Options
  <2>2. TypeOK'
    BY <1>1, <1>2, <1>3, <2>1 DEF TypeOK, AllCalls, ConfigPc
  <2>3. Route'
    BY <1>1, <1>2, <1>3, <2>1 DEF Route, ConfigPc, TracePc, Holding
  <2>4. Port'
    BY <1>1, <1>2, <1>3, <2>1 DEF Port, ConfigPc
  <2>5. Loaded'
    BY <1>1, <1>2, <1>3, <2>1 DEF Loaded, Fifo, TracePc, Holding, Patched
  <2>6. Capture' /\ FailsOnlyForCause'
    BY <1>1, <1>2, <1>3, <2>1 DEF Capture, FailsOnlyForCause
  <2> QED BY <2>2, <2>3, <2>4, <2>5, <2>6 DEF Inv
<1>4. CASE pc' = "failed" /\ causes' = {"usb"} /\ hookPatch' = hookPatch
  <2>1. TypeOK'
    BY <1>1, <1>2, <1>4 DEF TypeOK
  <2>2. FailsOnlyForCause'
    BY <1>4 DEF FailsOnlyForCause
  <2>3. (TypeOK /\ pc = "failed" /\ async = 0 /\ FailsOnlyForCause)' => Inv'
    BY Failed, PTL
  <2> QED BY <1>1, <1>2, <1>4, <2>1, <2>2, <2>3
<1> QED BY <1>3, <1>4 DEF Open

LEMMA LoadFileStep == ASSUME Inv, LoadFile PROVE Inv'
<1>1. /\ pc = "load" /\ UNCHANGED <<session, opt, hookPatch, sent>>
      /\ fpga' = fpga /\ ftdi' = ftdi /\ untraced' = untraced /\ junk' = junk
  BY DEF LoadFile, host, hw
<1>2. TypeOK /\ opt.reset /\ hookPatch = (opt.mode = "hook") /\ sent = 0 /\ async = 0
  BY <1>1 DEF Inv, Port, Route, TypeOK, ConfigPc
<1>3. CASE pc' = "resetFTDI" /\ Verdict(opt.file) = "send" /\ UNCHANGED <<async, causes>>
  <2>1. TypeOK'
    BY <1>1, <1>2, <1>3 DEF TypeOK, AllCalls, ConfigPc
  <2>2. Route' /\ Port' /\ Loaded' /\ Capture' /\ FailsOnlyForCause'
    BY <1>1, <1>2, <1>3 DEF Route, Port, Loaded, Capture, FailsOnlyForCause, ConfigPc,
       Fifo, TracePc, Holding, Patched
  <2> QED BY <2>1, <2>2 DEF Inv
<1>4. CASE pc' = "fifo" /\ Verdict(opt.file) = "refused" /\ UNCHANGED <<async, causes>>
  <2>1. TypeOK'
    BY <1>1, <1>2, <1>4 DEF TypeOK, AllCalls
  <2>2. Route' /\ Port' /\ Loaded' /\ Capture' /\ FailsOnlyForCause'
    BY <1>1, <1>2, <1>4 DEF Route, Port, Loaded, Capture, FailsOnlyForCause, ConfigPc,
       Fifo, TracePc, Holding, Patched
  <2> QED BY <2>1, <2>2 DEF Inv
<1>5. CASE Exit({"bad file"})
  <2>1. sent' \in Nat /\ untraced' \in BOOLEAN /\ fpga' \in Registered /\ ftdi' \in Modes
    BY <1>1, <1>2 DEF TypeOK
  <2>2. {"bad file"} \ {"unnoticed"} # {}
    BY Noticed
  <2> QED BY <1>1, <1>2, <1>5, <2>1, <2>2, FailedStep
<1>6. After("load") = "resetFTDI"
  BY <1>2, Order
<1> QED BY <1>3, <1>4, <1>5, <1>6 DEF LoadFile

\* A call of ConfigBegin or ConfigEnd that fails.
LEMMA FailedConfigStep ==
    ASSUME Inv, NEW cause, cause \ {"unnoticed"} # {}, Exit(cause), UNCHANGED <<host, untraced>>,
           fpga' \in Registered, ftdi' \in Modes
    PROVE  Inv'
<1>1. TypeOK /\ sent' \in Nat /\ untraced' \in BOOLEAN /\ UNCHANGED <<session, opt, hookPatch>>
  BY DEF Inv, TypeOK, host
<1> QED BY <1>1, FailedStep

\* A call that succeeds: what the program knows stays as it is.
LEMMA SucceededCall ==
    ASSUME Inv, pc' \in AllCalls, fpga' \in Registered, ftdi' \in Modes,
           UNCHANGED <<host, untraced, causes, async>>
    PROVE  TypeOK' /\ FailsOnlyForCause'
<1>1. "failed" \notin AllCalls
  BY DEF AllCalls, ConfigPc, Fifo, TracePc
<1> QED BY <1>1 DEF Inv, TypeOK, FailsOnlyForCause, host

LEMMA ResetFTDIStep == ASSUME Inv, Call("resetFTDI", ResetDevice) PROVE Inv'
<1>1. pc = "resetFTDI" /\ UNCHANGED <<host, untraced>> /\ fpga' \in Registered /\ ftdi' \in Modes
  <2>1. TypeOK
    BY DEF Inv
  <2> QED BY <2>1, Effects DEF Call
<1>2. CASE ResetDevice /\ pc' = After("resetFTDI") /\ UNCHANGED <<causes, async>>
  <2>1. /\ opt.reset /\ Verdict(opt.file) = "send" /\ async = 0
        /\ hookPatch = (opt.mode = "hook")
    BY <1>1 DEF Inv, Route, ConfigPc
  <2>2. pc' = "bitbangA"
    BY <1>2, <2>1, Order
  <2>3. TypeOK' /\ FailsOnlyForCause'
    BY <1>1, <1>2, <2>2, SucceededCall DEF AllCalls, ConfigPc
  <2>4. Route' /\ Loaded' /\ Capture'
    BY <1>1, <1>2, <2>1, <2>2 DEF Route, Loaded, Capture, ConfigPc, Fifo, TracePc,
       Holding, Patched, host
  <2>5. Port'
    BY <1>1, <1>2, <2>1, <2>2 DEF Inv, Port, ConfigPc, host, ResetDevice
  <2> QED BY <2>3, <2>4, <2>5 DEF Inv
<1>3. CASE Exit({"usb"})
  BY <1>1, <1>3, FailedConfigStep
<1> QED BY <1>2, <1>3 DEF Call

LEMMA BitbangAStep == ASSUME Inv, SetModeCall("bitbangA", ModeA("bitbang")) PROVE Inv'
<1>1. pc = "bitbangA" /\ UNCHANGED <<host, untraced>> /\ fpga' \in Registered /\ ftdi' \in Modes
  <2>1. TypeOK
    BY DEF Inv
  <2> QED BY <2>1, Effects DEF SetModeCall, Call
<1>2. CASE ModeA("bitbang") /\ pc' = After("bitbangA") /\ UNCHANGED <<causes, async>>
  <2>1. /\ opt.reset /\ Verdict(opt.file) = "send" /\ async = 0
        /\ hookPatch = (opt.mode = "hook")
    BY <1>1 DEF Inv, Route, ConfigPc
  <2>2. pc' = "bitbangB"
    BY <1>2, <2>1, Order
  <2>3. TypeOK' /\ FailsOnlyForCause'
    BY <1>1, <1>2, <2>2, SucceededCall DEF AllCalls, ConfigPc
  <2>4. Route' /\ Loaded' /\ Capture'
    BY <1>1, <1>2, <2>1, <2>2 DEF Route, Loaded, Capture, ConfigPc, Fifo, TracePc,
       Holding, Patched, host
  <2>5. Port'
    BY <1>1, <1>2, <2>1, <2>2 DEF Inv, Port, ConfigPc, host, ModeA, Modes, TypeOK
  <2> QED BY <2>3, <2>4, <2>5 DEF Inv
<1>3. CASE Exit({"usb"})
  BY <1>1, <1>3, FailedConfigStep
<1>4. CASE Exit({"no return value"})
  BY <1>1, <1>4, FailedConfigStep, Noticed
<1> QED BY <1>2, <1>3, <1>4 DEF SetModeCall, Call

LEMMA BitbangBStep == ASSUME Inv, SetModeCall("bitbangB", NoEffect) PROVE Inv'
<1>1. pc = "bitbangB" /\ UNCHANGED <<host, untraced>> /\ fpga' \in Registered /\ ftdi' \in Modes
  <2>1. TypeOK
    BY DEF Inv
  <2> QED BY <2>1, Effects DEF SetModeCall, Call
<1>2. CASE NoEffect /\ pc' = After("bitbangB") /\ UNCHANGED <<causes, async>>
  <2>1. /\ opt.reset /\ Verdict(opt.file) = "send" /\ async = 0
        /\ hookPatch = (opt.mode = "hook")
    BY <1>1 DEF Inv, Route, ConfigPc
  <2>2. pc' = "progHigh"
    BY <1>2, <2>1, Order
  <2>3. TypeOK' /\ FailsOnlyForCause'
    BY <1>1, <1>2, <2>2, SucceededCall DEF AllCalls, ConfigPc
  <2>4. Route' /\ Loaded' /\ Capture'
    BY <1>1, <1>2, <2>1, <2>2 DEF Route, Loaded, Capture, ConfigPc, Fifo, TracePc,
       Holding, Patched, host
  <2>5. Port'
    BY <1>1, <1>2, <2>1, <2>2 DEF Inv, Port, ConfigPc, host, NoEffect, hw
  <2> QED BY <2>3, <2>4, <2>5 DEF Inv
<1>3. CASE Exit({"usb"})
  BY <1>1, <1>3, FailedConfigStep
<1>4. CASE Exit({"no return value"})
  BY <1>1, <1>4, FailedConfigStep, Noticed
<1> QED BY <1>2, <1>3, <1>4 DEF SetModeCall, Call

LEMMA ProgHighStep == ASSUME Inv, Call("progHigh", PortB(Pins)) PROVE Inv'
<1>1. pc = "progHigh" /\ UNCHANGED <<host, untraced>> /\ fpga' \in Registered /\ ftdi' \in Modes
  <2>1. TypeOK
    BY DEF Inv
  <2>2. Pins \in SUBSET Pins
    BY DEF Pins
  <2> QED BY <2>1, <2>2, Effects DEF Call
<1>2. CASE PortB(Pins) /\ pc' = After("progHigh") /\ UNCHANGED <<causes, async>>
  <2>1. /\ opt.reset /\ Verdict(opt.file) = "send" /\ async = 0
        /\ hookPatch = (opt.mode = "hook")
    BY <1>1 DEF Inv, Route, ConfigPc
  <2>2. pc' = "progLow"
    BY <1>2, <2>1, Order
  <2>3. TypeOK' /\ FailsOnlyForCause'
    BY <1>1, <1>2, <2>2, SucceededCall DEF AllCalls, ConfigPc
  <2>4. Route' /\ Loaded' /\ Capture'
    BY <1>1, <1>2, <2>1, <2>2 DEF Route, Loaded, Capture, ConfigPc, Fifo, TracePc,
       Holding, Patched, host
  <2>5. Port'
    BY <1>1, <1>2, <2>1, <2>2 DEF Inv, Port, ConfigPc, host, PortB, Modes, TypeOK
  <2> QED BY <2>3, <2>4, <2>5 DEF Inv
<1>3. CASE Exit({"usb"})
  BY <1>1, <1>3, FailedConfigStep
<1> QED BY <1>2, <1>3 DEF Call

LEMMA ProgLowStep == ASSUME Inv, Call("progLow", PortB({"CSI", "RDWR"})) PROVE Inv'
<1>1. pc = "progLow" /\ UNCHANGED <<host, untraced>> /\ fpga' \in Registered /\ ftdi' \in Modes
  <2>1. TypeOK
    BY DEF Inv
  <2>2. {"CSI", "RDWR"} \in SUBSET Pins
    BY DEF Pins
  <2> QED BY <2>1, <2>2, Effects DEF Call
<1>2. CASE PortB({"CSI", "RDWR"}) /\ pc' = After("progLow") /\ UNCHANGED <<causes, async>>
  <2>1. /\ opt.reset /\ Verdict(opt.file) = "send" /\ async = 0
        /\ hookPatch = (opt.mode = "hook")
    BY <1>1 DEF Inv, Route, ConfigPc
  <2>2. pc' = "select"
    BY <1>2, <2>1, Order
  <2>3. TypeOK' /\ FailsOnlyForCause'
    BY <1>1, <1>2, <2>2, SucceededCall DEF AllCalls, ConfigPc
  <2>4. Route' /\ Loaded' /\ Capture'
    BY <1>1, <1>2, <2>1, <2>2 DEF Route, Loaded, Capture, ConfigPc, Fifo, TracePc,
       Holding, Patched, host
  <2>5. Port'
    BY <1>1, <1>2, <2>1, <2>2 DEF Inv, Port, ConfigPc, host, PortB, Modes, TypeOK
  <2> QED BY <2>3, <2>4, <2>5 DEF Inv
<1>3. CASE Exit({"usb"})
  BY <1>1, <1>3, FailedConfigStep
<1> QED BY <1>2, <1>3 DEF Call

LEMMA SelectStep == ASSUME Inv, Call("select", PortB({"PROG"})) PROVE Inv'
<1>1. pc = "select" /\ UNCHANGED <<host, untraced>> /\ fpga' \in Registered /\ ftdi' \in Modes
  <2>1. TypeOK
    BY DEF Inv
  <2>2. {"PROG"} \in SUBSET Pins
    BY DEF Pins
  <2> QED BY <2>1, <2>2, Effects DEF Call
<1>2. CASE PortB({"PROG"}) /\ pc' = After("select") /\ UNCHANGED <<causes, async>>
  <2>1. /\ opt.reset /\ Verdict(opt.file) = "send" /\ async = 0
        /\ hookPatch = (opt.mode = "hook")
    BY <1>1 DEF Inv, Route, ConfigPc
  <2>2. pc' = "checkLow"
    BY <1>2, <2>1, Order
  <2>3. TypeOK' /\ FailsOnlyForCause'
    BY <1>1, <1>2, <2>2, SucceededCall DEF AllCalls, ConfigPc
  <2>4. Route' /\ Loaded' /\ Capture'
    BY <1>1, <1>2, <2>1, <2>2 DEF Route, Loaded, Capture, ConfigPc, Fifo, TracePc,
       Holding, Patched, host
  <2>5. Port'
    BY <1>1, <1>2, <2>1, <2>2 DEF Inv, Port, ConfigPc, host, PortB, Modes, TypeOK
  <2> QED BY <2>3, <2>4, <2>5 DEF Inv
<1>3. CASE Exit({"usb"})
  BY <1>1, <1>3, FailedConfigStep
<1> QED BY <1>2, <1>3 DEF Call
LEMMA CheckLowStep == ASSUME Inv, CheckDone("checkLow", FALSE) PROVE Inv'
<1>1. /\ pc = "checkLow" /\ UNCHANGED <<host, untraced>> /\ NoEffect
      /\ ~ Configured /\ opt.reset /\ TypeOK
  <2>1. pc = "checkLow"
    BY DEF CheckDone, Call
  <2>2. Configured = FALSE
    BY <2>1 DEF Inv, Port, Configured, Blank
  <2>3. Call("checkLow", NoEffect)
    BY <2>2 DEF CheckDone
  <2>4. opt.reset /\ TypeOK
    BY <2>1 DEF Inv, Route, ConfigPc
  <2>5. NoEffect /\ UNCHANGED <<host, untraced>>
    BY <2>3 DEF Call
  <2> QED BY <2>1, <2>2, <2>4, <2>5
<1>2. fpga' \in Registered /\ ftdi' \in Modes
  BY <1>1, Effects
<1>3. CASE pc' = After("checkLow") /\ UNCHANGED <<causes, async>>
  <2>1. /\ Verdict(opt.file) = "send" /\ async = 0 /\ hookPatch = (opt.mode = "hook")
    BY <1>1 DEF Inv, Route, ConfigPc
  <2>2. pc' = "send"
    BY <1>1, <1>3, Order
  <2>3. TypeOK' /\ FailsOnlyForCause'
    BY <1>1, <1>2, <1>3, <2>2, SucceededCall DEF AllCalls, ConfigPc
  <2>4. Route' /\ Loaded' /\ Capture'
    BY <1>1, <1>3, <2>1, <2>2 DEF Route, Loaded, Capture, ConfigPc, Fifo, TracePc,
       Holding, Patched, host
  <2>5. fpga.conf = "loading" /\ fpga.bits = 0 /\ sent = 0 /\ ftdi.pins = {"PROG"}
    BY <1>1 DEF Inv, Port, Blank, ConfigPc
  <2>6. Length(opt.file) \in Int /\ Length(opt.file) > 0 /\ Whole > 0
    BY <1>1, <2>1, FileLength, SessionAssumption
  <2>7. Port'
    BY <1>1, <2>2, <2>5, <2>6 DEF Port, ConfigPc, host, NoEffect, hw
  <2> QED BY <2>3, <2>4, <2>7 DEF Inv
<1>4. CASE Exit({"usb"})
  BY <1>1, <1>2, <1>4, FailedConfigStep
<1>5. Call("checkLow", NoEffect)
  <2>1. Configured = FALSE
    BY <1>1 DEF Configured
  <2> QED BY <2>1 DEF CheckDone
<1> QED BY <1>3, <1>4, <1>5 DEF Call

\* DONE stays low only if the file is shorter than a bitstream.
LEMMA CheckDoneStep == ASSUME Inv, CheckDone("checkDone", TRUE) PROVE Inv'
<1>1. /\ pc = "checkDone" /\ UNCHANGED <<host, untraced>> /\ NoEffect /\ opt.reset /\ TypeOK
      /\ Verdict(opt.file) = "send" /\ async = 0 /\ hookPatch = (opt.mode = "hook")
  <2>1. pc = "checkDone"
    BY DEF CheckDone, Call
  <2>2. opt.reset /\ Verdict(opt.file) = "send" /\ async = 0 /\ hookPatch = (opt.mode = "hook")
    BY <2>1 DEF Inv, Route, ConfigPc
  <2> QED BY <2>1, <2>2 DEF CheckDone, Call, Inv, NoEffect
<1>2. fpga' \in Registered /\ ftdi' \in Modes
  BY <1>1, Effects
<1>3. CASE Configured /\ pc' = After("checkDone") /\ UNCHANGED <<causes, async>>
  <2>1. pc' = "fifo"
    BY <1>1, <1>3, Order
  <2>2. TypeOK' /\ FailsOnlyForCause'
    BY <1>1, <1>2, <1>3, <2>1, SucceededCall DEF AllCalls
  <2>3. fpga.by = session
    BY <1>1, <1>3 DEF Inv, Port, Configured
  <2>4. Route' /\ Port' /\ Loaded' /\ Capture'
    BY <1>1, <1>3, <2>1, <2>3 DEF Route, Port, Loaded, Capture, ConfigPc, Fifo, TracePc,
       Holding, Patched, host, NoEffect, hw, Configured
  <2> QED BY <2>2, <2>4 DEF Inv
<1>4. CASE Exit({"usb"})
  BY <1>1, <1>2, <1>4, FailedConfigStep
<1>5. CASE ~ Configured /\ Exit({})
  <2>1. sent = Length(opt.file) /\ sent < Whole
    BY <1>1, <1>5 DEF Inv, Port, Configured
  <2>2. /\ sent' \in Nat /\ untraced' \in BOOLEAN
        /\ UNCHANGED <<session, opt, hookPatch>>
    BY <1>1 DEF TypeOK, host
  <2> QED BY <1>1, <1>2, <1>5, <2>1, <2>2, FailedStep
<1> QED BY <1>3, <1>4, <1>5 DEF CheckDone, Call

\* What the FPGA holds is what has been sent, until it is configured.
LEMMA SendStep == ASSUME Inv, ConfigSendBuffer PROVE Inv'
<1> DEFINE left == Length(opt.file) - sent
           chunk == Chunk(left)
<1>1. /\ pc = "send" /\ UNCHANGED <<session, opt, hookPatch, untraced>>
      /\ opt.reset /\ Verdict(opt.file) = "send" /\ async = 0
      /\ hookPatch = (opt.mode = "hook") /\ TypeOK
  BY DEF ConfigSendBuffer, Inv, Route, ConfigPc
<1>2. /\ Length(opt.file) \in Int /\ sent \in Nat /\ left >= 0 /\ sent <= Length(opt.file)
      /\ ftdi.pins = {"PROG"} /\ session \in Nat /\ Whole \in Nat
      /\ \/ fpga.conf = "loading" /\ fpga.bits = sent /\ sent < Whole
         \/ fpga.conf = "running" /\ fpga.by = session
  BY <1>1, FileLength, SessionAssumption DEF Inv, Port, TypeOK
<1>3. left > 0 => chunk \in Nat /\ chunk > 0 /\ chunk <= left
  BY <1>2, SessionAssumption DEF Chunk
<1> HIDE DEF chunk
<1>4. CASE left = 0 /\ pc' = After("send") /\ UNCHANGED <<hw, sent, async, causes>>
  <2>1. pc' = "extra" /\ sent = Length(opt.file)
    BY <1>1, <1>2, <1>4, Order
  <2>2. fpga' \in Registered /\ ftdi' \in Modes
    BY <1>1, <1>4 DEF TypeOK, hw
  <2>3. TypeOK' /\ FailsOnlyForCause'
    BY <1>1, <1>4, <2>1, <2>2, SucceededCall DEF AllCalls, ConfigPc, host
  <2>4. Route' /\ Loaded' /\ Capture'
    BY <1>1, <1>4, <2>1 DEF Route, Loaded, Capture, ConfigPc, Fifo, TracePc,
       Holding, Patched
  <2>5. Port'
    BY <1>1, <1>2, <1>4, <2>1 DEF Port, ConfigPc, hw
  <2> QED BY <2>3, <2>4, <2>5 DEF Inv
<1>5. CASE left > 0 /\ ConfigData(chunk) /\ sent' = sent + chunk /\ UNCHANGED <<pc, async, causes>>
  <2>1. fpga' \in Registered /\ ftdi' \in Modes
    BY <1>1, <1>3, <1>5, Effects
  <2>2. sent' \in Nat /\ sent' <= Length(opt.file)
    BY <1>2, <1>3, <1>5
  <2>3. TypeOK'
    BY <1>1, <1>5, <2>1, <2>2 DEF TypeOK
  <2>4. Route' /\ Loaded' /\ Capture' /\ FailsOnlyForCause'
    BY <1>1, <1>5 DEF Route, Loaded, Capture, ConfigPc, Fifo, TracePc,
       Holding, Patched, FailsOnlyForCause
  <2>5. \/ fpga'.conf = "loading" /\ fpga'.bits = sent' /\ sent' < Whole
        \/ fpga'.conf = "running" /\ fpga'.by = session
    <3>1. CASE fpga.conf = "running"
      BY <1>2, <1>5, <3>1 DEF ConfigData
    <3>2. CASE fpga.conf = "loading"
      <4>1. fpga.bits = sent
        BY <1>2, <3>2
      <4>2. /\ fpga'.bits = sent + chunk /\ fpga'.by = session
            /\ fpga'.conf = IF sent + chunk >= Whole THEN "running" ELSE "loading"
        <5>1. fpga' = [fpga EXCEPT !.bits = @ + chunk, !.by = session,
                           !.conf = IF fpga.bits + chunk >= Whole THEN "running" ELSE @]
          BY <1>2, <1>5, <3>2 DEF ConfigData
        <5> QED BY <1>1, <3>2, <4>1, <5>1 DEF TypeOK, Registered
      <4> QED BY <1>2, <1>3, <1>5, <4>2
    <3> QED BY <1>2, <3>1, <3>2
  <2>6. ftdi' = ftdi
    BY <1>5 DEF ConfigData
  <2>7. Port'
    BY <1>1, <1>2, <1>5, <2>2, <2>5, <2>6 DEF Port, ConfigPc
  <2> QED BY <2>3, <2>4, <2>7 DEF Inv
<1>6. CASE left > 0 /\ (ConfigData(chunk) \/ NoEffect) /\ Exit({"usb"}) /\ sent' = sent
  <2>1. fpga' \in Registered /\ ftdi' \in Modes
    BY <1>1, <1>3, <1>6, Effects
  <2>2. UNCHANGED <<host, untraced>>
    BY <1>1, <1>6 DEF host
  <2> QED BY <1>6, <2>1, <2>2, FailedConfigStep
<1> QED BY <1>4, <1>5, <1>6 DEF ConfigSendBuffer, chunk

LEMMA ExtraStep == ASSUME Inv, Call("extra", ConfigData(0)) PROVE Inv'
<1>1. pc = "extra" /\ UNCHANGED <<host, untraced>> /\ fpga' \in Registered /\ ftdi' \in Modes
  <2>1. TypeOK /\ 0 \in Nat
    BY DEF Inv
  <2> QED BY <2>1, Effects DEF Call
<1>2. CASE ConfigData(0) /\ pc' = After("extra") /\ UNCHANGED <<causes, async>>
  <2>1. /\ opt.reset /\ Verdict(opt.file) = "send" /\ async = 0
        /\ hookPatch = (opt.mode = "hook")
    BY <1>1 DEF Inv, Route, ConfigPc
  <2>2. pc' = "checkDone"
    BY <1>2, <2>1, Order
  <2>3. TypeOK' /\ FailsOnlyForCause'
    BY <1>1, <1>2, <2>2, SucceededCall DEF AllCalls, ConfigPc
  <2>4. Route' /\ Loaded' /\ Capture'
    BY <1>1, <1>2, <2>1, <2>2 DEF Route, Loaded, Capture, ConfigPc, Fifo, TracePc,
       Holding, Patched, host
  <2>5. /\ sent \in Nat /\ Whole \in Nat /\ session \in Nat /\ fpga \in Registered
        /\ ftdi.pins = {"PROG"} /\ sent = Length(opt.file)
        /\ \/ fpga.conf = "loading" /\ fpga.bits = sent /\ sent < Whole
           \/ fpga.conf = "running" /\ fpga.by = session
    BY <1>1, SessionAssumption DEF Inv, Port, TypeOK
  <2>6. \/ fpga'.conf = "loading" /\ fpga'.bits = sent
        \/ fpga'.conf = "running" /\ fpga'.by = session
    <3>1. CASE fpga.conf = "running"
      BY <1>2, <2>5, <3>1 DEF ConfigData
    <3>2. CASE fpga.conf = "loading"
      <4>1. fpga' = [fpga EXCEPT !.bits = @ + 0, !.by = session,
                           !.conf = IF fpga.bits + 0 >= Whole THEN "running" ELSE @]
        BY <1>2, <2>5, <3>2 DEF ConfigData
      <4> QED BY <2>5, <3>2, <4>1 DEF Registered
    <3> QED BY <2>5, <3>1, <3>2
  <2>7. fpga.conf = "running" => fpga' = fpga
    BY <1>2 DEF ConfigData
  <2>8. ftdi' = ftdi
    BY <1>2 DEF ConfigData
  <2>9. Port'
    BY <1>1, <1>2, <2>2, <2>5, <2>6, <2>7, <2>8 DEF Port, ConfigPc, host
  <2> QED BY <2>3, <2>4, <2>9 DEF Inv
<1>3. CASE Exit({"usb"})
  BY <1>1, <1>3, FailedConfigStep
<1> QED BY <1>2, <1>3 DEF Call

LEMMA SetFifoModeStep == ASSUME Inv, SetFifoMode PROVE Inv'
<1>1. pc = "fifo" /\ UNCHANGED <<host, untraced>> /\ fpga' \in Registered /\ ftdi' \in Modes
  <2>1. TypeOK
    BY DEF Inv
  <2> QED BY <2>1, Effects DEF SetFifoMode, SetModeCall, Call
<1>2. CASE ModeA("fifo") /\ pc' = After("fifo") /\ UNCHANGED <<causes, async>>
  <2>1. pc' = "power"
    BY <1>2, Order
  <2>2. TypeOK' /\ FailsOnlyForCause'
    BY <1>1, <1>2, <2>1, SucceededCall DEF AllCalls, Fifo
  <2>3. Route' /\ Port' /\ Capture'
    BY <1>1, <1>2, <2>1 DEF Inv, Route, Port, Capture, ConfigPc, TracePc, Holding, host
  <2>4. ftdi'.A = "fifo" /\ ftdi'.clkout = "clock" /\ fpga' = fpga
    BY <1>2 DEF Inv, TypeOK, Modes, ModeA
  <2>5. Loaded'
    BY <1>1, <2>1, <2>4 DEF Inv, Loaded, Fifo, TracePc, Holding, Patched, host, Configured
  <2> QED BY <2>2, <2>3, <2>5 DEF Inv
<1>3. CASE Exit({"usb"})
  BY <1>1, <1>3, FailedConfigStep
<1>4. CASE Exit({"no return value"})
  BY <1>1, <1>4, FailedConfigStep, Noticed
<1> QED BY <1>2, <1>3, <1>4 DEF SetFifoMode, SetModeCall, Call
LEMMA PowerOnStep == ASSUME Inv, PowerOn PROVE Inv'
<1> DEFINE new == PowerFlags(FALSE)
<1>1. pc = "power" /\ UNCHANGED <<host, untraced>> /\ TypeOK /\ async = 0
  BY DEF PowerOn, RegisterCall, Call, Inv, TypeOK
<1>2. new \in Registered
  BY <1>1 DEF TypeOK, Registered, PowerFlags
<1>3. fpga' \in Registered /\ ftdi' \in Modes
  BY <1>1, <1>2, Effects DEF PowerOn, RegisterCall, Call
<1>4. CASE Registers(new) /\ pc' = After("power") /\ UNCHANGED <<causes, async>>
  <2>1. pc' = "clock"
    BY <1>4, Order
  <2>2. TypeOK' /\ FailsOnlyForCause'
    BY <1>1, <1>3, <1>4, <2>1, SucceededCall DEF AllCalls, Fifo, TracePc
  <2>3. /\ ftdi.A = "fifo" /\ ftdi.clkout = "clock" /\ ftdi' = ftdi /\ junk' = junk
        /\ fpga' = IF Configured THEN new ELSE fpga
    BY <1>1, <1>4 DEF Inv, Loaded, Fifo, TracePc, Registers
  <2>4. /\ fpga'.conf = fpga.conf /\ fpga'.by = fpga.by /\ fpga'.error_latch = fpga.error_latch
        /\ Configured => fpga'.batt /\ ~ fpga'.dsiReset
    BY <1>2, <2>3 DEF Registered, Configured
       , PowerFlags
  <2>5. Route' /\ Port'
    BY <1>1, <1>4, <2>1, <2>4 DEF Inv, Route, Port, ConfigPc, TracePc, Holding, host, Traces
  <2>6. Loaded'
    BY <1>1, <1>4, <2>1, <2>3, <2>4 DEF Inv, Loaded, Fifo, TracePc, Holding, Patched, host,
       Configured, Traces, traceFlags
  <2>7. Capture'
    BY <1>1, <1>4, <2>1, <2>3, <2>4 DEF Inv, Capture, Route, Holding, host
  <2> QED BY <2>2, <2>5, <2>6, <2>7 DEF Inv
<1>5. CASE Exit({"usb"})
  BY <1>1, <1>3, <1>5, FailedConfigStep
<1> QED BY <1>4, <1>5 DEF PowerOn, RegisterCall, Call

LEMMA TraceOffStep == ASSUME Inv, TraceOff PROVE Inv'
<1> DEFINE new == [fpga EXCEPT !.traceFlags = {}]
<1>1. pc = "traceOff" /\ UNCHANGED <<host, untraced>> /\ TypeOK /\ async = 0
  BY DEF TraceOff, RegisterCall, Call, Inv, TypeOK
<1>2. new \in Registered
  BY <1>1 DEF TypeOK, Registered
<1>3. fpga' \in Registered /\ ftdi' \in Modes
  BY <1>1, <1>2, Effects DEF TraceOff, RegisterCall, Call
<1>4. CASE Registers(new) /\ pc' = After("traceOff") /\ UNCHANGED <<causes, async>>
  <2>1. pc' = (IF opt.resetDSi THEN "dsiReset" ELSE "drain") /\ Traces
    BY <1>1, <1>4, Order DEF Inv, Route, TracePc
  <2>2. TypeOK' /\ FailsOnlyForCause'
    BY <1>1, <1>3, <1>4, <2>1, SucceededCall DEF AllCalls, Fifo, TracePc
  <2>3. /\ ftdi.A = "fifo" /\ ftdi.clkout = "clock" /\ ftdi' = ftdi /\ junk' = junk
        /\ fpga' = IF Configured THEN new ELSE fpga
    BY <1>1, <1>4 DEF Inv, Loaded, Fifo, TracePc, Registers
  <2>4. /\ fpga'.conf = fpga.conf /\ fpga'.by = fpga.by /\ fpga'.error_latch = fpga.error_latch
        /\ Configured => /\ fpga'.batt = fpga.batt /\ fpga'.dsiReset = fpga.dsiReset
                         /\ fpga'.clock = fpga.clock /\ fpga'.patch = fpga.patch
                         /\ fpga'.hook = fpga.hook
                         /\ fpga'.traceFlags = {}
    BY <1>2, <2>3 DEF Registered, Configured
  <2>5. Route' /\ Port'
    <3>1. CASE opt.resetDSi
      <4>1. pc' = "dsiReset" /\ opt'.resetDSi
        BY <1>1, <2>1, <3>1 DEF host
      <4> QED BY <1>1, <1>4, <2>1, <2>4, <4>1 DEF Inv, Route, Port, ConfigPc, TracePc,
             Holding, host, Traces
    <3>2. CASE ~ opt.resetDSi
      <4>1. pc' = "drain" /\ ~ opt'.resetDSi
        BY <1>1, <2>1, <3>2 DEF host
      <4>2. Port'
        BY <4>1 DEF Port, ConfigPc
      <4>3. hookPatch = (opt.mode = "hook")
        BY <1>1 DEF Inv, Route
      <4>4. Route'
        BY <1>1, <1>4, <2>1, <4>1, <4>3 DEF Route, ConfigPc, TracePc, Holding, host, Traces
      <4> QED BY <4>2, <4>4
    <3> QED BY <3>1, <3>2
  <2>6. Loaded'
    BY <1>1, <1>4, <2>1, <2>3, <2>4 DEF Inv, Loaded, Fifo, TracePc, Holding, Patched, host,
       Configured, Traces, traceFlags
  <2>7. Capture'
    BY <1>1, <1>4, <2>1, <2>3, <2>4 DEF Inv, Capture, Route, Holding, host
  <2> QED BY <2>2, <2>5, <2>6, <2>7 DEF Inv
<1>5. CASE Exit({"usb"})
  BY <1>1, <1>3, <1>5, FailedConfigStep
<1> QED BY <1>4, <1>5 DEF TraceOff, RegisterCall, Call

LEMMA TraceOnStep == ASSUME Inv, TraceOn PROVE Inv'
<1> DEFINE new == [fpga EXCEPT !.traceFlags = traceFlags]
<1>1. pc = "traceOn" /\ UNCHANGED <<host, untraced>> /\ TypeOK /\ async = 0
  BY DEF TraceOn, RegisterCall, Call, Inv, TypeOK
<1>2. new \in Registered
  BY <1>1 DEF TypeOK, Registered, traceFlags
<1>3. fpga' \in Registered /\ ftdi' \in Modes
  BY <1>1, <1>2, Effects DEF TraceOn, RegisterCall, Call
<1>4. CASE Registers(new) /\ pc' = After("traceOn") /\ UNCHANGED <<causes, async>>
  <2>1. pc' = "release" /\ Traces
    BY <1>1, <1>4, Order DEF Inv, Route, TracePc
  <2>2. TypeOK' /\ FailsOnlyForCause'
    BY <1>1, <1>3, <1>4, <2>1, SucceededCall DEF AllCalls, Fifo, TracePc
  <2>3. /\ ftdi.A = "fifo" /\ ftdi.clkout = "clock" /\ ftdi' = ftdi /\ junk' = junk
        /\ fpga' = new /\ Configured
    BY <1>1, <1>4 DEF Inv, Loaded, Fifo, TracePc, Patched, Registers
  <2>4. /\ fpga'.conf = fpga.conf /\ fpga'.by = fpga.by /\ fpga'.error_latch = fpga.error_latch
        /\ fpga'.batt = fpga.batt /\ fpga'.dsiReset = fpga.dsiReset
        /\ fpga'.clock = fpga.clock /\ fpga'.patch = fpga.patch
        /\ fpga'.hook = fpga.hook /\ fpga'.traceFlags = traceFlags
    BY <1>2, <2>3 DEF Registered, Configured
  <2>5. Route' /\ Port'
    BY <1>1, <1>4, <2>1, <2>4 DEF Inv, Route, Port, ConfigPc, TracePc, Holding, host, Traces
  <2>6. Loaded'
    BY <1>1, <1>4, <2>1, <2>3, <2>4 DEF Inv, Loaded, Fifo, TracePc, Holding, Patched, host,
       Configured, Traces, traceFlags
  <2>7. Capture'
    BY <1>1, <1>4, <2>1, <2>3, <2>4 DEF Inv, Capture, Route, Holding, host
  <2> QED BY <2>2, <2>5, <2>6, <2>7 DEF Inv
<1>5. CASE Exit({"usb"})
  BY <1>1, <1>3, <1>5, FailedConfigStep
<1> QED BY <1>4, <1>5 DEF TraceOn, RegisterCall, Call

LEMMA ReleaseStep == ASSUME Inv, Release PROVE Inv'
<1> DEFINE new == PowerFlags(FALSE)
<1>1. pc = "release" /\ UNCHANGED <<host, untraced>> /\ TypeOK /\ async = 0
  BY DEF Release, RegisterCall, Call, Inv, TypeOK
<1>2. new \in Registered
  BY <1>1 DEF TypeOK, Registered, PowerFlags
<1>3. fpga' \in Registered /\ ftdi' \in Modes
  BY <1>1, <1>2, Effects DEF Release, RegisterCall, Call
<1>4. CASE Registers(new) /\ pc' = After("release") /\ UNCHANGED <<causes, async>>
  <2>1. pc' = "stream" /\ Traces
    BY <1>1, <1>4, Order DEF Inv, Route, TracePc
  <2>2. TypeOK' /\ FailsOnlyForCause'
    BY <1>1, <1>3, <1>4, <2>1, SucceededCall DEF AllCalls, Fifo, TracePc
  <2>3. /\ ftdi.A = "fifo" /\ ftdi.clkout = "clock" /\ ftdi' = ftdi /\ junk' = junk
        /\ fpga' = IF Configured THEN new ELSE fpga
    BY <1>1, <1>4 DEF Inv, Loaded, Fifo, TracePc, Registers
  <2>4. /\ fpga'.conf = fpga.conf /\ fpga'.by = fpga.by /\ fpga'.error_latch = fpga.error_latch
        /\ Configured => /\ fpga'.batt /\ ~ fpga'.dsiReset
                         /\ fpga'.clock = fpga.clock /\ fpga'.patch = fpga.patch
                         /\ fpga'.hook = fpga.hook /\ fpga'.traceFlags = fpga.traceFlags
    BY <1>2, <2>3 DEF Registered, Configured, PowerFlags
  <2>5. Route' /\ Port'
    BY <1>1, <1>4, <2>1, <2>4 DEF Inv, Route, Port, ConfigPc, TracePc, Holding, host, Traces
  <2>6. Loaded'
    BY <1>1, <1>4, <2>1, <2>3, <2>4 DEF Inv, Loaded, Fifo, TracePc, Holding, Patched, host,
       Configured, Traces, traceFlags
  <2>7. Capture'
    BY <1>1, <1>4, <2>1, <2>3, <2>4 DEF Inv, Capture, Route, Holding, host
  <2> QED BY <2>2, <2>5, <2>6, <2>7 DEF Inv
<1>5. CASE Exit({"usb"})
  BY <1>1, <1>3, <1>5, FailedConfigStep
<1> QED BY <1>4, <1>5 DEF Release, RegisterCall, Call
LEMMA SetSystemClockStep == ASSUME Inv, SetSystemClock PROVE Inv'
<1>1. pc = "clock" /\ UNCHANGED <<host, untraced, hw>> /\ TypeOK
  BY DEF SetSystemClock, Inv
<1>2. fpga' \in Registered /\ ftdi' \in Modes
  BY <1>1 DEF TypeOK, hw
<1>3. CASE pc' = After("clock") /\ async' = session /\ UNCHANGED causes
  <2>1. pc' = "patch" /\ session # 0
    BY <1>1, <1>3, Order DEF TypeOK
  <2>2. TypeOK'
    BY <1>1, <1>2, <1>3, <2>1 DEF TypeOK, AllCalls, Fifo, host
  <2>3. Route' /\ Port' /\ Capture' /\ FailsOnlyForCause'
    BY <1>1, <1>3, <2>1 DEF Inv, Route, Port, Capture, FailsOnlyForCause, ConfigPc,
       TracePc, Holding, host
  <2>4. Loaded'
    BY <1>1, <1>3, <2>1 DEF Inv, Loaded, Fifo, TracePc, Holding, Patched, host, hw,
       Configured, Traces
  <2> QED BY <2>2, <2>3, <2>4 DEF Inv
<1>4. CASE Exit({"usb"})
  BY <1>1, <1>2, <1>4, FailedConfigStep
<1> QED BY <1>3, <1>4 DEF SetSystemClock

\* The clock is written before HW_LoadPatch's write, which waits for it.
LEMMA DeliverStep == ASSUME Inv, Deliver PROVE Inv'
<1> DEFINE new == [fpga EXCEPT !.clock = async]
<1>1. /\ UNCHANGED <<pc, host, untraced>> /\ async' = 0 /\ TypeOK
      /\ \/ Registers(new) /\ causes' = causes
         \/ NoEffect /\ causes' = causes \cup {"unnoticed"}
      /\ pc = "patch" /\ async = session /\ async \in Nat
  BY DEF Deliver, Inv, Route, TypeOK
<1>2. new \in Registered
  BY <1>1 DEF TypeOK, Registered
<1>3. fpga' \in Registered /\ ftdi' \in Modes
  BY <1>1, <1>2, Effects
<1>4. ftdi' = ftdi /\ junk' = junk
  BY <1>1 DEF Registers, NoEffect, hw
<1>5. /\ fpga'.conf = fpga.conf /\ fpga'.by = fpga.by
      /\ Configured => /\ fpga'.batt = fpga.batt /\ fpga'.dsiReset = fpga.dsiReset
                       /\ "unnoticed" \in causes' \/ fpga'.clock = session
  <2>1. CASE NoEffect /\ causes' = causes \cup {"unnoticed"}
    BY <2>1 DEF NoEffect, hw
  <2>2. CASE Registers(new) /\ causes' = causes
    <3>1. fpga' = IF Configured THEN new ELSE fpga
      BY <1>1, <2>2 DEF Inv, Loaded, Fifo, Registers
    <3> QED BY <1>1, <1>2, <3>1 DEF Registered, Configured, TypeOK
  <2> QED BY <1>1, <2>1, <2>2
<1>6. TypeOK'
  BY <1>1, <1>3 DEF TypeOK, host
<1>7. Route' /\ Port' /\ Capture' /\ FailsOnlyForCause'
  BY <1>1, <1>4 DEF Inv, Route, Port, Capture, FailsOnlyForCause, ConfigPc, TracePc,
     Holding, host
<1>8. Loaded'
  BY <1>1, <1>4, <1>5 DEF Inv, Loaded, Fifo, TracePc, Holding, Patched, host, Configured,
     Traces
<1> QED BY <1>6, <1>7, <1>8 DEF Inv

LEMMA LoadPatchStep == ASSUME Inv, LoadPatch PROVE Inv'
<1> DEFINE new == [fpga EXCEPT !.patch = session, !.hook = hookPatch]
           mixed == [fpga EXCEPT !.patch = -1]
<1>1. pc = "patch" /\ UNCHANGED <<host, untraced>> /\ TypeOK
  BY DEF LoadPatch, RegisterCall, Call, Inv
<1>2. new \in Registered /\ mixed \in Registered
  <2>1. fpga \in Registered /\ session \in Int /\ hookPatch \in BOOLEAN /\ -1 \in Int
    BY <1>1 DEF TypeOK
  <2>2. new \in Registered
    BY <2>1 DEF Registered
  <2>3. mixed \in Registered
    BY <2>1 DEF Registered
  <2> QED BY <2>2, <2>3
<1>3. fpga' \in Registered /\ ftdi' \in Modes
  <2>1. Registers(new) \/ Registers(mixed) \/ NoEffect
    BY DEF LoadPatch, RegisterCall, Call, NoEffect
  <2> QED BY <1>1, <1>2, <2>1, Effects
<1>4. CASE /\ Configured /\ async = 0 /\ Registers(new)
           /\ pc' = After("patch") /\ UNCHANGED <<causes, async>>
  <2>1. pc' = IF Traces THEN "traceFile" ELSE "close"
    BY <1>4, Order
  <2>2. pc' \in {"traceFile", "close"}
    BY <2>1
  <2>3. TypeOK' /\ FailsOnlyForCause'
    BY <1>1, <1>3, <1>4, <2>2, SucceededCall DEF AllCalls, Fifo, TracePc
  <2>4. ftdi.A = "fifo" /\ ftdi.clkout = "clock" /\ ftdi' = ftdi /\ junk' = junk /\ fpga' = new
    BY <1>1, <1>4 DEF Inv, Loaded, Fifo, Registers
  <2>5. /\ fpga'.conf = fpga.conf /\ fpga'.by = fpga.by /\ fpga'.clock = fpga.clock
        /\ fpga'.batt = fpga.batt /\ fpga'.dsiReset = fpga.dsiReset
        /\ fpga'.patch = session /\ fpga'.hook = hookPatch
    BY <1>1, <2>4 DEF TypeOK, Registered
  <2>6. /\ hookPatch = (opt.mode = "hook")
        /\ "unnoticed" \in causes \/ fpga.clock = session
    BY <1>1, <1>4 DEF Inv, Route, Loaded
  <2>7. Route' /\ Port' /\ Capture'
    BY <1>1, <1>4, <2>1, <2>2 DEF Inv, Route, Port, Capture, ConfigPc, TracePc, Holding,
       host, Traces
  <2>8. Loaded'
    <3>1. /\ Configured' /\ ("unnoticed" \in causes' \/ fpga'.clock = session')
          /\ fpga'.patch = session' /\ fpga'.hook = (opt'.mode = "hook")
      <4>1. opt' = opt /\ session' = session /\ causes' = causes
        BY <1>1, <1>4 DEF host
      <4>2. fpga'.hook = (opt'.mode = "hook")
        <5>1. fpga'.hook = hookPatch
          BY <2>5
        <5>2. hookPatch = (opt.mode = "hook")
          BY <2>6
        <5>3. opt'.mode = opt.mode
          BY <4>1
        <5> QED BY <5>1, <5>2, <5>3, Zenon
      <4>3. "unnoticed" \in causes' \/ fpga'.clock = session'
        BY <2>5, <2>6, <4>1
      <4> QED BY <1>4, <2>5, <4>1, <4>2, <4>3 DEF Configured
    <3>2. /\ opt.reset /\ Verdict(opt.file) # "refused" => fpga'.by = session'
          /\ fpga'.batt /\ ~ fpga'.dsiReset
      BY <1>1, <1>4, <2>5 DEF Inv, Loaded, Fifo, Holding, TracePc, host
    <3>3. pc' \notin {"patch", "dsiReset", "drain", "traceOn", "release", "stream", "done"}
          /\ (pc' = "close" => ~ Traces) /\ opt' = opt
      BY <1>1, <2>1, <2>2 DEF host
    <3> QED BY <2>4, <3>1, <3>2, <3>3 DEF Loaded, Traces
  <2> QED BY <2>3, <2>7, <2>8 DEF Inv
<1>5. CASE Exit({"usb"})
  BY <1>1, <1>3, <1>5, FailedConfigStep
<1>6. CASE Exit({"not configured"})
  BY <1>1, <1>3, <1>6, FailedConfigStep, Noticed
<1> QED BY <1>4, <1>5, <1>6 DEF LoadPatch, RegisterCall, Call
LEMMA OpenTraceFileStep == ASSUME Inv, OpenTraceFile PROVE Inv'
<1>1. pc = "traceFile" /\ UNCHANGED <<host, untraced, hw>> /\ TypeOK /\ async = 0
  BY DEF OpenTraceFile, Inv, Route
<1>2. fpga' \in Registered /\ ftdi' \in Modes
  BY <1>1 DEF TypeOK, hw
<1>3. CASE pc' = After("traceFile") /\ UNCHANGED <<async, causes>>
  <2>1. pc' = "traceOff"
    BY <1>1, <1>3, Order DEF Inv, Route, TracePc
  <2>2. TypeOK' /\ FailsOnlyForCause'
    BY <1>1, <1>2, <1>3, <2>1 DEF TypeOK, FailsOnlyForCause, AllCalls, Fifo, TracePc, host
  <2>3. Route' /\ Port' /\ Capture'
    BY <1>1, <1>3, <2>1 DEF Inv, Route, Port, Capture, ConfigPc, TracePc, Holding, host, hw,
       Traces
  <2>4. Loaded'
    BY <1>1, <1>3, <2>1 DEF Inv, Route, Loaded, Fifo, TracePc, Holding, Patched, host, hw,
       Configured, Traces, traceFlags
  <2> QED BY <2>2, <2>3, <2>4 DEF Inv
<1>4. CASE Exit({"bad file"})
  BY <1>1, <1>2, <1>4, FailedConfigStep, Noticed
<1> QED BY <1>3, <1>4 DEF OpenTraceFile

LEMMA StreamStep == ASSUME Inv, Stream PROVE Inv'
<1>1. pc = "stream" /\ UNCHANGED <<host, untraced, hw>> /\ TypeOK /\ async = 0
  BY DEF Stream, Inv, Route
<1>2. fpga' \in Registered /\ ftdi' \in Modes
  BY <1>1 DEF TypeOK, hw
<1>3. CASE pc' = After("stream") /\ UNCHANGED <<async, causes>>
  <2>1. pc' = "close"
    BY <1>1, <1>3, Order DEF Inv, Route, TracePc
  <2>2. TypeOK' /\ FailsOnlyForCause'
    BY <1>1, <1>2, <1>3, <2>1 DEF TypeOK, FailsOnlyForCause, AllCalls, Fifo, TracePc, host
  <2>3. Route' /\ Port' /\ Capture'
    BY <1>1, <1>3, <2>1 DEF Inv, Route, Port, Capture, ConfigPc, TracePc, Holding, host, hw,
       Traces
  <2>4. Loaded'
    BY <1>1, <1>3, <2>1 DEF Inv, Route, Loaded, Fifo, TracePc, Holding, Patched, host, hw,
       Configured, Traces, traceFlags
  <2> QED BY <2>2, <2>3, <2>4 DEF Inv
<1>4. CASE Exit({"usb"})
  BY <1>1, <1>2, <1>4, FailedConfigStep
<1>5. CASE Exit({"overflow"})
  BY <1>1, <1>2, <1>5, FailedConfigStep
<1> QED BY <1>3, <1>4, <1>5 DEF Stream

LEMMA CloseStep == ASSUME Inv, Close PROVE Inv'
<1>1. pc = "close" /\ UNCHANGED <<host, untraced, hw>> /\ TypeOK /\ async = 0
  BY DEF Close, Inv, Route
<1>2. fpga' \in Registered /\ ftdi' \in Modes
  BY <1>1 DEF TypeOK, hw
<1>3. CASE pc' = After("close") /\ UNCHANGED causes /\ async' = 0
  <2>1. pc' = "done"
    BY <1>1, <1>3, Order DEF Inv, Route, TracePc
  <2>2. TypeOK' /\ FailsOnlyForCause'
    BY <1>1, <1>2, <1>3, <2>1 DEF TypeOK, FailsOnlyForCause, AllCalls, Fifo, TracePc, host
  <2>3. Route' /\ Port' /\ Capture'
    BY <1>1, <1>3, <2>1 DEF Inv, Route, Port, Capture, ConfigPc, TracePc, Holding, host, hw,
       Traces
  <2>4. Loaded'
    BY <1>1, <1>3, <2>1 DEF Inv, Route, Loaded, Fifo, TracePc, Holding, Patched, host, hw,
       Configured, Traces, traceFlags
  <2> QED BY <2>2, <2>3, <2>4 DEF Inv
<1> QED BY <1>1, <1>3 DEF Close

LEMMA DrainErrorStep == ASSUME Inv, DrainError PROVE Inv'
<1>1. pc = "drain" /\ UNCHANGED <<host, untraced, hw>> /\ TypeOK /\ async = 0
  BY DEF DrainError, Inv, Route
<1>2. fpga' \in Registered /\ ftdi' \in Modes
  BY <1>1 DEF TypeOK, hw
<1>3. CASE pc' = After("drain") /\ causes' = causes \cup {"usb"} /\ UNCHANGED async
  <2>1. pc' = "traceOn"
    BY <1>1, <1>3, Order DEF Inv, Route, TracePc
  <2>2. TypeOK' /\ FailsOnlyForCause'
    BY <1>1, <1>2, <1>3, <2>1 DEF TypeOK, FailsOnlyForCause, AllCalls, Fifo, TracePc, host
  <2>3. Route' /\ Port' /\ Capture'
    BY <1>1, <1>3, <2>1 DEF Inv, Route, Port, Capture, ConfigPc, TracePc, Holding, host, hw,
       Traces
  <2>4. Loaded'
    BY <1>1, <1>3, <2>1 DEF Inv, Route, Loaded, Fifo, TracePc, Holding, Patched, host, hw,
       Configured, Traces, traceFlags
  <2> QED BY <2>2, <2>3, <2>4 DEF Inv
<1> QED BY <1>1, <1>3 DEF DrainError

LEMMA DrainStep == ASSUME Inv, Drain PROVE Inv'
<1>1. /\ pc = "drain" /\ UNCHANGED <<host, async, fpga, ftdi, causes, untraced>>
      /\ TypeOK /\ async = 0
  BY DEF Drain, Inv, Route
<1>2. CASE ReadFails /\ pc' = After("drain") /\ junk' = junk
  <2>1. pc' = "traceOn" /\ junk' = 0
    BY <1>1, <1>2, Order DEF Inv, Route, TracePc, ReadFails
  <2>2. TypeOK' /\ FailsOnlyForCause'
    BY <1>1, <1>2, <2>1 DEF TypeOK, FailsOnlyForCause, AllCalls, Fifo, TracePc, host
  <2>3. Route' /\ Port' /\ Capture'
    BY <1>1, <2>1 DEF Inv, Route, Port, Capture, ConfigPc, TracePc, Holding, host, Traces
  <2>4. Loaded'
    BY <1>1, <2>1 DEF Inv, Route, Loaded, Fifo, TracePc, Holding, Patched, host, Configured,
       Traces, traceFlags
  <2> QED BY <2>2, <2>3, <2>4 DEF Inv
<1>3. CASE ~ ReadFails /\ UNCHANGED pc
  <2>1. TypeOK' /\ FailsOnlyForCause'
    BY <1>1, <1>3 DEF TypeOK, FailsOnlyForCause, host
  <2>2. Route' /\ Port' /\ Capture'
    BY <1>1, <1>3 DEF Inv, Route, Port, Capture, ConfigPc, TracePc, Holding, host, Traces
  <2>3. Loaded'
    BY <1>1, <1>3 DEF Inv, Route, Loaded, Fifo, TracePc, Holding, Patched, host, Configured,
       Traces, traceFlags
  <2> QED BY <2>1, <2>2, <2>3 DEF Inv
<1> QED BY <1>2, <1>3 DEF Drain

LEMMA HoldResetStep == ASSUME Inv, HoldReset PROVE Inv'
<1> DEFINE new == PowerFlags(TRUE)
<1>1. /\ pc = "dsiReset" /\ UNCHANGED host /\ TypeOK /\ async = 0
      /\ untraced' \in BOOLEAN
  BY DEF HoldReset, Inv, Route, TypeOK
<1>2. new \in Registered
  BY <1>1 DEF TypeOK, Registered, PowerFlags
<1>3. fpga' \in Registered /\ ftdi' \in Modes
  BY <1>1, <1>2, Effects DEF HoldReset
<1>4. CASE /\ Registers(new) /\ pc' = After("dsiReset") /\ UNCHANGED <<async, causes>>
           /\ untraced' = FALSE
  <2>1. pc' = "drain" /\ Traces
    BY <1>1, <1>4, Order DEF Inv, Route, TracePc
  <2>2. TypeOK' /\ FailsOnlyForCause'
    BY <1>1, <1>3, <1>4, <2>1 DEF TypeOK, FailsOnlyForCause, AllCalls, Fifo, TracePc, host
  <2>3. /\ ftdi.A = "fifo" /\ ftdi.clkout = "clock" /\ ftdi' = ftdi /\ fpga' = new
    BY <1>1, <1>4 DEF Inv, Loaded, Fifo, TracePc, Patched, Registers
  <2>4. /\ fpga'.conf = fpga.conf /\ fpga'.by = fpga.by
        /\ fpga'.batt /\ fpga'.dsiReset /\ fpga'.traceFlags = fpga.traceFlags
        /\ fpga'.clock = fpga.clock /\ fpga'.patch = fpga.patch /\ fpga'.hook = fpga.hook
    BY <1>1, <2>3 DEF TypeOK, Registered, PowerFlags
  <2>5. Route' /\ Port' /\ Capture'
    BY <1>1, <1>4, <2>1, <2>4 DEF Inv, Route, Port, Capture, ConfigPc, TracePc, Holding,
       host, Traces
  <2>6. Loaded'
    BY <1>1, <1>4, <2>1, <2>3, <2>4 DEF Inv, Loaded, Fifo, TracePc, Holding, Patched,
       host, Configured, Traces
  <2> QED BY <2>2, <2>5, <2>6 DEF Inv
<1>5. CASE Exit({"usb"})
  <2>1. sent' \in Nat /\ UNCHANGED <<session, opt, hookPatch>>
        /\ {"usb"} \ {"unnoticed"} # {}
    BY <1>1 DEF TypeOK, host
  <2> QED BY <1>1, <1>3, <1>5, <2>1, FailedStep
<1> QED BY <1>4, <1>5 DEF HoldReset

\* While it is held in reset the console does not run; in the capture what it
\* does is heard, or the FIFO has overflowed.
LEMMA DsiRunsStep == ASSUME Inv, DsiRuns PROVE Inv'
<1> DEFINE traced == fpga.traceFlags # {} /\ ftdi.clkout = "clock"
           latched == [fpga EXCEPT !.error_latch = TRUE]
<1>1. /\ UNCHANGED <<pc, host, async, ftdi, causes>> /\ ~ fpga.dsiReset
      /\ untraced' = (untraced \/ ~ traced \/ ~ Heard) /\ TypeOK
  BY DEF DsiRuns, Inv
<1>2. \/ ~ traced /\ UNCHANGED <<fpga, junk>>
      \/ traced /\ ~ Heard /\ UNCHANGED fpga
      \/ traced /\ fpga' = latched /\ UNCHANGED junk
  BY DEF DsiRuns
<1>3. fpga' = fpga \/ fpga' = latched
  BY <1>2
<1>4. latched \in Registered /\ latched.error_latch
  BY <1>1 DEF TypeOK, Registered
<1>5. /\ fpga'.conf = fpga.conf /\ fpga'.by = fpga.by /\ fpga'.traceFlags = fpga.traceFlags
      /\ fpga'.batt = fpga.batt /\ fpga'.dsiReset = fpga.dsiReset
      /\ fpga'.clock = fpga.clock /\ fpga'.patch = fpga.patch /\ fpga'.hook = fpga.hook
      /\ fpga'.bits = fpga.bits
  BY <1>1, <1>3 DEF TypeOK, Registered
<1>6. TypeOK' /\ FailsOnlyForCause'
  BY <1>1, <1>3, <1>4 DEF Inv, TypeOK, FailsOnlyForCause, host
<1>7. Route'
  BY <1>1, <1>5 DEF Inv, Route, ConfigPc, TracePc, Holding, host, Traces
<1>8. ~ (pc \in {"select", "checkLow"})
  BY DEF DsiRuns, Configured, Inv, Port, Blank
<1>9. Port'
  BY <1>1, <1>5, <1>8 DEF Inv, Port, host
<1>10. Loaded'
  BY <1>1, <1>5 DEF Inv, Loaded, host, Configured, Traces, traceFlags
<1>11. pc \in {"release", "stream"} => traced
  BY DEF Inv, Loaded, Route, traceFlags, Fifo, TracePc
<1>12. Capture'
  <2>1. CASE pc = "traceOn"
    <3>1. ~ traced
      BY <2>1 DEF Inv, Loaded
    <3> QED BY <1>1, <1>2, <2>1, <3>1 DEF Inv, Capture
  <2>2. CASE pc \in {"release", "stream"}
    BY <1>1, <1>2, <1>4, <1>11, <2>2 DEF Inv, Capture, Heard, host, TypeOK
  <2>3. CASE pc \notin {"traceOn", "release", "stream"}
    BY <1>1, <2>3 DEF Capture
  <2> QED BY <2>1, <2>2, <2>3
<1> QED BY <1>6, <1>7, <1>9, <1>10, <1>12 DEF Inv

-----------------------------------------------------------------------------
(* The theorems *)

LEMMA Step == Inv /\ [Next]_vars => Inv'
<1> SUFFICES ASSUME Inv, [Next]_vars PROVE Inv'
  OBVIOUS
<1>1. CASE ConfigBegin
  BY <1>1, ResetFTDIStep, BitbangAStep, BitbangBStep, ProgHighStep, ProgLowStep,
     SelectStep, CheckLowStep DEF ConfigBegin
<1>2. CASE Configure
  BY <1>1, <1>2, LoadFileStep, SendStep, ExtraStep, CheckDoneStep, SetFifoModeStep
     DEF Configure, ConfigEnd
<1>3. CASE SetUp
  BY <1>3, PowerOnStep, SetSystemClockStep, LoadPatchStep DEF SetUp
<1>4. CASE Trace
  BY <1>4, OpenTraceFileStep, TraceOffStep, HoldResetStep, DrainStep, TraceOnStep,
     ReleaseStep DEF Trace
<1>5. CASE Program
  BY <1>2, <1>3, <1>4, <1>5, OpenStep, CloseStep DEF Program
<1>6. CASE UNCHANGED vars
  BY <1>6 DEF vars, host, hw, Inv, TypeOK, Route, Port, Loaded, Capture, FailsOnlyForCause,
     Configured, Traces, traceFlags
<1> QED BY <1>5, <1>6, DrainErrorStep, StreamStep, DeliverStep, DsiRunsStep, KillStep,
           NewSessionStep DEF Next

\* At each call of a session the hardware is as the calls before have left it,
\* whatever earlier sessions did and at whichever call they ended (main.c).
THEOREM SessionInvariant == Spec => []Inv
BY InitInv, Step, PTL DEF Spec

\* A session fails only for a reason that lies outside it: whatever an earlier
\* one left behind does not make it fail (ConfigBegin of fpgaconfig.c).
THEOREM FailuresHaveCauses == Spec => []FailsOnlyForCause
<1>1. Inv => FailsOnlyForCause
  BY DEF Inv
<1> QED BY <1>1, SessionInvariant, PTL

\* When the capture begins or the session ends well the hardware is as the
\* options say, but for a clock whose write failed unnoticed (main.c,
\* fastftdi.c:171-176), for any bitstream files and any number of sessions.
THEOREM HardwareAsAsked == Spec => []AsAsked
<1>1. ASSUME Inv PROVE AsAsked
  BY <1>1 DEF Inv, Loaded, AsAsked, Fifo, Patched, TracePc, Holding
<1> QED BY <1>1, SessionInvariant, PTL

\* A trace with reset misses nothing the console did after it was held in
\* reset (HW_Trace of hw_trace.c).
THEOREM ResetIsTraced == Spec => []TracedFromReset
<1>1. Inv => TracedFromReset
  BY DEF Inv, Capture, TracedFromReset
<1> QED BY <1>1, SessionInvariant, PTL

\* The capture begins with empty buffers, unless a read failed while they
\* were drained or the FIFO had overflowed (HW_Trace of hw_trace.c).
THEOREM CaptureStartsClean == Spec => []StreamIsClean
<1>1. Inv => StreamIsClean
  BY DEF Inv, Capture, StreamIsClean
<1> QED BY <1>1, SessionInvariant, PTL
=============================================================================
