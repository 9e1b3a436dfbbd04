---------------------------- MODULE MCHostTrace ----------------------------
(* HostTrace with hook bursts of two words.  The streams are all sequences of *)
(* four and some of five packets the bus can produce: the words of a burst    *)
(* are all reads or all writes, and no burst has more than HookLen words.     *)
EXTENDS HostTrace

FourKinds == {"hookaddr", "addr", "read", "write"}

Plausible(s) ==
    LET Addr(i) == s[i] \in {"hookaddr", "addr"}
        SameBurst(i, j) == i < j /\ \A k \in i .. j : ~ Addr(k)
        WordsIn(i, j) == {k \in i .. j : s[k] \in {"read", "write"}} IN
    \A i, j \in DOMAIN s : SameBurst(i, j) =>
        /\ Cardinality(WordsIn(i, j)) <= HookLen
        /\ {s[i], s[j]} # {"read", "write"}
        /\ \A k \in i .. j : {s[i], s[k]} # {"read", "write"}

MCStreams ==
    {s \in [1 .. 4 -> FourKinds] : Plausible(s)}
      \cup {s \in [1 .. 3 -> Kinds] : Plausible(s)}
      \cup {s \in [1 .. 6 -> FourKinds] :
              /\ Plausible(s)
              /\ s[1] = "hookaddr" /\ s[2] = "write" /\ s[4] = "write" /\ s[6] = "write"}
=============================================================================
