------------------------------ MODULE Mailbox ------------------------------
(***************************************************************************)
(* What the response half of the I/O hook promises to code on the DSi: a   *)
(* mailbox of one response.  The console asks, the host posts the answer   *)
(* in one piece, the console takes it in one piece.  Responses are known   *)
(* by the number of the request they answer.                               *)
(***************************************************************************)
EXTENDS Naturals

VARIABLES
    asked,   \* number of the latest request
    box,     \* number of the response in the mailbox
    taken    \* number of the latest response the console took

vars == <<asked, box, taken>>

Init == asked = 0 /\ box = 0 /\ taken = 0

Ask == /\ taken = asked
       /\ asked' = asked + 1
       /\ UNCHANGED <<box, taken>>

Post == /\ box # asked
        /\ box' = asked
        /\ UNCHANGED <<asked, taken>>

Take == /\ taken # asked /\ box = asked
        /\ taken' = box
        /\ UNCHANGED <<asked, box>>

Next == Ask \/ Post \/ Take

Spec == Init /\ [][Next]_vars /\ WF_vars(Post) /\ WF_vars(Take)
=============================================================================
