--------------------------- MODULE RelinowDelivery ---------------------------
(***************************************************************************)
(* What a RELIABLE channel promises the two applications, and nothing of   *)
(* how: messages are submitted on one side; on the other side a gap-free   *)
(* run of them is handed over, each whole, once, in order of submission.   *)
(* The run starts with whichever message the receiver hears first.         *)
(***************************************************************************)
EXTENDS Naturals, Sequences

VARIABLES
    sent,                  \* messages submitted, in order
    log                    \* messages handed to the receiving application

\* Messages i to j come next: they continue the run, or begin it.
Continues(i, j) ==
    /\ i \in 1 .. j /\ j <= Len(sent)
    /\ log # <<>> => i > 1 /\ log[Len(log)] = sent[i - 1]

Init == \E i \in 1 .. Len(sent) + 1 : log = SubSeq(sent, i, Len(sent))

Submit ==
    /\ Len(sent') = Len(sent) + 1
    /\ SubSeq(sent', 1, Len(sent)) = sent
    /\ UNCHANGED log

Deliver ==
    /\ \E j \in 1 .. Len(sent) : \E i \in 1 .. j :
          Continues(i, j) /\ log' = log \o SubSeq(sent, i, j)
    /\ UNCHANGED sent

Next == Submit \/ Deliver

Spec == Init /\ [][Next]_<<sent, log>>
=============================================================================
