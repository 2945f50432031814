----------------------------- MODULE TxTransfer -----------------------------
(***************************************************************************)
(* What the non-blocking transmitter promises its caller, with no FIFO, no *)
(* interrupt and no descriptor fields: one transfer at a time; its bytes   *)
(* are submitted one after the other; when the last one is, the transfer   *)
(* is over and SEND_COMPLETE is reported, once, before anything else may   *)
(* start, to the callback if there is one; an aborted transfer just ends.  *)
(***************************************************************************)
EXTENDS Naturals

CONSTANTS
    Ids,     \* identities of transfers, numbered in the order of the calls
    Length   \* Length[t]: the bytes of transfer t

VARIABLES
    current,   \* the active transfer, 0 when there is none
    sent,      \* how many bytes of it were submitted
    finished,  \* a transfer that is over and not yet reported, or 0
    reported   \* the transfer SEND_COMPLETE was reported for last

tvars == <<current, sent, finished, reported>>

Init ==
    /\ current = 0
    /\ sent = 0
    /\ finished = 0
    /\ reported = 0

Start(t) ==
    /\ current = 0 /\ finished = 0
    /\ t > reported
    /\ current' = t
    /\ sent' = 0
    /\ UNCHANGED <<finished, reported>>

Submit ==
    /\ current # 0
    /\ sent < Length[current]
    /\ sent' = sent + 1
    /\ UNCHANGED <<current, finished, reported>>

Finish ==
    /\ current # 0
    /\ sent = Length[current]
    /\ current' = 0
    /\ sent' = 0
    /\ finished' = current
    /\ UNCHANGED reported

Report ==
    /\ finished # 0
    /\ reported' = finished
    /\ finished' = 0
    /\ UNCHANGED <<current, sent>>

(* There is no callback to report to.                                      *)
Unreported ==
    /\ finished # 0
    /\ finished' = 0
    /\ UNCHANGED <<current, sent, reported>>

Abort ==
    /\ current # 0
    /\ finished = 0
    /\ current' = 0
    /\ sent' = 0
    /\ UNCHANGED <<finished, reported>>

Next ==
    \/ \E t \in Ids : Start(t)
    \/ Submit \/ Finish \/ Report \/ Unreported \/ Abort

Spec == Init /\ [][Next]_tvars
=============================================================================
