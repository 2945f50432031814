----------------------------- MODULE RxChannel ------------------------------
(***************************************************************************)
(* What the interrupt-driven receiver promises its reader, with no FIFO,   *)
(* no ring, no interrupt and no indices: bytes the hardware accepted are   *)
(* handed out in the order they came, each at most once.  The only ways a  *)
(* byte may vanish are a drop, which is counted, and a flush the reader    *)
(* asked for.                                                              *)
(***************************************************************************)
EXTENDS Naturals, Sequences, SequencesExt

VARIABLES
    transit,   \* accepted bytes that the reader has not been given yet
    out,       \* the byte handed out last, 0 before the first
    dropped,   \* drops since the counters were last cleared
    flushing   \* the reader is inside a flush

cvars == <<transit, out, dropped, flushing>>

Init ==
    /\ transit = <<>>
    /\ out = 0
    /\ dropped = 0
    /\ flushing = FALSE

Newest == IF transit = <<>> THEN out ELSE Last(transit)

Arrive(n) ==
    /\ n > Newest
    /\ transit' = Append(transit, n)
    /\ UNCHANGED <<out, dropped, flushing>>

Deliver ==
    /\ transit # <<>>
    /\ ~flushing
    /\ out' = Head(transit)
    /\ transit' = Tail(transit)
    /\ UNCHANGED <<dropped, flushing>>

(* A byte is given up for want of room, and the drop is counted.           *)
Drop ==
    /\ ~flushing
    /\ \E i \in 1 .. Len(transit) : transit' = RemoveAt(transit, i)
    /\ dropped' = dropped + 1
    /\ UNCHANGED <<out, flushing>>

ResetCount ==
    /\ dropped' = 0
    /\ UNCHANGED <<transit, out, flushing>>

BeginFlush ==
    /\ ~flushing
    /\ flushing' = TRUE
    /\ UNCHANGED <<transit, out, dropped>>

(* A flush discards the oldest bytes, uncounted.                           *)
Discard ==
    /\ flushing
    /\ \E k \in 1 .. Len(transit) :
           transit' = SubSeq(transit, k + 1, Len(transit))
    /\ UNCHANGED <<out, dropped, flushing>>

EndFlush ==
    /\ flushing
    /\ flushing' = FALSE
    /\ UNCHANGED <<transit, out, dropped>>

CONSTANT Values   \* the byte identities that may arrive

Next ==
    \/ \E n \in Values : Arrive(n)
    \/ Deliver \/ Drop \/ ResetCount
    \/ BeginFlush \/ Discard \/ EndFlush

Spec == Init /\ [][Next]_cvars
=============================================================================
