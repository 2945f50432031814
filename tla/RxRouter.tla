------------------------------ MODULE RxRouter ------------------------------
(***************************************************************************)
(* What the receiver promises an application that mixes the byte stream    *)
(* with asynchronous transfers: every accepted byte goes, in the order of  *)
(* arrival and once, to the transfer that is active when its turn comes,   *)
(* or to the stream when none is.  A transfer takes the bytes it asked for *)
(* and not one more; only the stream may run out of room, and then it      *)
(* counts.                                                                 *)
(***************************************************************************)
EXTENDS Naturals, Sequences

CONSTANTS
    Values,    \* the byte identities that may arrive
    Requests   \* lengths of the transfers that may be asked for

VARIABLES
    pending,   \* accepted bytes whose turn has not come
    stream,    \* bytes buffered for the byte-stream reader
    out,       \* the byte handed to that reader last, 0 before the first
    stored,    \* bytes the current or last transfer has got
    need,      \* bytes the active transfer still wants, 0 when none is active
    dropped,   \* bytes the stream had no room for
    flushing   \* the reader is inside a flush

rvars == <<pending, stream, out, stored, need, dropped, flushing>>

Init ==
    /\ pending = <<>> /\ stream = <<>> /\ out = 0
    /\ stored = <<>> /\ need = 0
    /\ dropped = 0 /\ flushing = FALSE

Older(s, n) == \A i \in 1 .. Len(s) : s[i] < n

(* A byte is new: everything that came before it is older, wherever it has *)
(* got to.                                                                 *)
Arrive(n) ==
    /\ out < n /\ Older(stream, n) /\ Older(pending, n) /\ Older(stored, n)
    /\ pending' = Append(pending, n)
    /\ UNCHANGED <<stream, out, stored, need, dropped, flushing>>

ToTransfer ==
    /\ need > 0 /\ pending # <<>>
    /\ stored' = Append(stored, Head(pending))
    /\ need' = need - 1
    /\ pending' = Tail(pending)
    /\ UNCHANGED <<stream, out, dropped, flushing>>

(* Of the k oldest bytes the first j find room in the stream.              *)
ToStream ==
    /\ need = 0 /\ ~flushing
    /\ \E k \in 1 .. Len(pending) : \E j \in 0 .. k :
           /\ stream' = stream \o SubSeq(pending, 1, j)
           /\ dropped' = dropped + (k - j)
           /\ pending' = SubSeq(pending, k + 1, Len(pending))
    /\ UNCHANGED <<out, stored, need, flushing>>

Read ==
    /\ stream # <<>> /\ ~flushing
    /\ out' = Head(stream)
    /\ stream' = Tail(stream)
    /\ UNCHANGED <<pending, stored, need, dropped, flushing>>

Start(n) ==
    /\ need = 0
    /\ need' = n
    /\ stored' = <<>>
    /\ UNCHANGED <<pending, stream, out, dropped, flushing>>

Abort ==
    /\ need' = 0
    /\ UNCHANGED <<pending, stream, out, stored, dropped, flushing>>

Flush ==
    \/ /\ flushing' = ~flushing
       /\ UNCHANGED <<pending, stream>>
    \/ /\ flushing /\ UNCHANGED flushing
       /\ stream' = <<>>
       /\ pending' \in {pending} \cup (IF pending = <<>> THEN {} ELSE {Tail(pending)})

ResetCount ==
    /\ dropped' = 0
    /\ UNCHANGED <<pending, stream, out, stored, need, flushing>>

Next ==
    \/ \E n \in Values : Arrive(n)
    \/ \E n \in Requests : Start(n)
    \/ ToTransfer \/ ToStream \/ Read \/ Abort \/ ResetCount
    \/ Flush /\ UNCHANGED <<out, stored, need, dropped>>

Spec == Init /\ [][Next]_rvars

-----------------------------------------------------------------------------
Increasing(s) == \A i, j \in 1 .. Len(s) : i < j => s[i] < s[j]

(* What this comes to for the application: its stream and its transfer are *)
(* both in the order of arrival, with nothing twice, and no byte of the    *)
(* transfer is in the stream, or was what the stream gave out last.        *)
OnceInOrder ==
    /\ Increasing(<<out>> \o stream \o pending)
    /\ Increasing(stored \o pending)
    /\ \A i \in 1 .. Len(stored) :
           /\ stored[i] # out
           /\ \A k \in 1 .. Len(stream) : stored[i] # stream[k]
=============================================================================
