---------------------------- MODULE BoundedFifo ----------------------------
(***************************************************************************)
(* What a queue_r queue promises to its two ends (include/queue_r.h): a    *)
(* bounded first-in first-out queue of whole elements.  The reader may     *)
(* look at the oldest element without removing it (queue_peek), remove it  *)
(* (queue_discard) or clear the queue from its own end.  A clear removes   *)
(* exactly what was queued when it was called: elements that the writer    *)
(* pushes while the clear is under way stay.                               *)
(***************************************************************************)
EXTENDS Integers, Sequences

CONSTANTS Elements,  \* what may be pushed
          NoElement, \* the reader has not looked at anything yet
          Capacity   \* how many elements fit

VARIABLES q,      \* the queued elements, the oldest first
          got,    \* the element the reader looked at last
          doomed  \* elements a clear in progress will remove, -1 if none is

fifoVars == <<q, got, doomed>>

Init == q = << >> /\ got = NoElement /\ doomed = -1

Push(e) ==
    /\ Len(q) < Capacity
    /\ q' = Append(q, e)
    /\ UNCHANGED <<got, doomed>>

Look ==
    /\ doomed = -1 /\ q # << >>
    /\ got' = Head(q)
    /\ UNCHANGED <<q, doomed>>

Drop ==
    /\ doomed = -1 /\ q # << >>
    /\ q' = Tail(q)
    /\ UNCHANGED <<got, doomed>>

ClearBegin ==
    /\ doomed = -1
    /\ doomed' = Len(q)
    /\ UNCHANGED <<q, got>>

ClearEnd ==
    /\ doomed \in 0..Len(q)
    /\ q' = SubSeq(q, doomed + 1, Len(q))
    /\ doomed' = -1
    /\ UNCHANGED got

Next ==
    \/ \E e \in Elements : Push(e)
    \/ Look
    \/ Drop
    \/ ClearBegin
    \/ ClearEnd

Spec == Init /\ [][Next]_fifoVars
============================================================================
