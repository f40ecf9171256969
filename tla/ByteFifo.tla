------------------------------ MODULE ByteFifo ------------------------------
(***************************************************************************)
(* What a frank_ring promises the code on its two ends, with no indices,   *)
(* no storage and no memory ordering: a first-in first-out queue of at     *)
(* most Capacity bytes.  A put gathers bytes in sending and adds all of    *)
(* them to the queue at once; a get copies the oldest bytes to taken and   *)
(* removes all of them at once.                                            *)
(***************************************************************************)
EXTENDS Naturals, Sequences

CONSTANTS
  Byte,      \* the bytes that may be sent
  Capacity   \* how many bytes the queue can hold

VARIABLES
  q,         \* published bytes that no get has removed, oldest first
  sending,   \* the bytes the put under way has stored so far
  taken      \* the bytes the get under way has copied so far

vars == <<q, sending, taken>>

Init ==
  /\ q = <<>>
  /\ sending = <<>>
  /\ taken = <<>>

\* A put stores a byte; it may only use room that the queue really has.
Offer(b) ==
  /\ Len(q) + Len(sending) < Capacity
  /\ sending' = Append(sending, b)
  /\ UNCHANGED <<q, taken>>

\* The put publishes everything it stored, in order, behind what is queued.
Send ==
  /\ q' = q \o sending
  /\ sending' = <<>>
  /\ UNCHANGED taken

\* A get copies the oldest byte it has not copied yet.
Take ==
  /\ Len(taken) < Len(q)
  /\ taken' = Append(taken, q[Len(taken) + 1])
  /\ UNCHANGED <<q, sending>>

\* The get gives up exactly the room of the bytes it copied.
Release ==
  /\ q' = SubSeq(q, Len(taken) + 1, Len(q))
  /\ taken' = <<>>
  /\ UNCHANGED sending

Next ==
  \/ \E b \in Byte : Offer(b)
  \/ Send
  \/ Take
  \/ Release

Spec == Init /\ [][Next]_vars

=============================================================================
