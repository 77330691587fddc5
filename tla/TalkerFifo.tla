----------------------------- MODULE TalkerFifo -----------------------------
(***************************************************************************)
(* What the server promises about the audio it holds for each talker: at    *)
(* most Capacity frames wait, a frame is numbered once on arrival, frames    *)
(* leave from the front only (mixed, dropped or expired), so the numbers     *)
(* that wait are always increasing and nothing is ever mixed twice or out    *)
(* of order.  AudioPath is shown to implement it.                            *)
(***************************************************************************)
EXTENDS Naturals, Sequences

CONSTANTS Talkers, Capacity

VARIABLES
  waiting,    \* waiting[u]: the numbers of u's frames held by the server
  arrived     \* arrived[u]: how many frames of u the server has accepted

Suffixes(s) == {SubSeq(s, k, Len(s)) : k \in 1..(Len(s) + 1)}

Init ==
  /\ waiting = [u \in Talkers |-> <<>>]
  /\ arrived = [u \in Talkers |-> 0]

(* One frame of u arrives; frames at the front may give way to it. *)
Accept(u) ==
  /\ arrived' = [arrived EXCEPT ![u] = @ + 1]
  /\ \E rest \in Suffixes(waiting[u]) :
       /\ Len(rest) < Capacity
       /\ waiting' = [waiting EXCEPT ![u] = Append(rest, arrived[u] + 1)]

(* A tick takes frames from the front of any number of queues. *)
Release ==
  /\ UNCHANGED arrived
  /\ waiting' \in [Talkers -> UNION {Suffixes(waiting[u]) : u \in Talkers}]
  /\ \A u \in Talkers : waiting'[u] \in Suffixes(waiting[u])

Next == Release \/ \E u \in Talkers : Accept(u)

Spec == Init /\ [][Next]_<<waiting, arrived>>
=============================================================================
