---------------------------- MODULE ResourcePool ----------------------------
(***************************************************************************)
(* What a pool of things to be used again promises its users: each thing   *)
(* goes from the pool to one user and from that user back to the pool, one *)
(* at a time, and never from one user to another.  Only a thing that is in *)
(* the pool is handed out, only the one who has a thing gives it back, and *)
(* what is lost on the way is lost for good, so that nobody gets it twice. *)
(***************************************************************************)
CONSTANTS
  Items,  \* the things in the pool
  Users   \* those who take them

VARIABLES
  free,   \* the things in the pool
  held    \* the things each user has

vars == <<free, held>>

Init == free = Items /\ held = [u \in Users |-> {}]

\* A user takes x; things that were passed over may be lost.
Take(u, x) ==
  /\ x \in free /\ free' \subseteq free \ {x}
  /\ held' = [held EXCEPT ![u] = @ \cup {x}]

Give(u, x) ==
  /\ x \in held[u] /\ free' = free \cup {x}
  /\ held' = [held EXCEPT ![u] = @ \ {x}]

\* Nobody gets anything.
Lose ==
  /\ free' \subseteq free
  /\ held' \in [Users -> SUBSET Items] /\ \A u \in Users : held'[u] \subseteq held[u]

Next == Lose \/ \E u \in Users, x \in Items : Take(u, x) \/ Give(u, x)

Spec == Init /\ [][Next]_vars
=============================================================================
