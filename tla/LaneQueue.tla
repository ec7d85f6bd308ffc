------------------------------ MODULE LaneQueue ------------------------------
(***************************************************************************)
(* What the run queue of a (module, environment) pair promises, apart from *)
(* positions, requests in flight and statuses: the RunQueue class that     *)
(* __tests__/environments.test.ts (1295-1430) uses as its reference.       *)
(* Arrivals are numbered, so a larger number is a later arrival.           *)
(***************************************************************************)
EXTENDS Integers

CONSTANT Lane

VARIABLES
  waiting,   \* per lane: pairs <<number, is a user run>> of the runs that wait
  released,  \* the numbers of the runs that need not wait any more
  newest     \* the number of the last arrival, in any lane

vars == <<waiting, released, newest>>

Init == waiting = [l \in Lane |-> {}] /\ released = {} /\ newest = 0

\* A run that no lane has to make wait.
Start ==
  /\ newest' = newest + 1
  /\ released' = released \cup {newest'}
  /\ UNCHANGED waiting

\* A run joins its lane behind everyone who is there; a cascade finds no
\* other cascade there.
Join(l, user) ==
  /\ user \/ \A e \in waiting[l] : e[2]
  /\ newest' = newest + 1
  /\ waiting' = [waiting EXCEPT ![l] = @ \cup {<<newest', user>>}]
  /\ UNCHANGED released

\* A newer cascade supersedes the ones still waiting: they are never run.
Supersede(l) ==
  /\ waiting' = [waiting EXCEPT ![l] = {e \in @ : e[2]}]
  /\ UNCHANGED <<released, newest>>

Precedes(e, f) == (e[2] /\ ~f[2]) \/ ((e[2] <=> f[2]) /\ e[1] <= f[1])

\* The lane releases the run whose turn it is.
Serve(l) ==
  /\ \E e \in waiting[l] :
       /\ \A f \in waiting[l] : Precedes(e, f)
       /\ waiting' = [waiting EXCEPT ![l] = @ \ {e}]
       /\ released' = released \cup {e[1]}
  /\ UNCHANGED newest

Next ==
  \/ Start
  \/ \E l \in Lane : Supersede(l) \/ Serve(l) \/ \E u \in BOOLEAN : Join(l, u)

Spec == Init /\ [][Next]_vars

=============================================================================
