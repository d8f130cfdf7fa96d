---------------------------- MODULE RunOwnership ----------------------------
(***************************************************************************)
(* What the lease on a run promises, whatever the processes do: a run has  *)
(* at most one holder, every acquisition has an epoch of its own, only the *)
(* present holder writes the run's history, and a finished run stays       *)
(* finished and is not acquired again.  RunQueue is shown to implement     *)
(* this.                                                                   *)
(***************************************************************************)
EXTENDS Naturals

CONSTANTS Runs, Workers, NoOne

VARIABLES
  holder,     \* holder[r]: the worker that holds run r, or NoOne
  epoch,      \* epoch[r]: how often r was acquired
  author,     \* author[r]: the holder that last wrote to the history of r
  version,    \* version[r]: the epoch under which it did
  finished    \* finished[r]: has r reached its end?

vars == <<holder, epoch, author, version, finished>>

Init ==
  /\ holder = [r \in Runs |-> NoOne]
  /\ epoch = [r \in Runs |-> 0]
  /\ author = [r \in Runs |-> NoOne]
  /\ version = [r \in Runs |-> 0]
  /\ finished \in [Runs -> BOOLEAN] /\ \A r \in Runs : ~finished[r]

MayFinish(r) == \E f \in {finished[r], TRUE} : finished' = [finished EXCEPT ![r] = f]

\* becoming the holder is the first write of the new holder
Acquire(w, r) ==
  /\ holder[r] = NoOne /\ ~finished[r]
  /\ holder' = [holder EXCEPT ![r] = w]
  /\ epoch' = [epoch EXCEPT ![r] = @ + 1]
  /\ author' = [author EXCEPT ![r] = w]
  /\ version' = [version EXCEPT ![r] = epoch[r] + 1]
  /\ UNCHANGED finished

Write(r) ==
  /\ holder[r] # NoOne
  /\ author' = [author EXCEPT ![r] = holder[r]]
  /\ version' = [version EXCEPT ![r] = epoch[r]]
  /\ MayFinish(r)
  /\ UNCHANGED <<holder, epoch>>

\* the holder gives the run back, or it is taken from a holder that went silent
Drop(r) ==
  /\ holder[r] # NoOne
  /\ holder' = [holder EXCEPT ![r] = NoOne]
  /\ MayFinish(r)
  /\ UNCHANGED <<epoch, author, version>>

\* runs nobody holds may be finished without the pool
FinishUnheld ==
  /\ finished' \in [Runs -> BOOLEAN]
  /\ \A r \in Runs : finished'[r] # finished[r] => finished'[r] /\ holder[r] = NoOne
  /\ UNCHANGED <<holder, epoch, author, version>>

Next ==
  \/ \E r \in Runs : Write(r) \/ Drop(r) \/ \E w \in Workers : Acquire(w, r)
  \/ FinishUnheld

Spec == Init /\ [][Next]_vars
=============================================================================
