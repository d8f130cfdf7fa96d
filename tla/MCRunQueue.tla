----------------------------- MODULE MCRunQueue -----------------------------
(***************************************************************************)
(* RunQueue for TLC.  Workers differ in nothing but their id, and no       *)
(* action names one, so they may be permuted.                              *)
(***************************************************************************)
EXTENDS RunQueue, TLC

WorkersAlike == Permutations(Workers)

-----------------------------------------------------------------------------
(***************************************************************************)
(* RunQueue with an unlimited supply of runs, all of them for the pool.    *)
(* The name of a finished run that no process remembers stands for the     *)
(* next run that is created.                                               *)
(***************************************************************************)
NextRun(r) ==
  /\ status[r] \in TERMINAL /\ lease_owner[r] = NoOne
  /\ r \notin {x.run : x \in machines}
  /\ r \notin {held[w].run : w \in {w \in Workers : held[w] # NoOne}}
  /\ r \notin {plan[p].run : p \in {p \in Procs : plan[p] # NoOne}}
  /\ status' = [status EXCEPT ![r] = "created"]
  /\ attempt' = [attempt EXCEPT ![r] = 1]
  /\ before' = [q \in Runs |-> IF q = r THEN {} ELSE before[q] \ {r}]
  /\ lease_epoch' = [lease_epoch EXCEPT ![r] = 0]
  /\ log' = [log EXCEPT ![r] = [newest |-> 1, highest |-> 1, author |-> NoOne, epoch |-> 0]]
  /\ UNCHANGED <<lease_owner, lease_expired, machines, procs>>

LoadNext ==
  /\ Next \/ \E r \in Runs : NextRun(r)
  /\ \A x \in machines' : x.proc \in Workers

LoadSpec == Init /\ [][LoadNext]_vars /\ Fairness
=============================================================================
