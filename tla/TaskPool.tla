------------------------------- MODULE TaskPool -------------------------------
(***************************************************************************)
(* What an agent promises the platform about the tasks it runs: a task id  *)
(* runs at most once at a time, and never more than Slots of them together.*)
(* TaskHost is shown to implement this.                                    *)
(***************************************************************************)
EXTENDS Integers, FiniteSets

CONSTANTS HostedTask, Copy, NoOne, Slots

VARIABLES
  owner,  \* owner[d]: the task copy d runs
  pool    \* pool[d]: idle, running, ended, or stranded: it holds its slot for good

Of(st) == {d \in Copy : pool[d] = st}
Occupied == Cardinality(Of("running")) + Cardinality(Of("stranded"))

PoolInit == owner = [d \in Copy |-> NoOne] /\ pool = [d \in Copy |-> "idle"]

Admit(d, t) ==
  /\ pool[d] = "idle" /\ Occupied < Slots
  /\ \A e \in Of("running") : owner[e] # t
  /\ owner' = [owner EXCEPT ![d] = t]
  /\ pool' = [pool EXCEPT ![d] = "running"]

Retire(d) ==
  /\ pool[d] = "running"
  /\ pool' = [pool EXCEPT ![d] = "ended"]
  /\ UNCHANGED owner

Strand(ds) ==
  /\ ds # {} /\ ds \subseteq Of("running")
  /\ pool' = [d \in Copy |-> IF d \in ds THEN "stranded" ELSE pool[d]]
  /\ UNCHANGED owner

\* Each of them changes pool: to ask for that first is the quickest way to see a stutter.
PoolNext ==
  /\ pool' # pool
  /\ \/ \E d \in Copy, t \in HostedTask : Admit(d, t)
     \/ \E d \in Copy : Retire(d)
     \/ \E ds \in SUBSET Copy : Strand(ds)

PoolSpec == PoolInit /\ [][PoolNext]_<<owner, pool>>
=============================================================================
