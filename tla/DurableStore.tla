---------------------------- MODULE DurableStore ----------------------------
(***************************************************************************)
(* What a client of the file-backed server may rely on: updates are applied*)
(* to memory one at a time; the disk follows memory, at any pace and metric*)
(* by metric, but never runs ahead of it and never goes back; a crash      *)
(* resets memory to what the disk holds.  The only exception is a process  *)
(* that begins without the file's metrics: from then on the disk may lose  *)
(* what it had.                                                            *)
(*                                                                         *)
(* An abstraction: it stands for no code of its own.  FileStorage          *)
(* implements it under the mapping stated there.                           *)
(***************************************************************************)
EXTENDS Naturals

CONSTANT Metrics

Versions == [Metrics -> Nat]
Empty == [m \in Metrics |-> 0]

VARIABLES mem, disk, amnesia

vars == <<mem, disk, amnesia>>

Covers(a, b) == \A m \in Metrics : b[m] <= a[m]

Init == mem = Empty /\ disk = Empty /\ amnesia = FALSE

Update(m) ==
  /\ mem' = [mem EXCEPT ![m] = @ + 1]
  /\ UNCHANGED <<disk, amnesia>>

Persist ==
  /\ disk' \in Versions
  /\ Covers(mem, disk')
  /\ amnesia \/ Covers(disk', disk)
  /\ UNCHANGED <<mem, amnesia>>

Crash ==
  /\ mem' = disk
  /\ UNCHANGED <<disk, amnesia>>

Forget ==
  /\ mem' = Empty
  /\ amnesia' = TRUE
  /\ UNCHANGED disk

Next == (\E m \in Metrics : Update(m)) \/ Persist \/ Crash \/ Forget

Spec == Init /\ [][Next]_vars
=============================================================================
