------------------------------- MODULE MemoryMap -------------------------------
(***************************************************************************)
(* What a user of one namespace may rely on: every name is absent, holds a *)
(* live memory, or holds a forgotten one.  A memory is forgotten before it *)
(* is destroyed, forgetting keeps the body for a later restore, and a      *)
(* rename moves the memory in one step to a name nobody holds.             *)
(***************************************************************************)
CONSTANTS Names, Bodies

VARIABLE store

Absent   == [state |-> "absent"]
Holding(s) == [state: {s}, body: Bodies]
Slots    == {Absent} \cup Holding("live") \cup Holding("gone")

\* remember, edit, restore and enrichment write a body; forget and purge do not.
Write(old, new)  == old.state \in {"absent", "live", "gone"} /\ new.state = "live"
Forget(old, new) == old.state = "live" /\ new = [old EXCEPT !.state = "gone"]
Purge(old, new)  == old.state = "gone" /\ new = Absent

MapInit == store = [n \in Names |-> Absent]

\* One transaction may touch several names: a batch, a split, a purge.
Change ==
  store' \in [Names -> Slots] /\
  \A n \in Names : \/ store'[n] = store[n]
                   \/ Write(store[n], store'[n])
                   \/ Forget(store[n], store'[n])
                   \/ Purge(store[n], store'[n])

Rename(n, m) ==
  /\ store[n].state = "live" /\ store[m] = Absent
  /\ store' = [store EXCEPT ![n] = Absent, ![m] = store[n]]

MapNext == Change \/ \E n, m \in Names : Rename(n, m)

MapSpec == MapInit /\ [][MapNext]_store
=============================================================================
