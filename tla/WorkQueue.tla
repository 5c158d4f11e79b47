----------------------------- MODULE WorkQueue ------------------------------
(***************************************************************************)
(* What the jobs table promises to those who queue work, whatever worker   *)
(* serves it: a requested item stays open until it is settled, it settles  *)
(* once, a settled item is never opened again, and an item that is open    *)
(* does not stay so for ever.  Claims, attempts, backoffs, crashes and     *)
(* reclaims are below this level.                                          *)
(***************************************************************************)
CONSTANTS Items

VARIABLE item      \* item[i]: "absent", "open" or "settled"

QueueInit == item = [i \in Items |-> "absent"]

Request(i) == item[i] = "absent" /\ item' = [item EXCEPT ![i] = "open"]

Settle(i) == item[i] = "open" /\ item' = [item EXCEPT ![i] = "settled"]

\* All open items are given up at once when the processor is switched off.
SettleAll ==
  item' = [i \in Items |-> IF item[i] = "open" THEN "settled" ELSE item[i]]

\* Maintenance forgets settled items, a wipe all of them.
Forget(S) == item' = [i \in Items |-> IF i \in S THEN "absent" ELSE item[i]]

SettledItems == {i \in Items : item[i] = "settled"}

QueueNext ==
  \/ \E i \in Items : Request(i) \/ Settle(i)
  \/ SettleAll
  \/ \E S \in SUBSET SettledItems : Forget(S)
  \/ Forget(Items)

QueueSafe == QueueInit /\ [][QueueNext]_item

\* Nothing stays open for ever.
Leaves(i) == Settle(i) \/ SettleAll \/ Forget(Items)

QueueSpec == QueueSafe /\ \A i \in Items : WF_item(Leaves(i))

=============================================================================
