----------------------------- MODULE FairRwLock -----------------------------
(***************************************************************************)
(* tokio::sync::RwLock as AppState uses it: waiters are queued first come, *)
(* first served, so a reader also waits behind a queued writer, and a      *)
(* waiter whose future is dropped leaves the queue.  The queue is kept as  *)
(* the set of waiters each waiter still has ahead of itself.               *)
(***************************************************************************)
CONSTANT Task

VARIABLES
    mode,    \* "none", "wantRead", "wantWrite", "read" or "write"
    ahead    \* ahead[t]: the waiters t may not overtake

LockTypeOK ==
    /\ mode \in [Task -> {"none", "wantRead", "wantWrite", "read", "write"}]
    /\ ahead \in [Task -> SUBSET Task]

LockInit == mode = [t \in Task |-> "none"] /\ ahead = [t \in Task |-> {}]

Waiters == {t \in Task : mode[t] \in {"wantRead", "wantWrite"}}

(* Give up what t holds or waits for and queue up again, in mode m.        *)
Ask(t, m) ==
    /\ mode' = [mode EXCEPT ![t] = m]
    /\ ahead' = [u \in Task |-> (IF u = t THEN Waiters ELSE ahead[u]) \ {t}]

(* Mutant: readers overtake a queued writer.                               *)
CanReadBarging(t) ==
    mode[t] = "wantRead" /\ \A u \in Task : mode[u] # "write"

CanRead(t) ==
    /\ mode[t] = "wantRead" /\ ahead[t] = {}
    /\ \A u \in Task : mode[u] # "write"

CanWrite(t) ==
    /\ mode[t] = "wantWrite" /\ ahead[t] = {}
    /\ \A u \in Task : mode[u] \notin {"read", "write"}

(* Take the lock in mode m, or leave it with m = "none".                   *)
Become(t, m) ==
    /\ mode' = [mode EXCEPT ![t] = m]
    /\ ahead' = [u \in Task |-> IF u = t THEN {} ELSE ahead[u] \ {t}]

Leave(t) == Become(t, "none")
=============================================================================
