---------------------------- MODULE PipelineLife ----------------------------
(***************************************************************************)
(* What an HlsPipeline promises to the code that owns it, and all that     *)
(* this code may rely on: a started pipeline holds a tuner of the device   *)
(* until it lets go of it for good, publishes segments meanwhile, and      *)
(* stop() returns only when the tuner is free and nothing will be          *)
(* published any more.  Pipeline.tla implements it task by task, and every *)
(* session of Sessions.tla behaves like it.                                *)
(***************************************************************************)
EXTENDS Naturals

VARIABLES
    owner,      \* "absent", "running", "joining" (inside stop()), "stopped"
    tuner,      \* "held" while the transcoder may use the device's stream
    published   \* segments published so far (next_seq of the store)

lifeVars == <<owner, tuner, published>>

Init == owner = "absent" /\ tuner = "free" /\ published = 0

Start ==
    /\ owner = "absent"
    /\ owner' = "running" /\ tuner' = "held" /\ published' = 0

Publish ==
    /\ owner \in {"running", "joining"}
    /\ published' = published + 1
    /\ UNCHANGED <<owner, tuner>>

ReleaseTuner ==
    /\ owner \in {"running", "joining"} /\ tuner = "held"
    /\ tuner' = "free"
    /\ UNCHANGED <<owner, published>>

RequestStop ==
    /\ owner = "running"
    /\ owner' = "joining"
    /\ UNCHANGED <<tuner, published>>

StopReturns ==
    /\ owner = "joining" /\ tuner = "free"
    /\ owner' = "stopped"
    /\ UNCHANGED <<tuner, published>>

(* The last Arc of a stopped pipeline is dropped and its memory reused.    *)
Reclaim ==
    /\ owner = "stopped"
    /\ owner' = "absent" /\ published' = 0
    /\ UNCHANGED tuner

Next == Start \/ Publish \/ ReleaseTuner \/ RequestStop \/ StopReturns \/ Reclaim

Spec == Init /\ [][Next]_lifeVars
=============================================================================
