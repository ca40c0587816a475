----------------------------- MODULE ZkPromise ------------------------------
(***************************************************************************)
(* What a ZooKeeper handle keeps of its promise about asynchronous         *)
(* requests (include/zookeeper.h): each is answered at most once, in the   *)
(* order of the calls, with a result or with the reason for its failure; a *)
(* session that is lost stays lost and takes no more requests; after the   *)
(* handle is gone no completion runs.                                      *)
(*                                                                         *)
(* What it does not keep has a step of its own: the handle may be dropped  *)
(* with requests that are never answered, although destroy() means to call *)
(* their completions.  ZkHandle!CompletedByClose says that this step is    *)
(* never taken, and is false.                                              *)
(***************************************************************************)
EXTENDS Naturals, Sequences

CONSTANT Codes   \* result codes

VARIABLES
    issued,    \* number of requests accepted
    outcomes,  \* the completions run: request number and result code
    phase      \* "live", "lost", "closed" (all answered) or "dropped" (not all)

vars == <<issued, outcomes, phase>>

Open     == phase \in {"live", "lost"}
Answered == Len(outcomes) = issued

Init == issued = 0 /\ outcomes = <<>> /\ phase = "live"

Issue == /\ phase = "live"
         /\ issued' = issued + 1
         /\ UNCHANGED <<outcomes, phase>>

Complete == /\ Open /\ ~Answered
            /\ \E rc \in Codes :
                   outcomes' = Append(outcomes, [xid |-> Len(outcomes) + 1, rc |-> rc])
            /\ UNCHANGED <<issued, phase>>

Lose == /\ phase = "live"
        /\ phase' = "lost"
        /\ UNCHANGED <<issued, outcomes>>

Close == /\ Open /\ Answered
         /\ phase' = "closed"
         /\ UNCHANGED <<issued, outcomes>>

Drop == /\ Open /\ ~Answered
        /\ phase' = "dropped"
        /\ UNCHANGED <<issued, outcomes>>

Next == Issue \/ Complete \/ Lose \/ Close \/ Drop

Spec == Init /\ [][Next]_vars
=============================================================================
