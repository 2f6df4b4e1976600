----------------------------- MODULE BarrierSpec -----------------------------
(***************************************************************************)
(* What the synchronization service promises to the engines that use it    *)
(* (SYNC_IFC in synchronization.bsv): an engine that has signalled a       *)
(* barrier passes it when every engine of the barrier has signalled, and   *)
(* each completion lets each engine pass once.                             *)
(***************************************************************************)
EXTENDS Naturals

CONSTANTS Node,   \* the engines
          Syncs   \* the barriers

VARIABLES part,   \* part[s]: the engines that barrier s waits for
          phase,  \* phase[n][s]: "run", or "wait" after the signal
          owed    \* owed[n][s]: completions of s that n has not used

vars == <<part, phase, owed>>

Init == /\ part = [s \in Syncs |-> {}]
        /\ phase = [n \in Node |-> [s \in Syncs |-> "run"]]
        /\ owed = [n \in Node |-> [s \in Syncs |-> 0]]

(* The master fixes the barriers before anything else happens. *)
Configure == /\ part = [s \in Syncs |-> {}]
             /\ part' \in [Syncs -> (SUBSET Node) \ {{}}]
             /\ UNCHANGED <<phase, owed>>

Signal(n, s) == /\ n \in part[s]
                /\ phase[n][s] = "run" /\ owed[n][s] = 0
                /\ phase' = [phase EXCEPT ![n][s] = "wait"]
                /\ UNCHANGED <<part, owed>>

(* All engines of the barrier have signalled in this round. *)
Complete(s) == /\ part[s] # {}
               /\ \A n \in part[s] : phase[n][s] = "wait" /\ owed[n][s] = 0
               /\ owed' = [n \in Node |-> [owed[n] EXCEPT ![s] = @ + 1]]
               /\ UNCHANGED <<part, phase>>

Pass(n, s) == /\ owed[n][s] > 0
              /\ n \in part[s] => phase[n][s] = "wait"
              /\ owed' = [owed EXCEPT ![n][s] = @ - 1]
              /\ phase' = [phase EXCEPT ![n][s] = "run"]
              /\ UNCHANGED part

Next == \/ Configure
        \/ \E s \in Syncs : Complete(s)
        \/ \E n \in Node, s \in Syncs : Signal(n, s) \/ Pass(n, s)

Spec == Init /\ [][Next]_vars
=============================================================================
