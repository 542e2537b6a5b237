------------------------- MODULE FreshnessContract -------------------------
(***************************************************************************)
(* What fully asynchronous training promises about its samples, whatever   *)
(* the coroutines, locks and queues behind it do: a sample is started at   *)
(* most once, is consumed at most once and only after it was started, and  *)
(* no parameter version ever starts more samples than its budget allows on *)
(* top of those still in flight when the version began.                    *)
(***************************************************************************)
EXTENDS Naturals, FiniteSets

CONSTANTS
    Items,          \* the samples of the run
    Budget          \* samples in flight or started during one version

VARIABLES
    in_flight, consumed, lost,
    spent           \* in flight when the version began, plus started since

vars == <<in_flight, consumed, lost, spent>>

Init == in_flight = {} /\ consumed = {} /\ lost = {} /\ spent = 0

Fresh == Items \ (in_flight \cup consumed \cup lost)

Start(s) ==
    /\ s \in Fresh /\ spent < Budget
    /\ in_flight' = in_flight \cup {s}
    /\ spent' = spent + 1
    /\ UNCHANGED <<consumed, lost>>

\* One more sample reaches the trainer.
Consume(s) ==
    /\ s \in in_flight
    /\ in_flight' = in_flight \ {s}
    /\ consumed' = consumed \cup {s}
    /\ UNCHANGED <<lost, spent>>

\* Samples in flight are evicted, fail, or are cleared at the end of the run.
Lose ==
    \E S \in SUBSET in_flight :
        /\ in_flight' = in_flight \ S
        /\ lost' = lost \cup S
        /\ UNCHANGED <<consumed, spent>>

\* New parameters: what is still in flight is charged to the new version.
NewVersion ==
    /\ spent' = Cardinality(in_flight)
    /\ UNCHANGED <<in_flight, consumed, lost>>

Next == (\E s \in Items : Start(s) \/ Consume(s)) \/ Lose \/ NewVersion

Spec == Init /\ [][Next]_vars

=============================================================================
