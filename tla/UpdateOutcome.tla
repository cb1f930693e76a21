---------------------------- MODULE UpdateOutcome ----------------------------
(***************************************************************************)
(* What the service promises about a requested quote update, as a client   *)
(* sees it: an accepted update is decided at most once, either by a quote  *)
(* or by a failure, and then never changes again.  Queue, workers, leases, *)
(* recovery and restarts are invisible.                                    *)
(***************************************************************************)
CONSTANTS
    UpdateID,
    Quote

VARIABLE outcome

Outcome == [state: {"none", "accepted", "completed", "failed"},
            quote: SUBSET Quote]

Undecided(s) == [state |-> s, quote |-> {}]

OutcomeInit == outcome = [u \in UpdateID |-> Undecided("none")]

Accept(u) ==
    /\ outcome[u] = Undecided("none")
    /\ outcome' = [outcome EXCEPT ![u] = Undecided("accepted")]

Complete(u) ==
    /\ outcome[u] = Undecided("accepted")
    /\ \E q \in Quote :
          outcome' = [outcome EXCEPT ![u] = [state |-> "completed", quote |-> {q}]]

Fail(u) ==
    /\ outcome[u] = Undecided("accepted")
    /\ outcome' = [outcome EXCEPT ![u] = Undecided("failed")]

OutcomeNext == \E u \in UpdateID : Accept(u) \/ Complete(u) \/ Fail(u)

OutcomeSpec == OutcomeInit /\ [][OutcomeNext]_outcome

\* Every accepted update is decided eventually.
AcceptedIsDecided ==
    \A u \in UpdateID :
        outcome[u].state = "accepted" ~> outcome[u].state \in {"completed", "failed"}
=============================================================================
