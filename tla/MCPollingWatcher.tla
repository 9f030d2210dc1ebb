-------------------------- MODULE MCPollingWatcher --------------------------
(***************************************************************************)
(* Small instances of PollingWatcher for TLC.                              *)
(***************************************************************************)
EXTENDS PollingWatcher

\* Vaults with at most one kind of trouble.
OneFaultAtMost ==
  {v \in Polls : Cardinality({f \in {"slow", "failing", "lossy"} : v[f]}) <= 1}

SlowAndFailing == {[slow |-> TRUE, failing |-> TRUE, lossy |-> FALSE]}

=============================================================================
