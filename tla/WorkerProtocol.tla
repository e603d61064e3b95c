--------------------------- MODULE WorkerProtocol ---------------------------
(***************************************************************************)
(* What spec sections 4.4-4.6 promise of the load-test client, as an      *)
(* abstract state machine per worker:                                      *)
(*                                                                         *)
(*   Connecting -> [Ready] -> AwaitingHandshake -> Active -> Draining     *)
(*              -> Closed -> Finished                                      *)
(*                                                                         *)
(* A worker that fails to connect, or fails its handshake, goes straight  *)
(* to Closed; a load worker (no -test) has no handshake and no result: it *)
(* is Active while it sends and then Finished.  With -same-start a        *)
(* connected worker waits in Ready until no worker is still Connecting.   *)
(* The receiving activity runs beside Active and Draining, and the result *)
(* is closed only after it has stopped (the ownership hand-off).  Each    *)
(* closed result is published once to the aggregator's queue, which       *)
(* takes them one by one and reports after the N-th.                      *)
(***************************************************************************)
EXTENDS Naturals, Sequences

CONSTANTS Workers, N

VARIABLES
  test,       \* -test
  together,   \* -same-start
  state,      \* state[w]: the phase of worker w
  receiving,  \* receiving[w]: w's receiving activity is running
  results,    \* published results not yet taken, oldest first
  taken,      \* how many results the aggregator has taken
  reported    \* the aggregator has reported, or the load run has ended

vars == <<test, together, state, receiving, results, taken, reported>>

States == {"Connecting", "Ready", "AwaitingHandshake", "Active", "Draining",
           "Closed", "Finished"}

Init ==
  /\ test \in BOOLEAN /\ together \in BOOLEAN
  /\ state = [w \in Workers |-> "Connecting"]
  /\ receiving = [w \in Workers |-> FALSE]
  /\ results = <<>> /\ taken = 0 /\ reported = FALSE

Move(w, from, to) == state[w] = from /\ state' = [state EXCEPT ![w] = to]

\* Where a worker's run begins once it is connected and released.
Running == IF test THEN "AwaitingHandshake" ELSE "Active"

\* Where a worker goes when its run is over before the result is complete.
Quit == IF test THEN "Closed" ELSE "Finished"

ConnectFail(w) ==
  Move(w, "Connecting", Quit) /\ UNCHANGED <<receiving, results>>

Connect(w) ==
  Move(w, "Connecting", IF together THEN "Ready" ELSE Running)
  /\ UNCHANGED <<receiving, results>>

\* The gate opens only once every worker has left Connecting.
Go(w) ==
  /\ \A v \in Workers : state[v] # "Connecting"
  /\ Move(w, "Ready", Running) /\ UNCHANGED <<receiving, results>>

HandshakeFail(w) ==
  Move(w, "AwaitingHandshake", "Closed") /\ UNCHANGED <<receiving, results>>

Handshake(w) ==
  /\ Move(w, "AwaitingHandshake", "Active")
  /\ receiving' = [receiving EXCEPT ![w] = TRUE] /\ UNCHANGED results

StopReceiving(w) ==
  /\ receiving[w] /\ state[w] \in {"Active", "Draining"}
  /\ receiving' = [receiving EXCEPT ![w] = FALSE]
  /\ UNCHANGED <<state, results>>

SendingDone(w) ==
  Move(w, "Active", IF test THEN "Draining" ELSE "Finished") /\ UNCHANGED <<receiving, results>>

Close(w) ==
  /\ ~receiving[w]
  /\ Move(w, "Draining", "Closed") /\ UNCHANGED <<receiving, results>>

Publish(w) ==
  /\ Move(w, "Closed", "Finished")
  /\ results' = Append(results, w)
  /\ UNCHANGED receiving

WorkerNext(w) ==
  /\ \/ ConnectFail(w) \/ Connect(w) \/ Go(w) \/ HandshakeFail(w)
     \/ Handshake(w) \/ StopReceiving(w) \/ SendingDone(w) \/ Close(w)
     \/ Publish(w)
  /\ UNCHANGED <<test, together, taken, reported>>

Take ==
  /\ results # <<>>
  /\ results' = Tail(results) /\ taken' = taken + 1
  /\ UNCHANGED <<test, together, state, receiving, reported>>

Report ==
  /\ ~reported
  /\ IF test THEN taken = N ELSE \A w \in Workers : state[w] = "Finished"
  /\ reported' = TRUE
  /\ UNCHANGED <<test, together, state, receiving, results, taken>>

Next == (\E w \in Workers : WorkerNext(w)) \/ Take \/ Report

Spec == Init /\ [][Next]_vars

=============================================================================
