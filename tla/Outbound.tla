------------------------------ MODULE Outbound ------------------------------
(***************************************************************************)
(* What IMessageSender promises those who call SendToClient, without       *)
(* queue, tasks and threads: the callback of every send is called once,    *)
(* with success or failure, as long as the server is up.  When it goes     *)
(* down, what still waits may fail all at once, or never hear anything.    *)
(***************************************************************************)
CONSTANT Items  \* the sends

VARIABLES
  fate,  \* of each send
  up     \* has nobody called Stop?

vars == <<fate, up>>

Init ==
  /\ fate = [i \in Items |-> "unsent"]
  /\ up = TRUE

\* SendToClient(i) is called.
Submit(i) ==
  /\ fate[i] = "unsent"
  /\ fate' = [fate EXCEPT ![i] = "queued"]
  /\ UNCHANGED up

\* The callback of i is called.
Resolve(i) ==
  /\ fate[i] = "queued"
  /\ \E result \in {"sent", "failed"} : fate' = [fate EXCEPT ![i] = result]
  /\ UNCHANGED up

GoDown ==
  /\ up' = FALSE
  /\ UNCHANGED fate

\* Callbacks of what waits, once the server is down.
Abandon ==
  /\ ~up
  /\ \E some \in SUBSET {i \in Items : fate[i] = "queued"} :
       fate' = [i \in Items |-> IF i \in some THEN "failed" ELSE fate[i]]
  /\ UNCHANGED up

Next ==
  \/ \E i \in Items : Submit(i) \/ Resolve(i)
  \/ GoDown
  \/ Abandon

Spec ==
  /\ Init
  /\ [][Next]_vars
  /\ \A i \in Items : WF_vars(up /\ Resolve(i))
=============================================================================
