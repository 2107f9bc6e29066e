---------------------------- MODULE ResearchRun ----------------------------
(***************************************************************************)
(* What a client of the API may rely on about one research run, whatever   *)
(* workers, leases, retries and restarts do behind it: a run is offered,   *)
(* owned by one attempt at a time, numbered by a growing epoch, and ends   *)
(* once.  ResearchLedger implements one instance per run.                  *)
(***************************************************************************)
EXTENDS Integers

VARIABLES phase,      \* where the run is
          epoch,      \* the number of the newest attempt
          stop,       \* has the client asked to cancel?
          published   \* the epoch whose report a reader sees, 0 for none

vars == <<phase, epoch, stop, published>>

Ended == {"completed", "failed", "cancelled"}

Init == phase = "absent" /\ epoch = 0 /\ stop = FALSE /\ published = 0

Move(from, to) ==
  /\ phase \in from
  /\ phase' = to
  /\ UNCHANGED <<epoch, stop, published>>

Create == Move({"absent"}, "idle")

\* Execute, a retry, or the loss of the owning attempt.
Offer == ~stop /\ Move({"idle", "owned"}, "offered")

\* A new attempt owns the run: taken from the queue, directly, or from an
\* owner that was lost.
Take ==
  /\ ~stop
  /\ phase \in {"idle", "offered", "owned"}
  /\ phase' = "owned"
  /\ epoch' = epoch + 1
  /\ UNCHANGED <<stop, published>>

Complete == ~stop /\ Move({"owned"}, "completed")

\* No attempt is left; found when the last one ends or is recovered.
GiveUp == ~stop /\ Move({"offered", "owned"}, "failed")

RequestStop ==
  /\ phase \notin Ended \cup {"absent"}
  /\ stop' = TRUE
  /\ phase' = IF phase = "owned" THEN "owned" ELSE "cancelled"
  /\ UNCHANGED <<epoch, published>>

Stop == stop /\ Move({"owned"}, "cancelled")

Publish ==
  /\ phase = "owned"
  /\ published' = epoch
  /\ UNCHANGED <<phase, epoch, stop>>

Next == Create \/ Offer \/ Take \/ Complete \/ GiveUp \/ RequestStop \/ Stop \/ Publish

Spec == Init /\ [][Next]_vars
===========================================================================
