--------------------------- MODULE EffectLifecycle ---------------------------
(***************************************************************************)
(* What the effect ledger promises its callers, without hosts, leases, rows *)
(* or clocks: an effect happens only while its durable request is           *)
(* outstanding, at most once, and the ledger says committed only of an      *)
(* effect that has happened.  Nothing leaves a settled phase.               *)
(***************************************************************************)
CONSTANT Keys

Phases == {"none", "proposed", "approved", "requested", "committed",
           "verified", "failed"}

VARIABLES phase,  \* what the ledger says of each effect
          world   \* the effects that have happened

avars == <<phase, world>>

LifecycleInit ==
    /\ phase = [k \in Keys |-> "none"]
    /\ world = {}

Move(k, from, to) ==
    /\ phase[k] = from
    /\ phase' = [phase EXCEPT ![k] = to]
    /\ UNCHANGED world

\* The world moves by itself, but only while a request may be outstanding.
Happen(k) ==
    /\ phase[k] = "requested"
    /\ k \notin world
    /\ world' = world \union {k}
    /\ UNCHANGED phase

Commit(k) == k \in world /\ Move(k, "requested", "committed")

Conclude(k) == \/ Move(k, "committed", "verified")
               \/ Move(k, "committed", "failed")

\* An effect that was approved too late fails without ever being requested.
LifecycleNext ==
    \E k \in Keys :
        \/ Move(k, "none", "proposed")
        \/ Move(k, "proposed", "approved")
        \/ Move(k, "approved", "requested")
        \/ Move(k, "approved", "failed")
        \/ Happen(k)
        \/ Commit(k)
        \/ Conclude(k)

LifecycleSpec == LifecycleInit /\ [][LifecycleNext]_avars
=============================================================================
