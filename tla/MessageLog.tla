----------------------------- MODULE MessageLog -----------------------------
(***************************************************************************)
(* What the event bus promises: a log of the messages published, each with *)
(* its fate.  A message may get lost on its way; one that waits is settled *)
(* once, done or dropped, and never before an older one of its type.       *)
(***************************************************************************)
EXTENDS Naturals, Sequences

CONSTANT Keys       \* the types of messages

VARIABLES
    log,            \* the type of each message, in the order of publication
    fate            \* what has become of each

vars == <<log, fate>>

Fates == {"lost", "waiting", "done", "dropped"}

Init == log = <<>> /\ fate = <<>>

\* A message is published, and waits unless it is lost at once.
Post(k) ==
    /\ log' = Append(log, k)
    /\ \E f \in {"waiting", "lost"} : fate' = Append(fate, f)

\* A message is settled.
Settle(m) ==
    /\ fate[m] = "waiting"
    /\ \A n \in 1..(m - 1) : log[n] = log[m] => fate[n] # "waiting"
    /\ \E f \in {"done", "dropped"} : fate' = [fate EXCEPT ![m] = f]
    /\ UNCHANGED log

Next ==
    \/ \E k \in Keys : Post(k)
    \/ \E m \in DOMAIN log : Settle(m)

Spec == Init /\ [][Next]_vars

=============================================================================
