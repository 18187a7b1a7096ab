------------------------------- MODULE BoundedLog -------------------------------
(***************************************************************************)
(* What asynchronous logging promises, whatever its threads do: entries    *)
(* are numbered as they are accepted, at most capacity of them are neither *)
(* released nor rejected, none reaches the output twice or before it was   *)
(* accepted, and room is given back a bounded batch at a time.  It does    *)
(* not promise that a released entry was delivered.                        *)
(***************************************************************************)
EXTENDS Integers

CONSTANTS InitSize, MaxSize, BatchLimit

VARIABLES accepted, released, capacity,
          delivered,     \* entries handed to the output
          outputs        \* how many times one was

logVars == <<accepted, released, capacity, delivered, outputs>>

LogInit ==
    /\ accepted = 0 /\ released = 0
    /\ capacity = InitSize
    /\ delivered = {} /\ outputs = 0

\* write has room for one more entry.
Accept ==
    /\ accepted - released < capacity
    /\ accepted' = accepted + 1
    /\ UNCHANGED <<released, capacity, delivered, outputs>>

\* flush hands entry i to the output.
Deliver(i) ==
    /\ i \notin delivered
    /\ delivered' = delivered \cup {i}
    /\ outputs' = outputs + 1
    /\ UNCHANGED <<accepted, released, capacity>>

\* flush gives back the room of a batch.
Release(n) ==
    /\ released' = released + n
    /\ UNCHANGED <<accepted, capacity, delivered, outputs>>

\* maybeResize doubles the ring.
Grow ==
    /\ capacity * 2 <= MaxSize
    /\ capacity' = capacity * 2
    /\ UNCHANGED <<accepted, released, delivered, outputs>>

LogNext ==
    \/ Accept
    \/ \E i \in 0..(accepted - 1) : Deliver(i)
    \/ \E n \in 1..BatchLimit : released + n <= accepted /\ Release(n)
    \/ Grow

LogSpec == LogInit /\ [][LogNext]_logVars

================================================================================
