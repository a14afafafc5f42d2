----------------------------- MODULE LossyFifo -----------------------------
(* What the connector promises, whatever fails around it: a first-in          *)
(* first-out pipe that may lose a record and may deliver one twice in a row,  *)
(* and that does nothing else.  A record once gone never comes back, and the  *)
(* backend never receives an older record after a newer one.                  *)
EXTENDS Integers, Sequences

VARIABLES
    written,   \* how many records were handed to the pipe
    held,      \* the records the pipe still has
    out        \* what the backend received, in order

Init == written = 0 /\ held = {} /\ out = <<>>

(* The next record enters the pipe. *)
Write ==
    /\ written' = written + 1
    /\ held' = held \cup {written + 1}
    /\ UNCHANGED out

(* A held record goes out, after every older one and at most twice. *)
Send(r) ==
    /\ \A i \in 1 .. Len(out) : out[i] <= r
    /\ \A i \in 1 .. Len(out) - 1 : out[i] < r
    /\ out' = Append(out, r)
    /\ UNCHANGED <<written, held>>

(* Records leave the pipe, delivered or not. *)
Drop ==
    /\ held' \in SUBSET held
    /\ UNCHANGED <<written, out>>

Next == Write \/ (\E r \in held : Send(r)) \/ Drop

Spec == Init /\ [][Next]_<<written, held, out>>
=============================================================================
