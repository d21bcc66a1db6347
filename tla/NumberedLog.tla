---------------------------- MODULE NumberedLog ----------------------------
(***************************************************************************)
(* What the audit log promises about its sequence numbers, with no head    *)
(* object, no replicas and no calls that fail: a number is handed out once *)
(* it is the next one, and then it is written, given back while it is      *)
(* still the last one, or lost for good.                                   *)
(***************************************************************************)
EXTENDS Integers

VARIABLES
    end,      \* the last number handed out and not given back
    written,  \* the numbers that have a row
    held,     \* the numbers somebody is about to write
    lost      \* the numbers that will never have a row

log == <<end, written, held, lost>>

\* A log that is brought along is written without a gap.
Init ==
    /\ end \in Nat /\ written = 1..end
    /\ held = {} /\ lost = {}

Claim ==
    /\ end' = end + 1 /\ held' = held \cup {end + 1}
    /\ UNCHANGED <<written, lost>>

Write(n) ==
    /\ n \in held
    /\ held' = held \ {n} /\ written' = written \cup {n}
    /\ UNCHANGED <<end, lost>>

\* Only the last number can be given back: whoever comes next takes it again.
Return ==
    /\ end \in held
    /\ held' = held \ {end} /\ end' = end - 1
    /\ UNCHANGED <<written, lost>>

Lose(n) ==
    /\ n \in held
    /\ held' = held \ {n} /\ lost' = lost \cup {n}
    /\ UNCHANGED <<end, written>>

Next == Claim \/ Return \/ \E n \in held : Write(n) \/ Lose(n)

Spec == Init /\ [][Next]_log

\* Every number up to the end is written, held or lost, no number is two of these,
\* and there is none beyond the end.
Accounted ==
    /\ end \in Nat
    /\ written \cup held \cup lost = 1..end
    /\ written \cap held = {} /\ held \cap lost = {} /\ lost \cap written = {}
=============================================================================
