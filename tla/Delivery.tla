------------------------------ MODULE Delivery ------------------------------
(***************************************************************************)
(* What a FIX session promises the application: while a connection is      *)
(* open, the messages the counterparty sent on it are handed over in the   *)
(* order they were sent, each once and none left out.                      *)
(***************************************************************************)
EXTENDS Naturals, Sequences

VARIABLES
    open,     \* a connection is open
    posted,   \* what the counterparty has sent on it, in order
    got       \* what the application has been given of it

vars == <<open, posted, got>>

Init == open = TRUE /\ posted = << >> /\ got = << >>

Post ==
    /\ Len(posted') = Len(posted) + 1
    /\ SubSeq(posted', 1, Len(posted)) = posted
    /\ UNCHANGED <<open, got>>

Deliver ==
    /\ open
    /\ Len(got) < Len(posted)
    /\ got' = Append(got, posted[Len(got) + 1])
    /\ UNCHANGED <<open, posted>>

Close ==
    /\ open /\ ~open'
    /\ got' \in {got, << >>}
    /\ UNCHANGED posted

(* A closed connection forgets; the next one starts from nothing.          *)
Forget ==
    /\ ~open /\ got' = << >>
    /\ UNCHANGED <<open, posted>>

(* It may fail at once.                                                    *)
Open ==
    /\ ~open /\ open' \in BOOLEAN
    /\ posted' = << >> /\ got' = << >>

Next == Post \/ Deliver \/ Close \/ Forget \/ Open

Spec == Init /\ [][Next]_vars
=============================================================================
