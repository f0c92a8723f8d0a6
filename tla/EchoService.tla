---------------------------- MODULE EchoService ----------------------------
(***************************************************************************)
(* What one connection of an echo server promises its client, whichever of *)
(* the servers of echo/ answers it: the n-th answer written to the         *)
(* connection answers the n-th request sent on it, nothing is answered     *)
(* twice or before it was asked, and nothing is answered once the          *)
(* connection has ended.  The server may end the connection at any time.   *)
(***************************************************************************)
EXTENDS Naturals, Sequences

VARIABLES
    asked,     \* how many requests the client has sent
    answered,  \* the numbers of the requests answered, in the order of the answers
    open       \* the server has not ended the connection

vars == <<asked, answered, open>>

Init == asked = 0 /\ answered = <<>> /\ open = TRUE

Ask == asked' = asked + 1 /\ UNCHANGED <<answered, open>>

Answer ==
    /\ open
    /\ Len(answered) < asked
    /\ answered' = Append(answered, Len(answered) + 1)
    /\ UNCHANGED <<asked, open>>

End == open /\ open' = FALSE /\ UNCHANGED <<asked, answered>>

Next == Ask \/ Answer \/ End

(* A request that stays unanswered on an open connection is answered. *)
Spec == Init /\ [][Next]_vars /\ WF_vars(Answer)

=============================================================================
