------------------------------ MODULE AccessLog ------------------------------
(***************************************************************************)
(* What the access log promises to the requests: each hands over its line  *)
(* once, the lines are settled - written somewhere or given up because of  *)
(* an I/O error - in the order they were handed over, and as long as the   *)
(* process runs every line handed over is settled eventually.              *)
(***************************************************************************)
EXTENDS Integers, Sequences

CONSTANT Requests

VARIABLES
    settled,  \* the lines settled so far, in order
    backlog,  \* the lines handed over and not settled
    running   \* the process runs

vars == <<settled, backlog, running>>

Member(r, s) == \E i \in DOMAIN s : s[i] = r

Init == settled = <<>> /\ backlog = <<>> /\ running = TRUE

HandOver(r) ==
    /\ running
    /\ ~Member(r, settled) /\ ~Member(r, backlog)
    /\ backlog' = Append(backlog, r)
    /\ UNCHANGED <<settled, running>>

Settle ==
    /\ running /\ backlog # <<>>
    /\ settled' = Append(settled, Head(backlog))
    /\ backlog' = Tail(backlog)
    /\ UNCHANGED running

End ==
    /\ running /\ running' = FALSE
    /\ UNCHANGED <<settled, backlog>>

Next == (\E r \in Requests : HandOver(r)) \/ Settle \/ End

Spec == Init /\ [][Next]_vars /\ WF_vars(Settle)
=============================================================================
