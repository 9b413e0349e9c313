--------------------------- MODULE AnswerService ---------------------------
(***************************************************************************)
(* What a front of the exchange (accesshttp or accessws) promises to the   *)
(* connections of its clients, whatever happens to the services behind it: *)
(* a request is answered at most once, by an answer to what it asked or by *)
(* an error, on the connection that asked, and only while that is open.    *)
(* Requests and connections are numbered in the order they arrive.         *)
(***************************************************************************)
EXTENDS Naturals, Sequences

CONSTANTS Question, Error     \* what is asked; the answer that is no answer

VARIABLES seen,     \* connections accepted so far
          open,     \* those of them that are open
          asked,    \* asked[n] = [by |-> connection, about |-> question]
          answer    \* answer[n]: the answers that request n got

vars == <<seen, open, asked, answer>>

Init == seen = 0 /\ open = {} /\ asked = <<>> /\ answer = <<>>

Connect ==
    /\ seen' = seen + 1
    /\ open' = open \cup {seen'}
    /\ UNCHANGED <<asked, answer>>

Leave(c) ==
    /\ c \in open
    /\ open' = open \ {c}
    /\ UNCHANGED <<seen, asked, answer>>

\* A request, and an answer at once or none yet.
Ask(c, q) ==
    /\ c \in open
    /\ asked' = Append(asked, [by |-> c, about |-> q])
    /\ \E now \in {<<>>} \cup {<<[to |-> c, about |-> a]>> : a \in {q, Error}} :
          answer' = Append(answer, now)
    /\ UNCHANGED <<seen, open>>

Tell(n) ==
    /\ answer[n] = <<>>
    /\ asked[n].by \in open
    /\ \E a \in {asked[n].about, Error} :
          answer' = [answer EXCEPT ![n] = <<[to |-> asked[n].by, about |-> a]>>]
    /\ UNCHANGED <<seen, open, asked>>

Next ==
    \/ Connect
    \/ \E c \in open : Leave(c) \/ \E q \in Question : Ask(c, q)
    \/ \E n \in DOMAIN asked : Tell(n)

Spec == Init /\ [][Next]_vars
============================================================================
