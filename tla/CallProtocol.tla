---------------------------- MODULE CallProtocol -----------------------------
(***************************************************************************)
(* What calling an agentic function promises its caller, whatever the      *)
(* cache, the aggregator and the budget tracker do in between: a call      *)
(* tries the backend at most MaxRetries + 1 times, and it ends once,       *)
(* either with an answer its own last try obtained, or with one that       *)
(* another call of the same key obtained, or with an exception.            *)
(***************************************************************************)
EXTENDS Integers

CONSTANTS Calls, Keys, Tokens, KeyOf, MaxRetriesOf, NoAnswer

VARIABLES
    phase,      \* call -> "ready" | "running" | "returned" | "raised"
    tries,      \* call -> backend tries made
    obtained,   \* call -> the answer its last try obtained, or NoAnswer
    result      \* call -> what the call returned, or NoAnswer

pvars == <<phase, tries, obtained, result>>

PInit ==
    /\ phase    = [c \in Calls |-> "ready"]
    /\ tries    = [c \in Calls |-> 0]
    /\ obtained = [c \in Calls |-> NoAnswer]
    /\ result   = [c \in Calls |-> NoAnswer]

PStart(c) ==
    /\ phase[c] = "ready"
    /\ phase' = [phase EXCEPT ![c] = "running"]
    /\ UNCHANGED <<tries, obtained, result>>

PTry(c) ==
    /\ phase[c] = "running"
    /\ obtained[c] = NoAnswer
    /\ tries[c] <= MaxRetriesOf[c]
    /\ tries' = [tries EXCEPT ![c] = @ + 1]
    /\ UNCHANGED <<phase, obtained, result>>

PObtain(c) ==
    /\ phase[c] = "running"
    /\ tries[c] > 0
    /\ obtained[c] = NoAnswer
    /\ \E t \in Tokens : obtained' = [obtained EXCEPT ![c] = [by |-> c, tokens |-> t]]
    /\ UNCHANGED <<phase, tries, result>>

PReturn(c, a) ==
    /\ phase[c] = "running"
    /\ phase' = [phase EXCEPT ![c] = "returned"]
    /\ result' = [result EXCEPT ![c] = a]
    /\ UNCHANGED <<tries, obtained>>

PReturnOwn(c) == obtained[c] # NoAnswer /\ PReturn(c, obtained[c])

\* The answer of a call d of the same key stands in for a try of c's own.
PReturnShared(c) ==
    /\ tries[c] = 0
    /\ \E d \in Calls \ {c} :
         KeyOf[d] = KeyOf[c] /\ obtained[d] # NoAnswer /\ PReturn(c, obtained[d])

PRaise(c) ==
    /\ phase[c] \in {"ready", "running"}
    /\ phase' = [phase EXCEPT ![c] = "raised"]
    /\ UNCHANGED <<tries, obtained, result>>

PNext ==
    \E c \in Calls :
        PStart(c) \/ PTry(c) \/ PObtain(c) \/ PReturnOwn(c) \/ PReturnShared(c) \/ PRaise(c)

PSpec == PInit /\ [][PNext]_pvars
=============================================================================
