---------------------------- MODULE CacheContract ----------------------------
(***************************************************************************)
(* What the executor relies on a CacheBackend for (runtime/cache.py): a    *)
(* get answers with the entry last set for its key, or with a miss.  A     *)
(* cache may forget at any time; it may not serve an entry that was        *)
(* replaced or cleared.                                                    *)
(***************************************************************************)
CONSTANTS Clients, Keys, Entries, NoEntry

VARIABLES
    last,   \* key -> the entry last set for it, NoEntry if there is none
    view    \* client -> what its last get has found

cvars == <<last, view>>

CInit ==
    /\ last = [k \in Keys |-> NoEntry]
    /\ view = [c \in Clients |-> NoEntry]

CSet(k) ==
    /\ last'[k] \in Entries
    /\ last' = [last EXCEPT ![k] = last'[k]]
    /\ UNCHANGED view

CGet(c, k) ==
    /\ view' \in {[view EXCEPT ![c] = last[k]], [view EXCEPT ![c] = NoEntry]}
    /\ UNCHANGED last

CClear(K) ==
    /\ last' = [k \in Keys |-> IF k \in K THEN NoEntry ELSE last[k]]
    /\ UNCHANGED view

CNext ==
    \/ \E k \in Keys : CSet(k)
    \/ \E c \in Clients, k \in Keys : CGet(c, k)
    \/ \E K \in SUBSET Keys : CClear(K)

CSpec == CInit /\ [][CNext]_cvars
=============================================================================
