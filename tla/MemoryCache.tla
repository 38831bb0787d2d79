----------------------------- MODULE MemoryCache -----------------------------
(***************************************************************************)
(* InMemoryCache (runtime/cache.py): two dicts under one lock, so get, set *)
(* and clear are one step each.  A dict keeps its keys in the order of     *)
(* their first insertion; assigning to a key that is there leaves it where *)
(* it is.  Time is the integer `now`.                                      *)
(***************************************************************************)
EXTENDS Integers, SequencesExt

CONSTANTS
    Clients,    \* the threads
    Keys,
    Values,     \* payloads of an entry
    Ttls,       \* ttl_seconds that callers pass
    NoTtl,      \* ttl_seconds = None, and no deadline in _expiry
    NoEntry,    \* get() is None
    MaxSize,    \* max_size
    MaxTime     \* bound on the clock, for TLC

\* With max_size = 0 every set raises StopIteration at next(iter({})).
ASSUME MemoryCacheAssumption ==
    /\ Ttls \subseteq Nat
    /\ NoTtl \notin Nat
    /\ MaxSize \in Nat \ {0}
    /\ MaxTime \in Nat

Deadlines == Nat \union {NoTtl}

\* A CacheEntry.  `until` is history: the deadline its own set gave it.
Entries == [val : Values, until : Deadlines]

ASSUME NoEntryAssumption == NoEntry \notin Entries

VARIABLES
    store,      \* key -> _store.get(key)
    order,      \* the keys of _store, oldest first
    expiry,     \* key -> _expiry.get(key)
    now,        \* time.time()
    view,       \* client -> what its last get returned
    last        \* history: key -> the entry last set and not cleared

vars == <<store, order, expiry, now, view, last>>

Init ==
    /\ store  = [k \in Keys |-> NoEntry]
    /\ order  = << >>
    /\ expiry = [k \in Keys |-> NoTtl]
    /\ now    = 0
    /\ view   = [c \in Clients |-> NoEntry]
    /\ last   = [k \in Keys |-> NoEntry]

Expired(k) == expiry[k] # NoTtl /\ expiry[k] < now

-----------------------------------------------------------------------------

\* The key order without k, which is there at most once.
OrderWithout(k) ==
    IF Contains(order, k)
    THEN RemoveAt(order, CHOOSE i \in 1..Len(order) : order[i] = k) ELSE order

\* The get that finds an expired key drops it from both dicts.
GetExpired(c, k) ==
    /\ Expired(k)
    /\ store'  = [store EXCEPT ![k] = NoEntry]
    /\ expiry' = [expiry EXCEPT ![k] = NoTtl]
    /\ order'  = OrderWithout(k)
    /\ view'   = [view EXCEPT ![c] = NoEntry]
    /\ UNCHANGED <<now, last>>

Get(c, k) ==
    /\ ~Expired(k)
    /\ view' = [view EXCEPT ![c] = store[k]]
    /\ UNCHANGED <<store, order, expiry, now, last>>

\* Mutant: the deadline lies as far behind as it should lie ahead.
DeadlineBehind(ttl) == IF ttl = NoTtl THEN NoTtl ELSE now - ttl

Deadline(ttl) == IF ttl = NoTtl THEN NoTtl ELSE now + ttl

\* Mutant: one entry too many.
VictimsAboveMax == IF Len(order) > MaxSize THEN {Head(order)} ELSE {}

\* FIFO eviction, even if the key to set is already there.
Victims == IF Len(order) >= MaxSize THEN {Head(order)} ELSE {}

\* The key order once the victim is gone and k is there.
OrderWith(k) ==
    LET rest == IF Victims = {} THEN order ELSE Tail(order) IN
    IF Contains(rest, k) THEN rest ELSE Append(rest, k)

\* Mutant: the entry that is there stays.
StoreWithFirst(k, e) ==
    [j \in Keys |-> IF j = k /\ store[k] = NoEntry THEN e
                    ELSE IF j \in Victims THEN NoEntry ELSE store[j]]

StoreWith(k, e) ==
    [j \in Keys |-> IF j = k THEN e
                    ELSE IF j \in Victims THEN NoEntry ELSE store[j]]

\* Mutant: a deadline that is there stays.
ExpiryWithFirst(k, ttl) ==
    [j \in Keys |-> IF j = k /\ ttl # NoTtl /\ expiry[k] = NoTtl THEN Deadline(ttl)
                    ELSE IF j \in Victims THEN NoTtl ELSE expiry[j]]

\* A set without a ttl leaves the deadline of the entry it replaces in force.
ExpiryWith(k, ttl) ==
    [j \in Keys |-> IF j = k /\ ttl # NoTtl THEN Deadline(ttl)
                    ELSE IF j \in Victims THEN NoTtl ELSE expiry[j]]

Set(k, v, ttl) ==
    LET e == [val |-> v, until |-> Deadline(ttl)] IN
    /\ store'  = StoreWith(k, e)
    /\ order'  = OrderWith(k)
    /\ expiry' = ExpiryWith(k, ttl)
    /\ last'   = [last EXCEPT ![k] = e]
    /\ UNCHANGED <<now, view>>

Clear ==
    /\ store'  = [k \in Keys |-> NoEntry]
    /\ order'  = << >>
    /\ expiry' = [k \in Keys |-> NoTtl]
    /\ last'   = [k \in Keys |-> NoEntry]
    /\ UNCHANGED <<now, view>>

Tick ==
    /\ now < MaxTime
    /\ now' = now + 1
    /\ UNCHANGED <<store, order, expiry, view, last>>

Next ==
    \/ \E c \in Clients, k \in Keys : GetExpired(c, k) \/ Get(c, k)
    \/ \E k \in Keys, v \in Values, ttl \in Ttls \union {NoTtl} : Set(k, v, ttl)
    \/ Clear
    \/ Tick

Spec == Init /\ [][Next]_vars

-----------------------------------------------------------------------------
\* Every variable keeps its type.
TypeOK ==
    /\ store  \in [Keys -> Entries \union {NoEntry}]
    /\ order  \in Seq(Keys)
    /\ expiry \in [Keys -> Deadlines]
    /\ now    \in Nat
    /\ view   \in [Clients -> Entries \union {NoEntry}]
    /\ last   \in [Keys -> Entries \union {NoEntry}]

Stored == {k \in Keys : store[k] # NoEntry}

\* The cache never holds more than max_size entries, and the two dicts stay in
\* step: a deadline without an entry would never be dropped (cache.py:115-138).
Bounded ==
    /\ Len(order) <= MaxSize
    /\ IsInjective(order)
    /\ Range(order) = Stored
    /\ \A k \in Keys : expiry[k] # NoTtl => k \in Stored

\* What a get would return now is not past the deadline its own set gave it,
\* whichever sets, with and without a ttl, came before or after (cache.py:115-133).
ServableIsFresh ==
    \A k \in Stored : ~Expired(k) => store[k].until = NoTtl \/ store[k].until >= now

Contract == INSTANCE CacheContract

\* A get answers with the entry last set for its key, or misses.
MemoryImplementsContract == Contract!CSpec
=============================================================================
