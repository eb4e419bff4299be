---------------------------- MODULE AtomicMemory ----------------------------
(***************************************************************************)
(* One std::atomic object under the release/acquire memory model of        *)
(* C++20, and the plain (non-atomic) writes the threads order with it.     *)
(* This is the part of the language the back ends of pctk::AtomicInt rely  *)
(* on; it is external to the repository.                                   *)
(*                                                                         *)
(* mo    the modification order: the values stored, oldest first, each     *)
(*       with the plain writes its store publishes                         *)
(* seen  the newest element of mo each thread is known to have observed:   *)
(*       coherence forbids it to read an older one                         *)
(* hb    the plain writes that happen before each thread's next step       *)
(*                                                                         *)
(* With one atomic object coherence makes po, rf and mo jointly acyclic,   *)
(* so every execution has an ordering of its steps in which each store is  *)
(* the newest of mo when it is made: appending loses nothing.              *)
(***************************************************************************)
EXTENDS Integers, Sequences, AtomicOrders

CONSTANTS Threads,   \* the threads that share the object
          Writes     \* the identities of the plain writes

VARIABLES mo, seen, hb

memVars == <<mo, seen, hb>>

Newest == mo[Len(mo)]

MemInit(value) ==
    /\ mo = << [val |-> value, pub |-> {}] >>
    /\ seen = [t \in Threads |-> 1]
    /\ hb = [t \in Threads |-> {}]

(* An atomic load by t that returns the i-th value of mo.                  *)
AtomicRead(t, i, order) ==
    /\ i \in seen[t]..Len(mo)
    /\ seen' = [seen EXCEPT ![t] = i]
    /\ hb' = [hb EXCEPT ![t] = IF Acquires(order) THEN @ \cup mo[i].pub ELSE @]
    /\ UNCHANGED mo

(* An atomic store of value by t.                                          *)
AtomicWrite(t, value, order) ==
    /\ mo' = Append(mo, [val |-> value,
                         pub |-> IF Releases(order) THEN hb[t] ELSE {}])
    /\ seen' = [seen EXCEPT ![t] = Len(mo) + 1]
    /\ UNCHANGED hb

(* A read-modify-write by t: it reads the newest value and its store       *)
(* continues the release sequence of the store it read.                    *)
AtomicUpdate(t, value, order) ==
    LET known == IF Acquires(order) THEN hb[t] \cup Newest.pub ELSE hb[t]
    IN  /\ mo' = Append(mo, [val |-> value,
                             pub |-> Newest.pub \cup
                                     (IF Releases(order) THEN known ELSE {})])
        /\ seen' = [seen EXCEPT ![t] = Len(mo) + 1]
        /\ hb' = [hb EXCEPT ![t] = known]

(* A plain write by t.                                                     *)
PlainWrite(t, w) ==
    /\ hb' = [hb EXCEPT ![t] = @ \cup {w}]
    /\ UNCHANGED <<mo, seen>>

MemTypeOK(Values) ==
    /\ mo \in Seq([val : Values, pub : SUBSET Writes])
    /\ Len(mo) > 0
    /\ seen \in [Threads -> 1..Len(mo)]
    /\ hb \in [Threads -> SUBSET Writes]
=============================================================================
