--------------------------- MODULE AtomicRegister ---------------------------
(***************************************************************************)
(* What a caller expects of an atomic pointer: every call of every thread  *)
(* takes effect at one instant.  done[t] is the last call t completed,     *)
(* with its arguments and its result.                                      *)
(***************************************************************************)
EXTENDS Integers, Sequences

CONSTANTS Threads, Modulus    \* pointers are the integers modulo Modulus

VARIABLES value, done

Addresses == 0..(Modulus - 1)

Init ==
    /\ value \in Addresses
    /\ done = [t \in Threads |-> [op |-> "none", args |-> <<>>, ret |-> 0, ok |-> TRUE]]

Completes(t, op, args, ret, ok) ==
    done' = [done EXCEPT ![t] = [op |-> op, args |-> args, ret |-> ret, ok |-> ok]]

Load(t) ==
    /\ Completes(t, "load", <<>>, value, TRUE)
    /\ UNCHANGED value

Store(t, desired) ==
    /\ value' = desired
    /\ Completes(t, "store", <<desired>>, 0, TRUE)

CompareExchange(t, expected, desired) ==
    /\ value' = IF value = expected THEN desired ELSE value
    /\ Completes(t, "testAndSet", <<expected, desired>>, 0, value = expected)

Exchange(t, desired) ==
    /\ value' = desired
    /\ Completes(t, "fetchAndStore", <<desired>>, value, TRUE)

Add(t, arg) ==
    /\ value' = (value + arg) % Modulus
    /\ Completes(t, "fetchAndAdd", <<arg>>, value, TRUE)

Subtract(t, arg) ==
    /\ value' = (value - arg) % Modulus
    /\ Completes(t, "fetchAndSub", <<arg>>, value, TRUE)

Next ==
    \E t \in Threads :
        \/ Load(t)
        \/ \E p \in Addresses : Store(t, p) \/ Exchange(t, p) \/ Add(t, p) \/ Subtract(t, p)
        \/ \E e, d \in Addresses : CompareExchange(t, e, d)

Spec == Init /\ [][Next]_<<value, done>>
=============================================================================
