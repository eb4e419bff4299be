---------------------------- MODULE AtomicOrders ----------------------------
(***************************************************************************)
(* The memory orders that the two finished back ends of pctk::AtomicInt    *)
(* pass to the C++ (pctkAtomic_cxx11.cpp) and the C (pctkAtomic_c11.cpp)   *)
(* atomics, method by method.  "Relaxed", "Acquire", "Release" and         *)
(* "Ordered" are the suffixes of the methods' names.                       *)
(***************************************************************************)

Orders == {"relaxed", "acquire", "release", "acq_rel"}

Acquires(order) == order \in {"acquire", "acq_rel"}
Releases(order) == order \in {"release", "acq_rel"}

Suffixes == {"Relaxed", "Acquire", "Release", "Ordered"}

(* What the suffix of a method's name promises its caller.                 *)
NamedAcquire == {"Acquire", "Ordered"}
NamedRelease == {"Release", "Ordered"}

Backends == {"cxx11", "c11"}

-----------------------------------------------------------------------------
(* The methods without a suffix family: constructors, loads, stores,       *)
(* ref() and deref().                                                      *)

(* Mutant: a deref() that learns nothing.                                  *)
DerefReleaseOnly ==
    [ construct |-> "release", copyLoad |-> "acquire",
      ref |-> "acq_rel", deref |-> "release",
      load |-> "relaxed", loadAcquire |-> "acquire",
      store |-> "relaxed", storeRelease |-> "release" ]

Cxx11PlainOrder ==
    [ construct |-> "release", copyLoad |-> "acquire",
      ref |-> "acq_rel", deref |-> "acq_rel",
      load |-> "relaxed", loadAcquire |-> "acquire",
      store |-> "relaxed", storeRelease |-> "release" ]

C11PlainOrder ==
    [ construct |-> "relaxed", copyLoad |-> "relaxed",
      ref |-> "acq_rel", deref |-> "acq_rel",
      load |-> "relaxed", loadAcquire |-> "acquire",
      store |-> "relaxed", storeRelease |-> "release" ]

(* testAndSet*: the order of a successful and of a failed exchange.        *)

(* Mutant: a failed testAndSetOrdered() is relaxed, as for Release.        *)
RelaxedFailureOrder ==
    [ Relaxed |-> [success |-> "relaxed", failure |-> "relaxed"],
      Acquire |-> [success |-> "acquire", failure |-> "acquire"],
      Release |-> [success |-> "release", failure |-> "relaxed"],
      Ordered |-> [success |-> "acq_rel", failure |-> "relaxed"] ]

Cxx11TestAndSetOrder ==
    [ Relaxed |-> [success |-> "relaxed", failure |-> "relaxed"],
      Acquire |-> [success |-> "acquire", failure |-> "acquire"],
      Release |-> [success |-> "release", failure |-> "relaxed"],
      Ordered |-> [success |-> "acq_rel", failure |-> "acquire"] ]

C11TestAndSetOrder ==
    [ Relaxed |-> [success |-> "relaxed", failure |-> "relaxed"],
      Acquire |-> [success |-> "acquire", failure |-> "acquire"],
      Release |-> [success |-> "release", failure |-> "relaxed"],
      Ordered |-> [success |-> "acq_rel", failure |-> "acquire"] ]

(* fetchAndStore*, fetchAndAdd*, fetchAndSub*, fetchAndOr*, fetchAndAnd*   *)
(* and fetchAndXor* use the same four orders.                              *)

Cxx11FetchOrder ==
    [ Relaxed |-> "relaxed", Acquire |-> "acquire",
      Release |-> "release", Ordered |-> "acq_rel" ]

C11FetchOrder ==
    [ Relaxed |-> "relaxed", Acquire |-> "acquire",
      Release |-> "release", Ordered |-> "acq_rel" ]

-----------------------------------------------------------------------------
(* The tables of the back end that was compiled in.                        *)

PlainOrder(backend) ==
    IF backend = "cxx11" THEN Cxx11PlainOrder ELSE C11PlainOrder

TestAndSetOrder(backend) ==
    IF backend = "cxx11" THEN Cxx11TestAndSetOrder ELSE C11TestAndSetOrder

FetchOrder(backend) ==
    IF backend = "cxx11" THEN Cxx11FetchOrder ELSE C11FetchOrder
=============================================================================
