-------------------------- MODULE MuxPoller_proofs --------------------------
(***************************************************************************)
(* Proofs about module MuxPoller, for any finite set of hosts, any window  *)
(* and any number of retries: the type invariant, the window, one callback *)
(* per task, and that poll() implements the round of module PollRound.     *)
(***************************************************************************)
EXTENDS MuxPoller, FiniteSetTheorems, TLAPS

\* Between turns of the loop nothing is finished or waiting to be handled; when
\* poll() is not running nothing is open; what is waiting has not finished.
TurnInv ==
    /\ pc \notin {"read", "expire", "thrown"} => finished = {} /\ ready = {}
    /\ pc = "idle" => sessions = {} /\ unsent = {}
    /\ ready \cap finished = {}

PollerInv == TypeOK /\ TurnInv /\ WindowBound /\ OneCallbackEach

-----------------------------------------------------------------------------
LEMMA SessionsFinite ==
    ASSUME TypeOK, NEW S \in SUBSET Hosts
    PROVE  IsFiniteSet(S) /\ Cardinality(S) \in Nat
BY FS_Subset, FS_CardinalityType, MuxAssumption

\* Opening no more sessions than there is room for keeps the window.
LEMMA WindowKept ==
    ASSUME TypeOK, WindowBound,
           NEW S \in SUBSET Hosts, Cardinality(S) <= Room
    PROVE  Cardinality(sessions \cup S) <= MaxHosts
<1>1. sessions \in SUBSET Hosts /\ sessions \cup S \in SUBSET Hosts /\ sessions \cap S \in SUBSET Hosts
  BY DEF TypeOK
<1>2. /\ IsFiniteSet(sessions) /\ Cardinality(sessions) \in Nat
      /\ IsFiniteSet(S) /\ Cardinality(S) \in Nat
      /\ Cardinality(sessions \cup S) \in Nat
      /\ Cardinality(sessions \cap S) \in Nat
  BY <1>1, SessionsFinite
<1>3. Cardinality(sessions \cup S)
        = Cardinality(sessions) + Cardinality(S) - Cardinality(sessions \cap S)
  BY <1>2, FS_Union
<1>4. QED
  BY <1>2, <1>3, MuxAssumption DEF Room

LEMMA InitPoller == Init => PollerInv
<1> SUFFICES ASSUME Init PROVE PollerInv
  OBVIOUS
<1>1. Cardinality(sessions) = 0
  BY FS_EmptySet DEF Init
<1>2. QED
  BY <1>1, MuxAssumption DEF Init, PollerInv, TypeOK, TurnInv, WindowBound, OneCallbackEach

LEMMA NextPoller == PollerInv /\ [Next]_vars => PollerInv'
<1> SUFFICES ASSUME PollerInv, [Next]_vars PROVE PollerInv'
  OBVIOUS
<1> USE MuxAssumption DEF PollerInv, TypeOK, TurnInv, OneCallbackEach
<1>1. CASE Start
  BY <1>1 DEF Start, WindowBound
<1>2. CASE Return
  BY <1>2 DEF Return, NothingLeft, WindowBound
<1>3. CASE Fill
  <2>1. PICK S \in SUBSET unsent :
            /\ Cardinality(S) <= Room
            /\ unsent' = unsent \ S
            /\ sessions' = sessions \cup S
            /\ attempts' = [h \in Hosts |-> IF h \in S THEN 0 ELSE attempts[h]]
    BY <1>3 DEF Fill
  <2>2. WindowBound'
    <3>1. S \in SUBSET Hosts
      BY <2>1
    <3>2. QED
      BY <2>1, <3>1, WindowKept DEF WindowBound
  <2>3. TypeOK'
    BY <1>3, <2>1 DEF Fill
  <2>4. TurnInv' /\ OneCallbackEach'
    BY <1>3, <2>1 DEF Fill
  <2>5. QED
    BY <2>2, <2>3, <2>4
<1>4. CASE Throw
  <2>1. pc' = "thrown" /\ UNCHANGED <<tasks, unsent, sessions, finished, ready, attempts, called>>
    BY <1>4 DEF Throw
  <2>2. TypeOK' /\ WindowBound'
    BY <2>1 DEF WindowBound
  <2>3. TurnInv' /\ OneCallbackEach'
    BY <2>1
  <2>4. QED
    BY <2>2, <2>3
<1>5. CASE SelectReadable \/ SelectTimedOut
  BY <1>5 DEF SelectReadable, SelectTimedOut, WindowBound
<1>6. ASSUME NEW h \in Hosts, Read(h) PROVE PollerInv'
  BY <1>6 DEF Read, Finish, WindowBound
<1>7. ASSUME NEW h \in Hosts, Expire(h) PROVE PollerInv'
  BY <1>7 DEF Expire, Finish, RetriesLeft, WindowBound
<1>8. CASE Sweep
  <2>1. Cardinality(sessions') <= Cardinality(sessions)
    <3>1. sessions \in SUBSET Hosts
      OBVIOUS
    <3>2. IsFiniteSet(sessions)
      BY <3>1, SessionsFinite
    <3>3. sessions' \in SUBSET sessions
      BY <1>8 DEF Sweep
    <3>4. QED
      BY <3>2, <3>3, FS_Subset
  <2>2. Cardinality(sessions) \in Nat /\ Cardinality(sessions') \in Nat
    <3>1. sessions \in SUBSET Hosts /\ sessions' \in SUBSET Hosts
      BY <1>8 DEF Sweep
    <3>2. QED
      BY <3>1, SessionsFinite
  <2>3. WindowBound'
    BY <2>1, <2>2 DEF WindowBound
  <2>4. QED
    BY <1>8, <2>3 DEF Sweep
<1>9. CASE UNCHANGED vars
  BY <1>9 DEF vars, WindowBound
<1>10. QED
  BY <1>1, <1>2, <1>3, <1>4, <1>5, <1>6, <1>7, <1>8, <1>9 DEF Next

\* PollerInv holds in every reachable state.
THEOREM PollerInvariant == Spec => []PollerInv
BY InitPoller, NextPoller, PTL DEF Spec

\* Every variable of the poller keeps its type.
THEOREM PollerTypeCorrect == Spec => []TypeOK
<1>1. PollerInv => TypeOK
  BY DEF PollerInv
<1>2. QED
  BY <1>1, PollerInvariant, PTL

\* poll() never has more than max_hosts sessions open.
THEOREM WindowKeptAlways == Spec => []WindowBound
<1>1. PollerInv => WindowBound
  BY DEF PollerInv
<1>2. QED
  BY <1>1, PollerInvariant, PTL

\* A task's callback is owed exactly while the task waits or its session is open.
THEOREM CallbackOwedOnce == Spec => []OneCallbackEach
<1>1. PollerInv => OneCallbackEach
  BY DEF PollerInv
<1>2. QED
  BY <1>1, PollerInvariant, PTL

-----------------------------------------------------------------------------
\* Every behaviour of the poller is a sequence of rounds in which each task's
\* callback runs once and after which poll() returns: a step is a step of
\* PollRound or leaves its variables alone.
THEOREM PollerImplementsRound == Spec => RoundImplemented
<1>1. Init => Round!PollInit
  BY DEF Init, Round!PollInit
<1>2. PollerInv /\ [Next]_vars => [Round!PollNext]_(Round!pollvars)
  <2> SUFFICES ASSUME PollerInv, [Next]_vars
               PROVE  [Round!PollNext]_(Round!pollvars)
    OBVIOUS
  <2> USE DEF Round!pollvars
  <2>1. CASE Start
    BY <2>1 DEF Start, Round!PollNext, Round!Begin
  <2>2. CASE Return
    <3>1. \A h \in tasks : called[h] # "none"
      BY <2>2 DEF Return, NothingLeft, PollerInv, OneCallbackEach
    <3>2. Round!End
      BY <2>2, <3>1 DEF Return, Round!End
    <3>3. QED
      BY <3>2 DEF Round!PollNext
  <2>3. CASE Throw
    BY <2>3 DEF Throw, Round!PollNext, Round!Throw
  <2>4. CASE Fill \/ SelectReadable \/ SelectTimedOut \/ Sweep
    BY <2>4 DEF Fill, SelectReadable, SelectTimedOut, Sweep
  <2>5. ASSUME NEW h \in Hosts, Read(h) \/ Expire(h)
        PROVE  [Round!PollNext]_(Round!pollvars)
    <3>1. h \in tasks /\ called[h] = "none"
      BY <2>5 DEF Read, Expire, PollerInv, TypeOK, TurnInv, OneCallbackEach
    <3>2. CASE UNCHANGED called
      BY <2>5, <3>2 DEF Read, Expire
    <3>3. CASE \E op \in {"answer", "timeout"} : called' = [called EXCEPT ![h] = op]
      <4>1. Round!Callback(h)
        BY <2>5, <3>1, <3>3 DEF Read, Expire, Round!Callback
      <4>2. QED
        BY <4>1 DEF Round!PollNext
    <3>4. QED
      BY <2>5, <3>2, <3>3 DEF Read, Expire
  <2>6. CASE UNCHANGED vars
    BY <2>6 DEF vars
  <2>7. QED
    BY <2>1, <2>2, <2>3, <2>4, <2>5, <2>6 DEF Next
<1>3. QED
  BY <1>1, <1>2, PollerInvariant, PTL DEF Spec, RoundImplemented, Round!PollSpec
=============================================================================
