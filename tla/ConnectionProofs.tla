-------------------------- MODULE ConnectionProofs --------------------------
(***************************************************************************)
(* For any number of threads, retries and events, the connection a service *)
(* uses has its handlers whenever no TryConnect is going on.               *)
(***************************************************************************)
EXTENDS PersistentConnection, FiniteSets, FiniteSetTheorems, TLAPS

Label == {"idle", "raised", "waiting", "trying", "created", "subscribe"}
Inside == {"trying", "created", "subscribe"}

Typed ==
    /\ connection \in Nat /\ created \in Nat
    /\ pc \in [Process -> Label]
    /\ lock \subseteq Process

(* Whoever is inside TryConnect holds the lock, and nobody else does.      *)
Exclusion == \A p \in Process : pc[p] \in Inside <=> lock = {p}
Holders == lock = {} \/ \E p \in Process : lock = {p}

(* A connection without handlers is one that TryConnect is not done with,  *)
(* or returned false about: also when a nested call ends in an exception.  *)
Tended ==
    \/ connection \in {0} \cup watched \cup untended
    \/ \E p \in Process : pc[p] \in {"created", "subscribe"}

IInv == Typed /\ Exclusion /\ Holders /\ Tended

LEMMA InitHolds == Init => IInv
BY DEF Init, IInv, Typed, Exclusion, Holders, Tended, Label, Inside

(* One step per action.  What leads into or out of TryConnect decides the  *)
(* lock; the rest happens outside it.                                      *)
LEMMA StepHolds == IInv /\ [Next]_vars => IInv'
<1> SUFFICES ASSUME IInv, [Next]_vars PROVE IInv'
  OBVIOUS
<1> USE DEF IInv, Typed, Exclusion, Holders, Tended, Label, Inside
<1>1. ASSUME NEW t \in Thread, Call(t) PROVE IInv'
  BY <1>1 DEF Call, Goto, Process, clientVars
<1>2. ASSUME NEW p \in Process, Enter(p) PROVE IInv'
  BY <1>2 DEF Enter, Goto, clientVars
<1>3. ASSUME NEW p \in Process, CreateConnection(p) PROVE IInv'
  BY <1>3 DEF CreateConnection, Goto, boundVars
<1>4. ASSUME NEW p \in Process, BrokerUnreachable(p) PROVE IInv'
  BY <1>4 DEF BrokerUnreachable, Return, Goto, clientVars
<1>5. ASSUME NEW p \in Process, TestConnection(p) PROVE IInv'
  BY <1>5 DEF TestConnection, Return, Goto, clientVars
<1>6. ASSUME NEW p \in Process, Subscribe(p) PROVE IInv'
  BY <1>6 DEF Subscribe, Return, Goto
<1>7. ASSUME NEW c \in Connection, Lose(c) \/ Trouble(c) \/ Handle(c) PROVE IInv'
  BY <1>7 DEF Lose, Trouble, Handle, Goto, Process, clientVars
<1>8. ASSUME NEW c \in Connection, Recover(c) PROVE IInv'
  BY <1>8 DEF Recover
<1>9. CASE Dispose \/ DisposeConnection
  BY <1>9 DEF Dispose, DisposeConnection, clientVars
<1>10. CASE UNCHANGED vars
  BY <1>10 DEF vars, clientVars
<1> QED BY <1>1, <1>2, <1>3, <1>4, <1>5, <1>6, <1>7, <1>8, <1>9, <1>10
        DEF Next, TryConnect

(* With the lock free nobody is inside TryConnect, and then the connection *)
(* has its handlers, open or not (DefaultRabbitMQPersistentConnection.cs:  *)
(* 69-101).                                                                *)
THEOREM WatchedHolds == Spec => []WatchedWhenConnected
<1>1. IInv => WatchedWhenConnected
  BY DEF IInv, Typed, Exclusion, Tended, Inside, WatchedWhenConnected, IsConnected
<1> QED BY InitHolds, StepHolds, <1>1, PTL DEF Spec

-----------------------------------------------------------------------------
(* How many elements a set has that differs from another by one.           *)
LEMMA NoMore ==
  ASSUME NEW S, IsFiniteSet(S), NEW T, T \subseteq S
  PROVE  /\ IsFiniteSet(T) /\ Cardinality(T) \in Nat /\ Cardinality(S) \in Nat
         /\ Cardinality(T) <= Cardinality(S)
BY FS_Subset, FS_CardinalityType

LEMMA OneMore ==
  ASSUME NEW S, IsFiniteSet(S), NEW x, NEW T, T \subseteq S \cup {x}
  PROVE  /\ IsFiniteSet(T) /\ Cardinality(T) \in Nat /\ Cardinality(S) \in Nat
         /\ Cardinality(T) <= Cardinality(S) + 1
<1>1. /\ IsFiniteSet(S \cup {x}) /\ Cardinality(S) \in Nat
      /\ Cardinality(S \cup {x}) <= Cardinality(S) + 1
  <2>1. /\ IsFiniteSet(S \cup {x}) /\ Cardinality(S) \in Nat
        /\ Cardinality(S \cup {x})
             = IF x \in S THEN Cardinality(S) ELSE Cardinality(S) + 1
    BY FS_AddElement, FS_CardinalityType
  <2> QED BY <2>1
<1> QED BY <1>1, NoMore

LEMMA OneLess ==
  ASSUME NEW S, IsFiniteSet(S), NEW x \in S, NEW T, T \subseteq S \ {x}
  PROVE  /\ IsFiniteSet(T) /\ Cardinality(T) \in Nat /\ Cardinality(S) \in Nat
         /\ Cardinality(T) + 1 <= Cardinality(S)
<1>1. /\ IsFiniteSet(S \ {x}) /\ Cardinality(S) \in Nat
      /\ Cardinality(S \ {x}) = Cardinality(S) - 1
  BY FS_RemoveElement, FS_CardinalityType
<1> QED BY <1>1, NoMore

-----------------------------------------------------------------------------
(* A connection is created for somebody who has been called or told, and a *)
(* loss that found no handlers may still be told to a handler attached     *)
(* too late: both are paid for by a call or an event.                      *)
Pending == {p \in Process : pc[p] \in {"raised", "waiting", "trying"}}
Lost == (1 .. created) \ (watched \cup open \cup closed)

Paid ==
    /\ IsFiniteSet(Pending) /\ IsFiniteSet(Lost)
    /\ created + Cardinality(Pending) + Cardinality(Lost) <= calls + events

Ranges ==
    /\ connection \in 0 .. created
    /\ open \subseteq 1 .. created
    /\ watched \subseteq 1 .. created
    /\ closed \subseteq 1 .. created
    /\ disposing \in BOOLEAN /\ disposed \in BOOLEAN
    /\ left \in [Process -> 0 .. RetryCount]
    /\ calls \in 0 .. MaxCalls /\ events \in 0 .. MaxEvents
    /\ failures \in 0 .. MaxFailures
    /\ untended \subseteq 1 .. created
    /\ gaveUp \in BOOLEAN

(* What a TryConnect works on is its own, and no connection is closed on   *)
(* purpose before Dispose.                                                 *)
Own ==
    /\ \A p \in Process : pc[p] \in {"created", "subscribe"} =>
          connection \in (1 .. created) \ watched
    /\ disposing \/ closed # {} => disposed

TInv == IInv /\ Ranges /\ Own /\ Paid

LEMMA TInvInit == Init => TInv
<1> SUFFICES ASSUME Init PROVE TInv
  OBVIOUS
<1>1. Pending = {} /\ Lost = {}
  BY DEF Init, Pending, Lost
<1>2. Paid
  BY <1>1, FS_EmptySet DEF Init, Paid
<1>3. Ranges
  <2>1. left \in [Process -> 0 .. RetryCount]
    BY ConnectionAssumption DEF ConnectionAssumption, Init
  <2>2. MaxCalls \in Nat /\ MaxEvents \in Nat /\ MaxFailures \in Nat
    BY ConnectionAssumption DEF ConnectionAssumption
  <2>3. calls \in 0 .. MaxCalls /\ events \in 0 .. MaxEvents /\ failures \in 0 .. MaxFailures
    BY <2>2 DEF Init
  <2>4. /\ connection \in 0 .. created
        /\ open = {} /\ watched = {} /\ closed = {} /\ untended = {}
    BY DEF Init
  <2>5. disposing \in BOOLEAN /\ disposed \in BOOLEAN /\ gaveUp \in BOOLEAN
    BY DEF Init
  <2> QED BY <2>1, <2>3, <2>4, <2>5 DEF Ranges
<1>4. Own
  BY DEF Init, Own
<1> QED BY <1>2, <1>3, <1>4, InitHolds DEF TInv

LEMMA TInvStep == TInv /\ [Next]_vars => TInv'
<1> SUFFICES ASSUME TInv, [Next]_vars PROVE Ranges' /\ Own' /\ Paid'
  BY StepHolds DEF TInv
<1> DEFINE N == Cardinality(Pending)
           L == Cardinality(Lost)
<1>0. /\ IsFiniteSet(Pending) /\ IsFiniteSet(Lost) /\ N \in Nat /\ L \in Nat
      /\ created \in Nat /\ calls \in Nat /\ events \in Nat
      /\ created + N + L <= calls + events
      /\ {RetryCount, MaxCalls, MaxEvents, MaxFailures} \subseteq Nat
  BY FS_CardinalityType, ConnectionAssumption
     DEF TInv, IInv, Typed, Ranges, Paid, ConnectionAssumption
<1>1. Typed /\ Exclusion /\ Ranges /\ Own
  BY DEF TInv, IInv
<1>2. ASSUME NEW t \in Thread, Call(t) PROVE Ranges' /\ Own' /\ Paid'
  <2>1. /\ pc' = [pc EXCEPT ![t] = "waiting"] /\ calls' = calls + 1 /\ calls < MaxCalls
        /\ UNCHANGED <<clientVars, disposing, disposed, left, events, failures,
                      untended, gaveUp>>
    BY <1>2 DEF Call, Goto
  <2>2. Pending' \subseteq Pending \cup {t} /\ Lost' = Lost
    BY <1>1, <2>1 DEF Pending, Lost, Typed, clientVars
  <2>3. Paid'
    <3>1. /\ IsFiniteSet(Pending') /\ Cardinality(Pending') \in Nat
          /\ Cardinality(Pending') <= N + 1
      BY <1>0, <2>2, OneMore
    <3> QED BY <1>0, <2>1, <2>2, <3>1 DEF Paid, clientVars
  <2>4. Ranges' /\ Own'
    BY <1>0, <1>1, <2>1 DEF Ranges, Own, Typed, Process, clientVars
  <2> QED BY <2>3, <2>4
<1>3. ASSUME NEW p \in Process, Enter(p) PROVE Ranges' /\ Own' /\ Paid'
  <2>1. /\ pc[p] = "waiting" /\ pc' = [pc EXCEPT ![p] = "trying"]
        /\ left' = [left EXCEPT ![p] = RetryCount]
        /\ UNCHANGED <<clientVars, disposing, disposed, boundVars, untended, gaveUp>>
    BY <1>3 DEF Enter, Goto
  <2>2. Pending' \subseteq Pending /\ Lost' = Lost
    BY <1>1, <2>1 DEF Pending, Lost, Typed, clientVars
  <2>3. Paid'
    BY <1>0, <2>1, <2>2, NoMore DEF Paid, clientVars, boundVars
  <2>4. Ranges' /\ Own'
    BY <1>0, <1>1, <2>1 DEF Ranges, Own, Typed, clientVars, boundVars
  <2> QED BY <2>3, <2>4
<1>4. ASSUME NEW p \in Process, CreateConnection(p) PROVE Ranges' /\ Own' /\ Paid'
  <2>1. /\ pc[p] = "trying" /\ pc' = [pc EXCEPT ![p] = "created"]
        /\ created' = created + 1 /\ connection' = created + 1
        /\ open' = open \cup {created + 1}
        /\ UNCHANGED <<watched, closed, disposing, disposed, left, boundVars,
                      untended, gaveUp>>
    BY <1>4 DEF CreateConnection, Goto
  <2>2. p \in Pending /\ Pending' \subseteq Pending \ {p} /\ Lost' \subseteq Lost
    BY <1>0, <1>1, <2>1 DEF Pending, Lost, Typed
  <2>3. /\ IsFiniteSet(Pending') /\ Cardinality(Pending') \in Nat
        /\ Cardinality(Pending') + 1 <= N
    BY <1>0, <2>2, OneLess
  <2>4. /\ IsFiniteSet(Lost') /\ Cardinality(Lost') \in Nat /\ Cardinality(Lost') <= L
    BY <1>0, <2>2, NoMore
  <2>5. Paid'
    BY <1>0, <2>1, <2>3, <2>4 DEF Paid, boundVars
  <2>6. Ranges'
    BY <1>0, <1>1, <2>1 DEF Ranges, boundVars
  <2>7. Own'
    BY <1>0, <1>1, <2>1 DEF Own, Ranges
  <2> QED BY <2>5, <2>6, <2>7
<1>5. ASSUME NEW p \in Process, BrokerUnreachable(p) PROVE Ranges' /\ Own' /\ Paid'
  <2>1. /\ pc[p] = "trying" /\ pc' \in {pc, [pc EXCEPT ![p] = "idle"]}
        /\ failures' = failures + 1 /\ failures < MaxFailures
        /\ left' = left \/ (left[p] > 0 /\ left' = [left EXCEPT ![p] = @ - 1])
        /\ gaveUp' \in {gaveUp, TRUE}
        /\ UNCHANGED <<clientVars, disposing, disposed, calls, events, untended>>
    BY <1>5 DEF BrokerUnreachable, Return, Goto
  <2>2. Pending' \subseteq Pending /\ Lost' = Lost
    BY <1>1, <2>1 DEF Pending, Lost, Typed, clientVars
  <2>3. Paid'
    BY <1>0, <2>1, <2>2, NoMore DEF Paid, clientVars
  <2>4. left' \in [Process -> 0 .. RetryCount]
    BY <1>0, <1>1, <2>1 DEF Ranges
  <2>5. Ranges'
    <3>1. failures' \in 0 .. MaxFailures
      <4>1. failures \in Nat /\ failures' = failures + 1 /\ failures < MaxFailures
        BY <1>1, <2>1 DEF Ranges
      <4> QED BY <1>0, <4>1
    <3>2. gaveUp' \in BOOLEAN
      BY <1>1, <2>1 DEF Ranges
    <3> QED BY <1>1, <2>1, <2>4, <3>1, <3>2 DEF Ranges, clientVars
  <2>6. Own'
    BY <1>1, <2>1 DEF Own, Typed, clientVars
  <2> QED BY <2>3, <2>5, <2>6
<1>6. ASSUME NEW p \in Process, TestConnection(p) PROVE Ranges' /\ Own' /\ Paid'
  <2>1. /\ pc[p] = "created" /\ pc' \in {[pc EXCEPT ![p] = "subscribe"],
                                        [pc EXCEPT ![p] = "idle"]}
        /\ untended' \in {untended, untended \cup {connection}}
        /\ UNCHANGED <<clientVars, disposing, disposed, left, boundVars, gaveUp>>
    BY <1>6 DEF TestConnection, Return, Goto
  <2>2. Pending' \subseteq Pending /\ Lost' = Lost
    BY <1>1, <2>1 DEF Pending, Lost, Typed, clientVars
  <2>3. Paid'
    BY <1>0, <2>1, <2>2, NoMore DEF Paid, clientVars, boundVars
  <2>4. Ranges' /\ Own'
    BY <1>0, <1>1, <2>1 DEF Ranges, Own, Typed, clientVars, boundVars
  <2> QED BY <2>3, <2>4
<1>7. ASSUME NEW p \in Process, Subscribe(p) PROVE Ranges' /\ Own' /\ Paid'
  <2>1. /\ pc[p] = "subscribe" /\ watched' = watched \cup {connection}
        /\ \/ pc' = [pc EXCEPT ![p] = "idle"] /\ left' = left
           \/ /\ connection \notin open /\ ~disposed
              /\ pc' = [pc EXCEPT ![p] = "trying"]
              /\ left' = [left EXCEPT ![p] = RetryCount]
        /\ UNCHANGED <<connection, created, open, closed, disposing, disposed,
                      boundVars, untended, gaveUp>>
    BY <1>7 DEF Subscribe, Return, Goto
  <2>2. Lost' \subseteq Lost \ {connection} /\ connection \in (1 .. created) \ watched
    BY <1>1, <2>1 DEF Lost, Own
  <2>3. ASSUME pc' = [pc EXCEPT ![p] = "idle"] PROVE Paid'
    <3>1. Pending' \subseteq Pending
      BY <1>1, <2>3 DEF Pending, Typed
    <3>2. Lost' \subseteq Lost
      BY <2>2
    <3> QED BY <1>0, <2>1, <3>1, <3>2, NoMore DEF Paid, boundVars
  <2>4. ASSUME connection \notin open, ~disposed, pc' = [pc EXCEPT ![p] = "trying"]
        PROVE  Paid'
    <3>1. Pending' \subseteq Pending \cup {p}
      BY <1>1, <2>4 DEF Pending, Typed
    <3>2. connection \in Lost
      BY <1>1, <2>2, <2>4 DEF Lost, Own
    <3>3. /\ IsFiniteSet(Lost') /\ Cardinality(Lost') \in Nat
          /\ Cardinality(Lost') + 1 <= L
      BY <1>0, <2>2, <3>2, OneLess
    <3>4. /\ IsFiniteSet(Pending') /\ Cardinality(Pending') \in Nat
          /\ Cardinality(Pending') <= N + 1
      BY <1>0, <3>1, OneMore
    <3> QED BY <1>0, <2>1, <3>3, <3>4 DEF Paid, boundVars
  <2>5. \A q \in Process \ {p} : pc'[q] \notin {"created", "subscribe"}
    BY <1>1, <2>1 DEF Typed, Exclusion, Inside
  <2>6. Own'
    BY <1>1, <2>1, <2>5 DEF Own, Typed
  <2>7. Ranges'
    BY <1>0, <1>1, <2>1, <2>2 DEF Ranges, boundVars
  <2> QED BY <2>1, <2>3, <2>4, <2>6, <2>7
<1>8. ASSUME NEW c \in Connection, Lose(c) PROVE Ranges' /\ Own' /\ Paid'
  <2>1. /\ c \in open /\ pc[c] = "idle" /\ open' = open \ {c}
        /\ events' = events + 1 /\ events < MaxEvents
        /\ pc' = [pc EXCEPT ![c] = IF c \in watched THEN "raised" ELSE @]
        /\ UNCHANGED <<connection, created, watched, closed, disposing, disposed,
                      left, calls, failures, untended, gaveUp>>
    BY <1>8 DEF Lose
  <2>2. ASSUME c \in watched PROVE Paid'
    <3>1. Pending' \subseteq Pending \cup {c} /\ Lost' \subseteq Lost
      BY <1>1, <2>1, <2>2 DEF Pending, Lost, Typed
    <3>2. /\ IsFiniteSet(Lost') /\ Cardinality(Lost') \in Nat /\ Cardinality(Lost') <= L
      BY <1>0, <3>1, NoMore
    <3>3. /\ IsFiniteSet(Pending') /\ Cardinality(Pending') \in Nat
          /\ Cardinality(Pending') <= N + 1
      BY <1>0, <3>1, OneMore
    <3> QED BY <1>0, <2>1, <3>2, <3>3 DEF Paid
  <2>3. ASSUME c \notin watched PROVE Paid'
    <3>1. Pending' \subseteq Pending /\ Lost' \subseteq Lost \cup {c}
      BY <1>1, <2>1, <2>3 DEF Pending, Lost, Typed
    <3>2. /\ IsFiniteSet(Lost') /\ Cardinality(Lost') \in Nat
          /\ Cardinality(Lost') <= L + 1
      BY <1>0, <3>1, OneMore
    <3>3. /\ IsFiniteSet(Pending') /\ Cardinality(Pending') \in Nat
          /\ Cardinality(Pending') <= N
      BY <1>0, <3>1, NoMore
    <3> QED BY <1>0, <2>1, <3>2, <3>3 DEF Paid
  <2>4. Ranges' /\ Own'
    BY <1>0, <1>1, <2>1 DEF Ranges, Own, Typed, Process
  <2> QED BY <2>2, <2>3, <2>4
<1>9. ASSUME NEW c \in Connection, Trouble(c) PROVE Ranges' /\ Own' /\ Paid'
  <2>1. /\ pc' = [pc EXCEPT ![c] = "raised"] /\ events' = events + 1
        /\ events < MaxEvents
        /\ UNCHANGED <<clientVars, disposing, disposed, left, calls, failures,
                      untended, gaveUp>>
    BY <1>9 DEF Trouble, Goto
  <2>2. Pending' \subseteq Pending \cup {c} /\ Lost' = Lost
    BY <1>1, <2>1 DEF Pending, Lost, Typed, clientVars
  <2>3. Paid'
    <3>1. /\ IsFiniteSet(Pending') /\ Cardinality(Pending') \in Nat
          /\ Cardinality(Pending') <= N + 1
      BY <1>0, <2>2, OneMore
    <3> QED BY <1>0, <2>1, <2>2, <3>1 DEF Paid, clientVars
  <2>4. Ranges' /\ Own'
    BY <1>0, <1>1, <2>1 DEF Ranges, Own, Typed, Process, clientVars
  <2> QED BY <2>3, <2>4
<1>10. ASSUME NEW c \in Connection, Handle(c) PROVE Ranges' /\ Own' /\ Paid'
  <2>1. /\ pc[c] = "raised"
        /\ pc' \in {[pc EXCEPT ![c] = "idle"], [pc EXCEPT ![c] = "waiting"]}
        /\ UNCHANGED <<clientVars, disposing, disposed, left, boundVars, untended,
                      gaveUp>>
    BY <1>10 DEF Handle, Goto
  <2>2. Pending' \subseteq Pending /\ Lost' = Lost
    BY <1>1, <2>1 DEF Pending, Lost, Typed, Process, clientVars
  <2>3. Paid'
    BY <1>0, <2>1, <2>2, NoMore DEF Paid, clientVars, boundVars
  <2>4. Ranges' /\ Own'
    BY <1>0, <1>1, <2>1 DEF Ranges, Own, Typed, Process, clientVars, boundVars
  <2> QED BY <2>3, <2>4
<1>11. ASSUME NEW c \in Connection, Recover(c) PROVE Ranges' /\ Own' /\ Paid'
  <2>1. /\ c \in 1 .. created /\ open' = open \cup {c}
        /\ UNCHANGED <<connection, created, watched, closed, disposing, disposed,
                      pc, left, boundVars, untended, gaveUp>>
    BY <1>11 DEF Recover
  <2>2. Pending' = Pending /\ Lost' \subseteq Lost
    BY <2>1 DEF Pending, Lost
  <2> QED BY <1>0, <1>1, <2>1, <2>2, NoMore DEF Paid, Ranges, Own, boundVars
<1>12. CASE Dispose \/ DisposeConnection
  <2>1. /\ \/ open' = open /\ closed' = closed /\ disposing' = TRUE /\ disposed' = TRUE
           \/ /\ open' = open \ {connection} /\ closed' = closed \cup ({connection} \ {0})
              /\ disposing' = FALSE /\ disposed' = disposed /\ disposed
        /\ UNCHANGED <<connection, created, watched, pc, left, boundVars, untended,
                      gaveUp>>
    BY <1>1, <1>12 DEF Dispose, DisposeConnection, clientVars, Own
  <2>2. Pending' = Pending /\ Lost' \subseteq Lost
    BY <2>1 DEF Pending, Lost
  <2>3. Paid'
    BY <1>0, <2>1, <2>2, NoMore DEF Paid, boundVars
  <2>4. Ranges' /\ Own'
    <3>1. open' \subseteq 1 .. created /\ closed' \subseteq 1 .. created
      <4>1. {connection} \ {0} \subseteq 1 .. created
        BY <1>0, <1>1 DEF Ranges
      <4>2. open' \subseteq open /\ closed' \subseteq closed \cup ({connection} \ {0})
        BY <2>1
      <4> QED BY <1>1, <4>1, <4>2 DEF Ranges
    <3>2. disposing' \in BOOLEAN /\ disposed' \in BOOLEAN
          /\ (disposing' \/ closed' # {} => disposed')
      BY <1>1, <2>1 DEF Ranges, Own
    <3> QED BY <1>1, <2>1, <3>1, <3>2 DEF Ranges, Own, boundVars
  <2> QED BY <2>3, <2>4
<1>13. CASE UNCHANGED vars
  <2>1. Pending' = Pending /\ Lost' = Lost
    BY <1>13 DEF vars, clientVars, Pending, Lost
  <2> QED BY <1>0, <1>1, <1>13, <2>1 DEF vars, clientVars, boundVars, Ranges, Own, Paid
<1> QED BY <1>2, <1>3, <1>4, <1>5, <1>6, <1>7, <1>8, <1>9, <1>10, <1>11, <1>12, <1>13
        DEF Next, TryConnect

(* TryConnect does not look again whether the connection is still lost, so *)
(* that many are created for one loss; yet there are never more than calls *)
(* of TryConnect and events on connections: retries and the TryConnect in  *)
(* a handler attached too late (DefaultRabbitMQPersistentConnection.cs:    *)
(* 67-101) create none that was not asked for.                             *)
THEOREM TypeCorrect == Spec => []TypeOK
<1>1. TInv => TypeOK
  <2> SUFFICES ASSUME TInv PROVE TypeOK
    OBVIOUS
  <2>1. /\ Cardinality(Pending) \in Nat /\ Cardinality(Lost) \in Nat
        /\ created \in Nat
    BY FS_CardinalityType DEF TInv, IInv, Typed, Paid
  <2>2. created \in 0 .. MaxCalls + MaxEvents
    BY <2>1, ConnectionAssumption DEF ConnectionAssumption, TInv, Paid, Ranges
  <2> QED BY <2>2 DEF TInv, IInv, Typed, Holders, Ranges, TypeOK, Label
<1> QED BY <1>1, TInvInit, TInvStep, PTL DEF Spec
=============================================================================
