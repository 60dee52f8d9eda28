------------------------ MODULE PersistentConnection ------------------------
(***************************************************************************)
(* The RabbitMQ connection all threads of a service share: whoever finds   *)
(* it closed calls TryConnect, and so do the handlers TryConnect attaches  *)
(* to each connection, on a thread of that connection.  One lock is held   *)
(* for a whole TryConnect, its retries included; IsConnected and Dispose   *)
(* do not take it.                                                         *)
(*                                                                         *)
(* Connections are numbered as they are created; 0 is null.  The three     *)
(* handlers, which do the same, are attached in one step.  The client      *)
(* library runs a handler that is attached to a closed connection at once, *)
(* on the same thread, and by default recovers connections that nobody has *)
(* closed on purpose, with their handlers.                                 *)
(***************************************************************************)
EXTENDS Naturals

CONSTANTS
    Thread,         \* threads that use the connection
    RetryCount,     \* _retryCount
    MaxCalls,       \* bound: calls of TryConnect by threads
    MaxEvents,      \* bound: connections lost, blocked or with an exception
    MaxFailures     \* bound: attempts that do not reach the broker

ASSUME ConnectionAssumption ==
    /\ Thread \cap Nat = {}
    /\ {RetryCount, MaxCalls, MaxEvents, MaxFailures} \subseteq Nat

(* Every call and every event leads to at most one connection.             *)
Connection == 1 .. (MaxCalls + MaxEvents)

(* A connection stands for the thread that runs its handlers.              *)
Process == Thread \cup Connection

VARIABLES
    connection,  \* _connection
    created,     \* how many connections there have been
    open,        \* those that are open
    watched,     \* those the handlers are attached to
    closed,      \* those disposed of
    disposing,   \* Dispose has begun and not yet disposed of _connection
    disposed,    \* _disposed
    lock,        \* who holds sync_root, {} or a singleton
    pc,          \* where each process is in TryConnect
    left,        \* the retries it has left
    calls, events, failures,
    untended,    \* history: connections about which TryConnect returned false
    gaveUp       \* history: a TryConnect ended with an exception

clientVars == <<connection, created, open, watched, closed>>
boundVars == <<calls, events, failures>>
vars == <<clientVars, disposing, disposed, lock, pc, left, boundVars,
          untended, gaveUp>>

IsConnected == connection # 0 /\ connection \in open /\ ~disposed

Goto(p, label) == pc' = [pc EXCEPT ![p] = label]

(* As if the lock were not released.                                       *)
ReturnLocked(p) == Goto(p, "idle") /\ UNCHANGED lock

Return(p) == Goto(p, "idle") /\ lock' = {}

-----------------------------------------------------------------------------
Init ==
    /\ connection = 0 /\ created = 0
    /\ open = {} /\ watched = {} /\ closed = {}
    /\ disposing = FALSE /\ disposed = FALSE
    /\ lock = {}
    /\ pc = [p \in Process |-> "idle"]
    /\ left = [p \in Process |-> 0]
    /\ calls = 0 /\ events = 0 /\ failures = 0
    /\ untended = {} /\ gaveUp = FALSE

(* if (!_persistentConnection.IsConnected) _persistentConnection.TryConnect() *)
Call(t) ==
    /\ t \in Thread /\ pc[t] = "idle"
    /\ ~IsConnected
    /\ calls < MaxCalls
    /\ calls' = calls + 1
    /\ Goto(t, "waiting")
    /\ UNCHANGED <<clientVars, disposing, disposed, lock, left, events,
                   failures, untended, gaveUp>>

Enter(p) ==
    /\ pc[p] = "waiting" /\ lock = {}
    /\ lock' = {p}
    /\ Goto(p, "trying")
    /\ left' = [left EXCEPT ![p] = RetryCount]
    /\ UNCHANGED <<clientVars, disposing, disposed, boundVars, untended, gaveUp>>

(* Whatever has happened since TryConnect was called.                      *)
CreateConnection(p) ==
    /\ pc[p] = "trying"
    /\ created' = created + 1
    /\ connection' = created + 1
    /\ open' = open \cup {created + 1}
    /\ Goto(p, "created")
    /\ UNCHANGED <<watched, closed, disposing, disposed, lock, left, boundVars,
                   untended, gaveUp>>

(* As if the policy retried once more than it says.                        *)
RetriesOnceMore(p) ==
    /\ pc[p] = "trying"
    /\ failures < MaxFailures
    /\ failures' = failures + 1
    /\ left' = [left EXCEPT ![p] = @ - 1]
    /\ UNCHANGED <<clientVars, disposing, disposed, lock, pc, calls, events,
                   untended, gaveUp>>

BrokerUnreachable(p) ==
    /\ pc[p] = "trying"
    /\ failures < MaxFailures
    /\ failures' = failures + 1
    /\ \/ /\ left[p] > 0
          /\ left' = [left EXCEPT ![p] = @ - 1]
          /\ UNCHANGED <<pc, lock, gaveUp>>
       \/ /\ left[p] = 0
          /\ Return(p)
          /\ gaveUp' = TRUE
          /\ UNCHANGED left
    /\ UNCHANGED <<clientVars, disposing, disposed, calls, events, untended>>

TestConnection(p) ==
    /\ pc[p] = "created"
    /\ \/ /\ IsConnected
          /\ Goto(p, "subscribe")
          /\ UNCHANGED <<lock, untended>>
       \/ /\ ~IsConnected
          /\ Return(p)
          /\ untended' = untended \cup {connection}
    /\ UNCHANGED <<clientVars, disposing, disposed, left, boundVars, gaveUp>>

(* As if no handler were attached.                                         *)
SubscribeNothing(p) ==
    /\ pc[p] = "subscribe"
    /\ Return(p)
    /\ UNCHANGED <<clientVars, disposing, disposed, left, boundVars, untended, gaveUp>>

(* On a connection that is closed by now, OnConnectionShutdown runs at     *)
(* once, and TryConnect inside TryConnect: the thread holds the lock.      *)
Subscribe(p) ==
    /\ pc[p] = "subscribe"
    /\ watched' = watched \cup {connection}
    /\ \/ /\ connection \in open \/ disposed
          /\ Return(p)
          /\ UNCHANGED left
       \/ /\ connection \notin open /\ ~disposed
          /\ Goto(p, "trying")
          /\ left' = [left EXCEPT ![p] = RetryCount]
          /\ UNCHANGED lock
    /\ UNCHANGED <<connection, created, open, closed, disposing, disposed,
                   boundVars, untended, gaveUp>>

-----------------------------------------------------------------------------
(* The connection breaks.                                                  *)
Lose(c) ==
    /\ c \in open /\ pc[c] = "idle"
    /\ events < MaxEvents
    /\ events' = events + 1
    /\ open' = open \ {c}
    /\ pc' = [pc EXCEPT ![c] = IF c \in watched THEN "raised" ELSE @]
    /\ UNCHANGED <<connection, created, watched, closed, disposing, disposed,
                   lock, left, calls, failures, untended, gaveUp>>

(* ConnectionBlocked or CallbackException: the connection stays open.      *)
Trouble(c) ==
    /\ c \in open \cap watched /\ pc[c] = "idle"
    /\ events < MaxEvents
    /\ events' = events + 1
    /\ Goto(c, "raised")
    /\ UNCHANGED <<clientVars, disposing, disposed, lock, left, calls, failures,
                   untended, gaveUp>>

Recover(c) ==
    /\ c \in 1 .. created /\ c \notin open \cup closed
    /\ open' = open \cup {c}
    /\ UNCHANGED <<connection, created, watched, closed, disposing, disposed,
                   lock, pc, left, boundVars, untended, gaveUp>>

(* As if the test were the wrong way round.                                *)
HandleWhenDisposed(c) ==
    /\ pc[c] = "raised"
    /\ Goto(c, IF disposed THEN "waiting" ELSE "idle")
    /\ UNCHANGED <<clientVars, disposing, disposed, lock, left, boundVars,
                   untended, gaveUp>>

(* OnConnectionShutdown, OnCallbackException, OnConnectionBlocked          *)
Handle(c) ==
    /\ pc[c] = "raised"
    /\ Goto(c, IF disposed THEN "idle" ELSE "waiting")
    /\ UNCHANGED <<clientVars, disposing, disposed, lock, left, boundVars,
                   untended, gaveUp>>

Dispose ==
    /\ ~disposed
    /\ disposed' = TRUE
    /\ disposing' = TRUE
    /\ UNCHANGED <<clientVars, lock, pc, left, boundVars, untended, gaveUp>>

(* _connection.Dispose(); a null reference if there never was one. The     *)
(* handlers find _disposed.                                                *)
DisposeConnection ==
    /\ disposing
    /\ disposing' = FALSE
    /\ open' = open \ {connection}
    /\ closed' = closed \cup ({connection} \ {0})
    /\ UNCHANGED <<connection, created, watched, disposed, lock, pc, left,
                   boundVars, untended, gaveUp>>

-----------------------------------------------------------------------------
TryConnect(p) ==
    \/ Enter(p) \/ CreateConnection(p) \/ BrokerUnreachable(p)
    \/ TestConnection(p) \/ Subscribe(p)

Next ==
    \/ \E t \in Thread : Call(t)
    \/ \E p \in Process : TryConnect(p)
    \/ \E c \in Connection : Lose(c) \/ Trouble(c) \/ Recover(c) \/ Handle(c)
    \/ Dispose \/ DisposeConnection

Spec == Init /\ [][Next]_vars

(* Threads that wait for a lock, for the broker or between two retries go  *)
(* on.  Nothing is assumed of recovery.                                    *)
Fairness ==
    /\ \A p \in Process : WF_vars(TryConnect(p))
    /\ \A c \in Connection : WF_vars(Handle(c))

FairSpec == Spec /\ Fairness

-----------------------------------------------------------------------------
TypeOK ==
    /\ connection \in 0 .. created /\ created \in 0 .. MaxCalls + MaxEvents
    /\ open \subseteq 1 .. created
    /\ watched \subseteq 1 .. created
    /\ closed \subseteq 1 .. created
    /\ disposing \in BOOLEAN /\ disposed \in BOOLEAN
    /\ lock = {} \/ \E p \in Process : lock = {p}
    /\ pc \in [Process -> {"idle", "raised", "waiting", "trying", "created",
                           "subscribe"}]
    /\ left \in [Process -> 0 .. RetryCount]
    /\ calls \in 0 .. MaxCalls /\ events \in 0 .. MaxEvents
    /\ failures \in 0 .. MaxFailures
    /\ untended \subseteq 1 .. created
    /\ gaveUp \in BOOLEAN

(* When no TryConnect is going on, the connection the service uses has its *)
(* handlers, so that its loss will be noticed: whichever threads and       *)
(* handlers reconnected at the same time, and though a connection may      *)
(* close just before they are attached.  The exception is one that closed  *)
(* between its creation and the test of IsConnected, and recovered.        *)
WatchedWhenConnected ==
    lock = {} /\ IsConnected => connection \in watched \cup untended

(* A loss of the connection that has its handlers is made good, however    *)
(* many threads reconnect meanwhile and whatever else is lost, unless a    *)
(* TryConnect runs out of retries or returns false, or the bus is disposed.*)
LossIsMadeGood ==
    connection \in watched \ open
        ~> IsConnected \/ disposed \/ gaveUp \/ connection \in untended

(* Whoever calls TryConnect, and every handler, comes back: no two threads *)
(* wait for each other, though a handler that runs inside TryConnect calls *)
(* it again.                                                               *)
EveryCallReturns == \A p \in Process : pc[p] # "idle" ~> pc[p] = "idle"
=============================================================================
