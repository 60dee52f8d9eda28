--------------------------- MODULE EventBusProofs ---------------------------
(***************************************************************************)
(* For any events, handlers, messages and faults and any number of calls:  *)
(* subscriptions are bound and consumed, typed ones have their type but    *)
(* for one moment, and on its first channel the bus acknowledges nothing   *)
(* it has not processed.                                                   *)
(*                                                                         *)
(* The invariants build on one another: types first, then the dictionary   *)
(* and the bindings, then the channel and the pools, and the lists the     *)
(* consumers are working through.                                          *)
(***************************************************************************)
EXTENDS EventBusRabbitMQ, SequenceTheorems, TLAPS

(* A call of Subscribe or SubscribeDynamic on its way.                     *)
SubscribeCall ==
  [at : {"bind", "add", "type", "consume"}, name : EventName, type : EventType,
   handler : TypedHandler, isDynamic : {FALSE}]
    \cup [at : {"bind", "add", "consume"}, name : EventName,
          handler : DynamicHandler, isDynamic : {TRUE}]

ApiOK ==
  /\ api \in {NoCall, Disposed, [at |-> "clear"]} \cup SubscribeCall
               \cup [at : {"unbind"}, name : EventName]
  /\ api.at \in {"bind", "add", "type", "consume"} /\ ~api.isDynamic
       => api.name = NameOf[api.type]
  /\ api.at = "type" => ~api.isDynamic

-----------------------------------------------------------------------------
(* What a list without one of its elements looks like.                     *)
LEMMA RemoveAtProperties ==
  ASSUME NEW S, NEW s \in Seq(S), NEW i \in DOMAIN s
  PROVE  /\ RemoveAt(s, i) \in Seq(S)
         /\ Len(RemoveAt(s, i)) = Len(s) - 1
         /\ \A j \in DOMAIN RemoveAt(s, i) :
              RemoveAt(s, i)[j] = IF j < i THEN s[j] ELSE s[j + 1]
<1> DEFINE a == SubSeq(s, 1, i - 1)
           b == SubSeq(s, i + 1, Len(s))
<1>1. /\ Len(s) \in Nat /\ i \in 1 .. Len(s)
      /\ \A j \in 1 .. Len(s) : s[j] \in S
  BY LenProperties, ElementOfSeq
<1>2. /\ a \in Seq(S) /\ Len(a) = i - 1
      /\ \A j \in 1 .. Len(a) : a[j] = s[j]
  BY <1>1
<1>3. /\ b \in Seq(S) /\ Len(b) = Len(s) - i
      /\ \A j \in 1 .. Len(b) : b[j] = s[i + j]
  BY <1>1
<1> HIDE DEF a, b
<1>4. /\ a \o b \in Seq(S) /\ Len(a \o b) = Len(a) + Len(b)
      /\ \A j \in 1 .. Len(a) + Len(b) :
           (a \o b)[j] = IF j <= Len(a) THEN a[j] ELSE b[j - Len(a)]
  BY <1>2, <1>3, ConcatProperties
<1>5. /\ Len(a \o b) = Len(s) - 1
      /\ \A j \in 1 .. Len(a \o b) :
           (a \o b)[j] = IF j < i THEN s[j] ELSE s[j + 1]
  <2>1. Len(a \o b) = Len(s) - 1
    BY <1>1, <1>2, <1>3, <1>4
  <2>2. ASSUME NEW j \in 1 .. Len(a \o b)
        PROVE  (a \o b)[j] = IF j < i THEN s[j] ELSE s[j + 1]
    <3>1. CASE j < i
      BY <1>1, <1>2, <1>3, <1>4, <2>1, <3>1
    <3>2. CASE ~(j < i)
      <4>1. j - Len(a) \in 1 .. Len(b) /\ i + (j - Len(a)) = j + 1
        BY <1>1, <1>2, <1>3, <2>1, <3>2
      <4>2. (a \o b)[j] = b[j - Len(a)]
        BY <1>1, <1>2, <1>3, <1>4, <2>1, <3>2
      <4>3. b[j - Len(a)] = s[i + (j - Len(a))]
        BY <1>3, <4>1
      <4> QED BY <3>2, <4>1, <4>2, <4>3
    <3> QED BY <3>1, <3>2
  <2> QED BY <2>1, <2>2
<1>6. RemoveAt(s, i) = a \o b
  BY DEF RemoveAt, a, b
<1>7. DOMAIN (a \o b) = 1 .. Len(a \o b)
  BY <1>4
<1> QED BY <1>4, <1>5, <1>6, <1>7
-----------------------------------------------------------------------------
(* The dictionary: no handler twice under a name, and a name with a typed  *)
(* handler has its type, or is about to get it.                            *)
Manager ==
  /\ handlers \in [EventName -> Seq(SubscriptionInfo)]
  /\ \A n \in EventName : \A i, j \in DOMAIN handlers[n] :
       handlers[n][i].handler = handlers[n][j].handler => i = j
  /\ eventTypes \subseteq EventType

TypedIsKnown ==
  \A n \in EventName :
    (\E s \in ToSet(handlers[n]) : ~s.isDynamic) => IsKnownEvent(n) \/ Registering(n)

LEMMA AddProperties ==
  ASSUME Manager, TypedIsKnown,
         NEW n \in EventName, NEW h \in HandlerType, NEW d \in BOOLEAN,
         ~IsSubscribed(n, h), DoAddSubscription(n, h, d),
         eventTypes' = eventTypes, \A m \in EventName : ~Registering(m),
         d \/ Registering(n)'
  PROVE  /\ Manager' /\ TypedIsKnown'
         /\ handlers'[n] # <<>>
         /\ \A m \in EventName \ {n} : handlers'[m] = handlers[m]
<1> DEFINE info == [handler |-> h, isDynamic |-> d]
<1>1. handlers' = [handlers EXCEPT ![n] = Append(@, info)]
  BY DEF DoAddSubscription
<1>2. info \in SubscriptionInfo /\ info.handler = h /\ info.isDynamic = d
  BY DEF SubscriptionInfo
<1> HIDE DEF info
<1>3. handlers[n] \in Seq(SubscriptionInfo)
  BY DEF Manager
<1>4. /\ handlers'[n] = Append(handlers[n], info)
      /\ \A m \in EventName \ {n} : handlers'[m] = handlers[m]
  BY <1>1 DEF Manager
<1>5. /\ handlers'[n] \in Seq(SubscriptionInfo) /\ handlers'[n] # <<>>
      /\ DOMAIN handlers'[n] = 1 .. Len(handlers[n]) + 1
      /\ DOMAIN handlers[n] = 1 .. Len(handlers[n])
      /\ \A i \in 1 .. Len(handlers[n]) : handlers'[n][i] = handlers[n][i]
      /\ handlers'[n][Len(handlers[n]) + 1] = info
      /\ Len(handlers[n]) \in Nat
  BY <1>2, <1>3, <1>4, AppendProperties
<1>6. \A i \in DOMAIN handlers[n] : handlers[n][i].handler # h
  BY DEF IsSubscribed, ToSet
<1>7. Manager'
  <2>1. handlers' \in [EventName -> Seq(SubscriptionInfo)]
    BY <1>1, <1>4, <1>5 DEF Manager
  <2>2. ASSUME NEW m \in EventName, NEW i \in DOMAIN handlers'[m],
               NEW j \in DOMAIN handlers'[m],
               handlers'[m][i].handler = handlers'[m][j].handler
        PROVE  i = j
    <3>1. CASE m # n
      BY <1>4, <2>2, <3>1 DEF Manager
    <3>2. CASE m = n
      <4>1. i \in DOMAIN handlers[n] \/ i = Len(handlers[n]) + 1
        BY <1>5, <3>2
      <4>2. j \in DOMAIN handlers[n] \/ j = Len(handlers[n]) + 1
        BY <1>5, <3>2
      <4>3. CASE i \in DOMAIN handlers[n] /\ j \in DOMAIN handlers[n]
        BY <1>5, <2>2, <3>2, <4>3 DEF Manager
      <4>4. CASE i = Len(handlers[n]) + 1 /\ j \in DOMAIN handlers[n]
        BY <1>2, <1>5, <1>6, <2>2, <3>2, <4>4
      <4>5. CASE i \in DOMAIN handlers[n] /\ j = Len(handlers[n]) + 1
        BY <1>2, <1>5, <1>6, <2>2, <3>2, <4>5
      <4> QED BY <4>1, <4>2, <4>3, <4>4, <4>5
    <3> QED BY <3>1, <3>2
  <2> QED BY <2>1, <2>2 DEF Manager
<1>8. TypedIsKnown'
  <2> SUFFICES ASSUME NEW m \in EventName, NEW i \in DOMAIN handlers'[m],
                      ~handlers'[m][i].isDynamic
               PROVE  IsKnownEvent(m)' \/ Registering(m)'
    BY DEF TypedIsKnown, ToSet
  <2>1. ASSUME NEW k \in DOMAIN handlers[m], ~handlers[m][k].isDynamic
        PROVE  IsKnownEvent(m)'
    BY <2>1 DEF TypedIsKnown, IsKnownEvent, ToSet
  <2>2. CASE m # n
    BY <1>4, <2>1, <2>2
  <2>3. CASE m = n /\ i \in DOMAIN handlers[n]
    BY <1>5, <2>1, <2>3
  <2>4. CASE m = n /\ i \notin DOMAIN handlers[n]
    BY <1>2, <1>5, <2>4
  <2> QED BY <2>2, <2>3, <2>4
<1> QED BY <1>4, <1>5, <1>7, <1>8

LEMMA RemoveProperties ==
  ASSUME Manager, TypedIsKnown, \A m \in EventName : ~Registering(m),
         NEW n \in EventName, NEW h \in HandlerType, DoRemoveHandler(n, h)
  PROVE  /\ Manager' /\ TypedIsKnown'
         /\ handlers[n] # <<>>
         /\ \A m \in EventName \ {n} : handlers'[m] = handlers[m]
         /\ \A m \in EventName \ {n} : IsKnownEvent(m) => IsKnownEvent(m)'
<1>1. PICK i \in DOMAIN handlers[n] :
        handlers' = [handlers EXCEPT ![n] = RemoveAt(@, i)]
  BY DEF DoRemoveHandler
<1>2. handlers[n] \in Seq(SubscriptionInfo)
  BY DEF Manager
<1>3. /\ handlers'[n] = RemoveAt(handlers[n], i)
      /\ \A m \in EventName \ {n} : handlers'[m] = handlers[m]
  BY <1>1 DEF Manager
<1>4. /\ handlers'[n] \in Seq(SubscriptionInfo)
      /\ Len(handlers'[n]) = Len(handlers[n]) - 1
      /\ \A j \in DOMAIN handlers'[n] :
           handlers'[n][j] = IF j < i THEN handlers[n][j] ELSE handlers[n][j + 1]
  BY <1>2, <1>3, RemoveAtProperties
<1>5. /\ DOMAIN handlers[n] = 1 .. Len(handlers[n])
      /\ DOMAIN handlers'[n] = 1 .. Len(handlers[n]) - 1
      /\ Len(handlers[n]) \in Nat
  BY <1>2, <1>4, LenProperties
<1> DEFINE old(j) == IF j < i THEN j ELSE j + 1
<1>6. \A j \in DOMAIN handlers'[n] :
        old(j) \in DOMAIN handlers[n] /\ handlers'[n][j] = handlers[n][old(j)]
  BY <1>4, <1>5
<1>7. \A j, k \in DOMAIN handlers'[n] : old(j) = old(k) => j = k
  BY <1>5
<1> HIDE DEF old
<1>8. Manager'
  <2>1. handlers' \in [EventName -> Seq(SubscriptionInfo)]
    BY <1>1, <1>3, <1>4 DEF Manager
  <2>2. eventTypes' \subseteq EventType
    BY DEF Manager, DoRemoveHandler
  <2>3. ASSUME NEW m \in EventName, NEW j \in DOMAIN handlers'[m],
               NEW k \in DOMAIN handlers'[m],
               handlers'[m][j].handler = handlers'[m][k].handler
        PROVE  j = k
    <3>1. CASE m # n
      BY <1>3, <2>3, <3>1 DEF Manager
    <3>2. CASE m = n
      BY <1>6, <1>7, <2>3, <3>2 DEF Manager
    <3> QED BY <3>1, <3>2
  <2> QED BY <2>1, <2>2, <2>3 DEF Manager
<1>9. TypedIsKnown'
  <2> SUFFICES ASSUME NEW m \in EventName, NEW j \in DOMAIN handlers'[m],
                      ~handlers'[m][j].isDynamic
               PROVE  \E t \in eventTypes' : NameOf[t] = m
    BY DEF TypedIsKnown, IsKnownEvent, ToSet
  <2>1. PICK t \in eventTypes : NameOf[t] = m
    <3>1. ASSUME NEW k \in DOMAIN handlers[m], ~handlers[m][k].isDynamic
          PROVE  \E t \in eventTypes : NameOf[t] = m
      BY <3>1 DEF TypedIsKnown, IsKnownEvent, ToSet
    <3>2. CASE m # n
      BY <1>3, <3>1, <3>2
    <3>3. CASE m = n
      BY <1>6, <3>1, <3>3
    <3> QED BY <3>2, <3>3
  <2>2. handlers'[m] # <<>>
    <3>1. DOMAIN handlers'[m] # {}
      OBVIOUS
    <3> QED BY <3>1
  <2>3. t \in eventTypes'
    BY <2>1, <2>2 DEF DoRemoveHandler
  <2> QED BY <2>1, <2>3
<1>10. handlers[n] # <<>>
  <2>1. DOMAIN handlers[n] # {}
    OBVIOUS
  <2> QED BY <2>1
<1>11. \A m \in EventName \ {n} : IsKnownEvent(m) => IsKnownEvent(m)'
  BY DEF DoRemoveHandler, IsKnownEvent
<1> QED BY <1>3, <1>8, <1>9, <1>10, <1>11
-----------------------------------------------------------------------------
(* Types.                                                                  *)
Consumer == [at : {"idle", "next", "handle", "ack"},
             rest : Seq(SubscriptionInfo), modified : BOOLEAN]
Channel == [gen : Gen, open : BOOLEAN, main : BOOLEAN, consuming : BOOLEAN,
            tag : Nat]

(* The broker and the consumers.                                           *)
Transport ==
  /\ queueName \in BOOLEAN /\ bindings \subseteq EventName
  /\ queue \subseteq Message /\ unacked \subseteq Delivery
  /\ channel \in Channel
  /\ pools \in [Gen -> Seq(Delivery)]
  /\ consumer \in [Gen -> Consumer]
  /\ calls \in 0 .. MaxCalls /\ drops \in 0 .. MaxDrops
  /\ published \subseteq Message
  /\ outcome \in [Message -> Outcome]
  /\ acked \subseteq published
  /\ queue \subseteq published /\ (\A d \in unacked : d.msg \in published)

(* Who works has a delivery to work on, and who handles has a handler.     *)
Working ==
  \A g \in Gen :
    /\ consumer[g].at # "idle" => pools[g] # <<>>
    /\ consumer[g].at = "handle" => consumer[g].rest # <<>>

Types == Manager /\ TypedIsKnown /\ ApiOK /\ Transport /\ Working

LEMMA TypesGiveTypeOK == Types => TypeOK
<1> SUFFICES ASSUME Types PROVE TypeOK
  OBVIOUS
<1>1. api.at \in {"idle", "bind", "add", "type", "consume", "unbind", "clear", "disposed"}
  <2>1. CASE api \in {NoCall, Disposed, [at |-> "clear"]}
    BY <2>1 DEF NoCall, Disposed
  <2>2. CASE api \in SubscribeCall
    BY <2>2 DEF SubscribeCall
  <2>3. CASE api \in [at : {"unbind"}, name : EventName]
    BY <2>3
  <2> QED BY <2>1, <2>2, <2>3 DEF Types, ApiOK
<1> QED BY <1>1 DEF Types, Manager, Transport, TypeOK, Channel, Consumer

LEMMA TypesInit == Init => Types
<1> SUFFICES ASSUME Init PROVE Types
  OBVIOUS
<1>1. Manager /\ TypedIsKnown
  BY DEF Init, ManagerInit, Manager, TypedIsKnown, ToSet
<1>2. ApiOK
  BY DEF Init, ApiOK, NoCall
<1>3. Transport
  BY BusAssumption DEF BusAssumption, Init, Transport, Channel, Consumer, Gen,
     Resting, Outcome
<1>4. Working
  BY DEF Init, Working, Resting
<1> QED BY <1>1, <1>2, <1>3, <1>4 DEF Types

(* The first delivery of a pool that has one.                              *)
LEMMA CurrentTyped ==
  ASSUME Transport, NEW g \in Gen, pools[g] # <<>>
  PROVE  /\ Current(g) \in Delivery /\ Current(g).msg \in Message
         /\ NameOfCurrent(g) \in EventName /\ Current(g).tag \in Nat
         /\ Tail(pools[g]) \in Seq(Delivery)
<1>1. pools[g] \in Seq(Delivery)
  BY DEF Transport
<1>2. Current(g) \in Delivery /\ Tail(pools[g]) \in Seq(Delivery)
  BY <1>1, HeadTailProperties DEF Current
<1> QED BY <1>2, BusAssumption DEF BusAssumption, NameOfCurrent, Delivery

(* What an action leaves alone.                                            *)
LEMMA NotedTyped ==
  ASSUME Transport, NEW n, NoteModified(n)
  PROVE  /\ consumer' \in [Gen -> Consumer]
         /\ \A g \in Gen : /\ consumer'[g].at = consumer[g].at
                           /\ consumer'[g].rest = consumer[g].rest
<1>1. \A g \in Gen :
        /\ consumer[g] \in Consumer
        /\ consumer'[g] = IF consumer[g].at \in {"next", "handle"}
                              /\ NameOfCurrent(g) = n
                            THEN [consumer[g] EXCEPT !.modified = TRUE]
                            ELSE consumer[g]
      /\ DOMAIN consumer' = Gen
  BY DEF Transport, NoteModified
<1>2. ASSUME NEW g \in Gen
      PROVE  /\ consumer'[g] \in Consumer /\ consumer'[g].at = consumer[g].at
             /\ consumer'[g].rest = consumer[g].rest
  BY <1>1 DEF Consumer
<1>3. consumer' = [g \in Gen |-> consumer'[g]]
  BY DEF NoteModified
<1> QED BY <1>2, <1>3

LEMMA NoteWhat ==
  ASSUME Transport, NEW n, NoteModified(n), NEW g \in Gen
  PROVE  /\ consumer'[g].at = consumer[g].at /\ consumer'[g].rest = consumer[g].rest
         /\ consumer[g].modified => consumer'[g].modified
         /\ consumer[g].at \in {"next", "handle"} /\ NameOfCurrent(g) = n
              => consumer'[g].modified
<1>1. /\ consumer[g] \in Consumer
      /\ consumer'[g] = IF consumer[g].at \in {"next", "handle"}
                            /\ NameOfCurrent(g) = n
                          THEN [consumer[g] EXCEPT !.modified = TRUE]
                          ELSE consumer[g]
  BY DEF Transport, NoteModified
<1> QED BY <1>1 DEF Consumer

LEMMA EndsTyped ==
  ASSUME Transport, NEW g \in Gen, pools[g] # <<>>, NEW how \in Outcome,
         Ends(g, how)
  PROVE  /\ consumer' \in [Gen -> Consumer] /\ outcome' \in [Message -> Outcome]
         /\ consumer'[g].at = "ack" /\ outcome'[Current(g).msg] = how
         /\ \A k \in Gen \ {g} : consumer'[k] = consumer[k]
         /\ \A m \in Message : outcome'[m] \in {outcome[m], how}
<1>1. Current(g).msg \in Message
  BY CurrentTyped
<1>2. /\ [Resting EXCEPT !.at = "ack"] \in Consumer
      /\ [Resting EXCEPT !.at = "ack"].at = "ack"
  <2>1. <<>> \in Seq(SubscriptionInfo)
    OBVIOUS
  <2>2. Resting \in Consumer
    BY <2>1 DEF Resting, Consumer
  <2> QED BY <2>2 DEF Consumer
<1> QED BY <1>1, <1>2 DEF Transport, Ends

(* A channel that closes: what it had not acknowledged is ready again.     *)
LEMMA ClosingTyped ==
  ASSUME Transport, published' = published,
         channel' \in {channel, [channel EXCEPT !.open = FALSE]},
         queue' \in {queue, queue \cup {d.msg : d \in unacked}},
         unacked' \subseteq unacked
  PROVE  /\ channel' \in Channel
         /\ queue' \subseteq Message /\ queue' \subseteq published'
         /\ unacked' \subseteq Delivery /\ \A d \in unacked' : d.msg \in published'
<1>1. channel' \in Channel
  BY DEF Transport, Channel
<1>2. queue' \subseteq published /\ published \subseteq Message
  BY DEF Transport
<1> QED BY <1>1, <1>2 DEF Transport

(* What a call is when it has got somewhere.                               *)
LEMMA CallParts ==
  ASSUME ApiOK
  PROVE  /\ api.at \in {"bind", "add", "type", "consume"} =>
              /\ api \in SubscribeCall /\ api.name \in EventName
              /\ api.handler \in HandlerType /\ api.isDynamic \in BOOLEAN
              /\ ~api.isDynamic => api.type \in EventType /\ api.name = NameOf[api.type]
         /\ api.at = "unbind" => api.name \in EventName
         /\ api.at = "type" => ~api.isDynamic
         /\ api = NoCall => api.at = "idle"
         /\ api.at = "idle" => api = NoCall
<1>1. CASE api \in {NoCall, Disposed, [at |-> "clear"]}
  BY <1>1 DEF NoCall, Disposed
<1>2. CASE api \in SubscribeCall
  <2>1. api.at \in {"bind", "add", "type", "consume"}
    BY <1>2 DEF SubscribeCall
  <2>2. api.name \in EventName /\ api.handler \in HandlerType
        /\ api.isDynamic \in BOOLEAN /\ (~api.isDynamic => api.type \in EventType)
    BY <1>2 DEF SubscribeCall, HandlerType
  <2> QED BY <1>2, <2>1, <2>2 DEF ApiOK, NoCall
<1>3. CASE api \in [at : {"unbind"}, name : EventName]
  <2>1. api.at = "unbind" /\ api.name \in EventName
    BY <1>3
  <2> QED BY <2>1 DEF NoCall
<1> QED BY <1>1, <1>2, <1>3 DEF ApiOK

(* A subscription that goes on keeps its arguments.                        *)
LEMMA CallMoves ==
  ASSUME ApiOK, NEW label \in {"add", "type", "consume"},
         api.at \in {"bind", "add", "type", "consume"}, api' = [api EXCEPT !.at = label],
         label = "type" => ~api.isDynamic
  PROVE  /\ ApiOK' /\ api'.at = label /\ api'.name = api.name
<1>1. api \in SubscribeCall
  BY CallParts
<1>2. /\ api' \in SubscribeCall /\ api'.at = label /\ api'.name = api.name
      /\ api'.isDynamic = api.isDynamic
      /\ ~api.isDynamic => api'.type = api.type
  BY <1>1 DEF SubscribeCall
<1> QED BY <1>2 DEF ApiOK

(* A call that was not between handler and type may go where it likes.     *)
LEMMA TypedKept ==
  ASSUME TypedIsKnown, UNCHANGED managerVars, api.at # "type"
  PROVE  TypedIsKnown'
BY DEF TypedIsKnown, managerVars, IsKnownEvent, Registering

(* One step per action.                                                    *)
LEMMA TypesStep == Types /\ [Next]_vars => Types'
<1> SUFFICES ASSUME Types, [Next]_vars PROVE Types'
  OBVIOUS
<1> USE DEF Types
<1>1. ASSUME NEW m \in Message, Publish(m) PROVE Types'
  BY <1>1 DEF Publish, managerVars, apiVars, Manager, TypedIsKnown, IsKnownEvent, Registering,
     ApiOK, Transport, Working
<1>2. ASSUME NEW m \in Message, Deliver(m) PROVE Types'
  <2> DEFINE d == [tag |-> channel.tag + 1, msg |-> m]
  <2>1. d \in Delivery /\ channel.gen \in Gen /\ channel.tag + 1 \in Nat /\ d.msg = m
    BY DEF Transport, Channel, Delivery
  <2>2. /\ m \in queue
        /\ pools' = [pools EXCEPT ![channel.gen] = Append(@, d)]
        /\ unacked' = unacked \cup {d}
        /\ channel' = [channel EXCEPT !.tag = d.tag] /\ queue' = queue \ {m}
        /\ UNCHANGED <<managerVars, apiVars, bindings, published, acked, consumer,
                      drops, outcome>>
    BY <1>2 DEF Deliver
  <2>3. Append(pools[channel.gen], d) \in Seq(Delivery)
        /\ Append(pools[channel.gen], d) # <<>>
    BY <2>1, AppendProperties DEF Transport
  <2>4. channel' \in Channel
    BY <2>1, <2>2 DEF Transport, Channel, Delivery
  <2> HIDE DEF d
  <2>5. pools' \in [Gen -> Seq(Delivery)]
        /\ \A g \in Gen : pools[g] # <<>> => pools'[g] # <<>>
    BY <2>1, <2>2, <2>3 DEF Transport
  <2>6. Transport' /\ Working'
    BY <2>1, <2>2, <2>4, <2>5 DEF Transport, Working, apiVars
  <2> QED BY <2>2, <2>6 DEF managerVars, apiVars, Manager, TypedIsKnown, IsKnownEvent, Registering, ApiOK
<1>3. ASSUME NEW t \in EventType, NEW h \in TypedHandler, Subscribe(t, h) PROVE Types'
  <2> DEFINE c == [at |-> FirstStep(NameOf[t]), name |-> NameOf[t], type |-> t,
                   handler |-> h, isDynamic |-> FALSE]
  <2>1. c \in SubscribeCall /\ c.name = NameOf[c.type] /\ ~c.isDynamic
    BY NameAssumption DEF NameAssumption, SubscribeCall, FirstStep
  <2>2. api' = c /\ calls' = calls + 1 /\ calls < MaxCalls
        /\ UNCHANGED <<managerVars, queueName, brokerVars, channel, pools, consumer,
                      drops, outcome>>
    BY <1>3 DEF Subscribe, Call
  <2> HIDE DEF c
  <2>3. Transport' /\ Working'
    BY <2>2, BusAssumption DEF BusAssumption, Transport, Working, brokerVars
  <2>4. TypedIsKnown'
    BY <1>3, CallParts, TypedKept DEF Subscribe, Call
  <2> QED BY <2>1, <2>2, <2>3, <2>4 DEF managerVars, Manager, ApiOK
<1>4. ASSUME NEW n \in EventName, NEW h \in DynamicHandler, SubscribeDynamic(n, h)
      PROVE  Types'
  <2> DEFINE c == [at |-> FirstStep(n), name |-> n, handler |-> h, isDynamic |-> TRUE]
  <2>1. c \in SubscribeCall /\ c.isDynamic /\ c.at # "type"
    BY DEF SubscribeCall, FirstStep
  <2>2. api' = c /\ calls' = calls + 1 /\ calls < MaxCalls
        /\ UNCHANGED <<managerVars, queueName, brokerVars, channel, pools, consumer,
                      drops, outcome>>
    BY <1>4 DEF SubscribeDynamic, Call
  <2> HIDE DEF c
  <2>3. Transport' /\ Working'
    BY <2>2, BusAssumption DEF BusAssumption, Transport, Working, brokerVars
  <2>4. TypedIsKnown'
    BY <1>4, CallParts, TypedKept DEF SubscribeDynamic, Call
  <2> QED BY <2>1, <2>2, <2>3, <2>4 DEF managerVars, Manager, ApiOK
<1>5. ASSUME NEW n \in EventName, NEW h \in HandlerType, Unsubscribe(n, h) PROVE Types'
  <2>1. /\ DoRemoveHandler(n, h) /\ NoteModified(n)
        /\ api' \in {[at |-> "unbind", name |-> n], NoCall}
        /\ calls' = calls + 1 /\ calls < MaxCalls
        /\ UNCHANGED <<queueName, brokerVars, channel, pools, drops, outcome>>
    BY <1>5 DEF Unsubscribe
  <2>2. Manager' /\ TypedIsKnown'
    <3>1. \A m \in EventName : ~Registering(m)
      BY <1>5, CallParts DEF Unsubscribe, Registering
    <3> QED BY <2>1, <3>1, RemoveProperties
  <2>3. /\ consumer' \in [Gen -> Consumer]
        /\ \A g \in Gen : /\ consumer'[g].at = consumer[g].at
                          /\ consumer'[g].rest = consumer[g].rest
    BY <2>1, NotedTyped
  <2>4. Transport' /\ Working'
    BY <2>1, <2>3, BusAssumption DEF BusAssumption, Transport, Working, brokerVars
  <2>5. ApiOK'
    BY <2>1 DEF ApiOK, NoCall
  <2> QED BY <2>2, <2>4, <2>5
<1>6. CASE QueueBind
  <2>1. /\ api.at = "bind"
        /\ \/ /\ bindings' = bindings \cup {api.name}
              /\ api' = [api EXCEPT !.at = "add"]
           \/ api' = NoCall /\ bindings' = bindings
        /\ UNCHANGED <<managerVars, calls, queueName, queue, unacked, published,
                      acked, channel, pools, consumer, drops, outcome>>
    BY <1>6 DEF QueueBind
  <2>2. ApiOK'
    BY <2>1, CallMoves DEF ApiOK, NoCall
  <2>3. Transport' /\ Working'
    BY <2>1, CallParts DEF Transport, Working
  <2> QED BY <2>1, <2>2, <2>3 DEF managerVars, Manager, TypedIsKnown, IsKnownEvent, Registering
<1>7. CASE Register
  <2>1. api.at = "add" /\ api.name \in EventName /\ api.handler \in HandlerType
        /\ api.isDynamic \in BOOLEAN
        /\ UNCHANGED <<calls, queueName, brokerVars, channel, pools, drops, outcome>>
    BY <1>7, CallParts DEF Register
  <2> DEFINE label == IF api.isDynamic THEN "consume" ELSE "type"
  <2>2. CASE /\ IF api.isDynamic
                  THEN AddDynamicSubscription(api.name, api.handler)
                  ELSE AddSubscription(api.name, api.handler)
             /\ NoteModified(api.name)
             /\ api' = [api EXCEPT !.at = label]
    <3>1. /\ ~IsSubscribed(api.name, api.handler)
          /\ DoAddSubscription(api.name, api.handler, api.isDynamic)
          /\ eventTypes' = eventTypes
      <4>1. CASE api.isDynamic
        <5>1. api.isDynamic = TRUE
          BY <2>1, <4>1
        <5> QED BY <2>2, <5>1 DEF AddDynamicSubscription
      <4>2. CASE ~api.isDynamic
        <5>1. api.isDynamic = FALSE
          BY <2>1, <4>2
        <5> QED BY <2>2, <5>1 DEF AddSubscription
      <4> QED BY <4>1, <4>2
    <3>2. ApiOK' /\ api'.at = label /\ api'.name = api.name
      BY <2>1, <2>2, CallMoves
    <3>3. Manager' /\ TypedIsKnown'
      <4>1. api.isDynamic \/ (api'.at = "type" /\ api'.name = api.name)
        BY <3>2
      <4>2. \A m \in EventName : ~Registering(m)
        BY <2>1 DEF Registering
      <4> QED BY <2>1, <3>1, <4>1, <4>2, AddProperties DEF Registering
    <3>4. Transport' /\ Working'
      BY <2>1, <2>2, NotedTyped DEF Transport, Working, brokerVars
    <3> QED BY <3>2, <3>3, <3>4
  <2>3. CASE api' = NoCall /\ UNCHANGED <<managerVars, consumer>>
    BY <2>1, <2>3 DEF managerVars, brokerVars, Manager, TypedIsKnown, IsKnownEvent, Registering,
       Registering, ApiOK, NoCall, Transport, Working
  <2> QED BY <1>7, <2>2, <2>3 DEF Register
<1>17. CASE RegisterType
  <2>1. /\ api.at = "type" /\ api.type \in EventType /\ api.name = NameOf[api.type]
        /\ eventTypes' = eventTypes \cup {api.type} /\ handlers' = handlers
        /\ api' = [api EXCEPT !.at = "consume"]
        /\ UNCHANGED <<calls, queueName, brokerVars, channel, pools, consumer, drops,
                      outcome>>
    BY <1>17, CallParts DEF RegisterType, AddEventType
  <2>2. ApiOK'
    BY <2>1, CallMoves
  <2>3. Manager' /\ TypedIsKnown'
    BY <2>1 DEF Manager, TypedIsKnown, IsKnownEvent, Registering
  <2>4. Transport' /\ Working'
    BY <2>1 DEF Transport, Working, brokerVars
  <2> QED BY <2>2, <2>3, <2>4
<1>8. CASE StartBasicConsume
  <2>1. channel' = [channel EXCEPT !.consuming = channel.open \/ @]
    BY <1>8 DEF StartBasicConsume
  <2>2. channel' \in Channel
    <3>1. channel \in Channel /\ (channel.open \/ channel.consuming) \in BOOLEAN
      BY DEF Transport, Channel
    <3> QED BY <2>1, <3>1 DEF Channel
  <2> QED BY <1>8, <2>2 DEF StartBasicConsume, managerVars, brokerVars, Manager,
             TypedIsKnown, IsKnownEvent,
     Registering, ApiOK, NoCall, Transport, Working
<1>9. CASE SubsManager_OnEventRemoved
  <2>1. /\ channel' \in {channel, [channel EXCEPT !.open = FALSE]}
        /\ queueName' \in {queueName, FALSE}
        /\ bindings' \subseteq bindings
        /\ queue' \in {queue, queue \cup {d.msg : d \in unacked}}
        /\ unacked' \subseteq unacked /\ api' = NoCall
        /\ UNCHANGED <<managerVars, calls, published, acked, pools, consumer, drops,
                      outcome>>
    BY <1>9 DEF SubsManager_OnEventRemoved, CloseWhenEmpty, Requeue
  <2>2. /\ channel' \in Channel
        /\ queue' \subseteq Message /\ queue' \subseteq published'
        /\ unacked' \subseteq Delivery /\ \A d \in unacked' : d.msg \in published'
    BY <2>1, ClosingTyped
  <2>3. Transport' /\ Working'
    BY <2>1, <2>2, BusAssumption DEF BusAssumption, Transport, Working, apiVars
  <2>4. TypedIsKnown'
    BY <1>9, TypedKept DEF SubsManager_OnEventRemoved
  <2> QED BY <2>1, <2>3, <2>4 DEF managerVars, Manager, ApiOK, NoCall
<1>10. CASE UnbindFails
  BY <1>10 DEF UnbindFails, managerVars, brokerVars, Manager, TypedIsKnown, IsKnownEvent,
     Registering, ApiOK, NoCall, Transport, Working
<1>11. CASE Dispose
  <2>1. /\ channel' = [channel EXCEPT !.open = FALSE]
        /\ queue' = queue \cup {d.msg : d \in unacked} /\ unacked' = {}
        /\ api' = [at |-> "clear"] /\ calls' = calls + 1 /\ calls < MaxCalls
        /\ drops' = drops + 1 /\ drops < MaxDrops
        /\ UNCHANGED <<managerVars, queueName, bindings, published, acked, pools,
                      consumer, outcome>>
    BY <1>11 DEF Dispose, Call, Requeue
  <2>2. /\ channel' \in Channel
        /\ queue' \subseteq Message /\ queue' \subseteq published'
        /\ unacked' \subseteq Delivery /\ \A d \in unacked' : d.msg \in published'
    BY <2>1, ClosingTyped
  <2>3. Transport' /\ Working'
    BY <2>1, <2>2, BusAssumption DEF BusAssumption, Transport, Working, apiVars
  <2>4. TypedIsKnown'
    BY <1>11, CallParts, TypedKept DEF Dispose, Call
  <2> QED BY <2>1, <2>3, <2>4 DEF managerVars, Manager, ApiOK
<1>12. CASE ClearAfterDispose
  <2>1. /\ handlers' = [n \in EventName |-> <<>>] /\ eventTypes' = eventTypes
        /\ api' = Disposed
        /\ UNCHANGED <<calls, queueName, brokerVars, channel, pools, consumer, drops,
                      outcome>>
    BY <1>12 DEF ClearAfterDispose, Clear
  <2>2. Manager' /\ TypedIsKnown'
    BY <2>1 DEF Manager, TypedIsKnown, ToSet
  <2> QED BY <2>1, <2>2 DEF brokerVars, ApiOK, Disposed, Transport, Working
<1>13. ASSUME NEW g \in Gen, Consumer_Received(g) \/ MoveNext(g) \/ Handle(g)
       PROVE  Types'
  <2>1. /\ pools[g] # <<>>
        /\ UNCHANGED <<managerVars, apiVars, brokerVars, channel, pools, drops>>
    BY <1>13 DEF Consumer_Received, MoveNext, Handle, Working
  <2>2. /\ consumer' \in [Gen -> Consumer] /\ outcome' \in [Message -> Outcome]
        /\ \A k \in Gen \ {g} : consumer'[k] = consumer[k]
        /\ consumer'[g].at = "handle" => consumer'[g].rest # <<>>
    <3>1. CASE \E how \in Outcome : Ends(g, how)
      BY <2>1, <3>1, EndsTyped
    <3>2. CASE Consumer_Received(g) /\ ~\E how \in Outcome : Ends(g, how)
      <4>1. /\ consumer' = [consumer EXCEPT ![g] =
                  [at |-> "next", rest |-> handlers[NameOfCurrent(g)], modified |-> FALSE]]
            /\ outcome' = outcome
        BY <3>2 DEF Consumer_Received, Outcome
      <4>2. [at |-> "next", rest |-> handlers[NameOfCurrent(g)], modified |-> FALSE]
              \in Consumer
        BY <2>1, CurrentTyped DEF Manager, Consumer
      <4> QED BY <4>1, <4>2 DEF Transport
    <3>3. CASE (MoveNext(g) \/ Handle(g)) /\ ~\E how \in Outcome : Ends(g, how)
      <4>1. /\ \/ consumer' = [consumer EXCEPT ![g].at = "handle"]
               \/ consumer' = [consumer EXCEPT ![g].rest = Tail(@)]
                  /\ consumer[g].at = "next"
               \/ consumer' = [consumer EXCEPT ![g].at = "next", ![g].rest = Tail(@)]
            /\ consumer[g].rest # <<>>
            /\ outcome' = outcome
        BY <3>3 DEF MoveNext, Handle, Outcome, Working
      <4>2. consumer[g] \in Consumer
        BY DEF Transport
      <4>3. Tail(consumer[g].rest) \in Seq(SubscriptionInfo)
        BY <4>1, <4>2, HeadTailProperties DEF Consumer
      <4>4. PICK c \in Consumer :
              /\ consumer' = [consumer EXCEPT ![g] = c]
              /\ c.at = "handle" => c.rest # <<>>
        <5>1. CASE consumer' = [consumer EXCEPT ![g].at = "handle"]
          <6>1. /\ [consumer[g] EXCEPT !.at = "handle"] \in Consumer
                /\ [consumer[g] EXCEPT !.at = "handle"].rest = consumer[g].rest
            BY <4>2 DEF Consumer
          <6> QED BY <4>1, <5>1, <6>1
        <5>2. CASE /\ consumer' = [consumer EXCEPT ![g].rest = Tail(@)]
                   /\ consumer[g].at = "next"
          <6>1. /\ [consumer[g] EXCEPT !.rest = Tail(@)] \in Consumer
                /\ [consumer[g] EXCEPT !.rest = Tail(@)].at = "next"
            BY <4>2, <4>3, <5>2 DEF Consumer
          <6> QED BY <5>2, <6>1
        <5>3. CASE consumer' = [consumer EXCEPT ![g].at = "next", ![g].rest = Tail(@)]
          <6> DEFINE between == [consumer EXCEPT ![g].at = "next"]
                     c == [between[g] EXCEPT !.rest = Tail(@)]
          <6>1. /\ DOMAIN between = Gen /\ between[g] = [consumer[g] EXCEPT !.at = "next"]
                /\ \A k \in Gen \ {g} : between[k] = consumer[k]
            BY DEF Transport
          <6>2. /\ between[g] \in Consumer /\ between[g].at = "next"
                /\ between[g].rest = consumer[g].rest
            BY <4>2, <6>1 DEF Consumer
          <6>3. consumer' = [between EXCEPT ![g].rest = Tail(@)]
            BY <5>3
          <6>4. c \in Consumer /\ c.at = "next"
            <7> HIDE DEF between
            <7> QED BY <4>3, <6>2 DEF Consumer
          <6>5. consumer' = [between EXCEPT ![g] = c]
            BY <6>3
          <6> HIDE DEF c, between
          <6>6. consumer' = [consumer EXCEPT ![g] = c]
            BY <6>1, <6>5 DEF Transport
          <6> QED BY <6>4, <6>6
        <5> QED BY <4>1, <5>1, <5>2, <5>3
      <4> QED BY <4>1, <4>4 DEF Transport
    <3> QED BY <1>13, <3>1, <3>2, <3>3
  <2>3. Transport' /\ Working'
    BY <2>1, <2>2 DEF Transport, Working, brokerVars, apiVars
  <2> QED BY <2>1, <2>3 DEF managerVars, apiVars, Manager, TypedIsKnown, IsKnownEvent, Registering,
             ApiOK
<1>14. ASSUME NEW g \in Gen, BasicAck(g) \/ RecreateConsumerChannel(g) PROVE Types'
  <2>1. /\ Done(g) /\ pools[g] # <<>>
        /\ UNCHANGED <<managerVars, apiVars, bindings, published, drops, outcome>>
    BY <1>14 DEF BasicAck, RecreateConsumerChannel, Working, brokerVars
  <2>2. /\ consumer' \in [Gen -> Consumer] /\ consumer'[g].at = "idle"
        /\ pools' \in [Gen -> Seq(Delivery)]
        /\ \A k \in Gen \ {g} : consumer'[k] = consumer[k] /\ pools'[k] = pools[k]
    <3>1. Tail(pools[g]) \in Seq(Delivery)
      BY <2>1, CurrentTyped
    <3>2. <<>> \in Seq(SubscriptionInfo)
      OBVIOUS
    <3>3. Resting \in Consumer /\ Resting.at = "idle"
      BY <3>2 DEF Resting, Consumer
    <3> QED BY <2>1, <3>1, <3>3 DEF Done, Transport
  <2>3. /\ channel' \in Channel
        /\ unacked' \subseteq unacked
        /\ queue' \in {queue, queue \cup {d.msg : d \in unacked}}
        /\ acked' \in {acked, acked \cup {d.msg : d \in
                         {e \in unacked : e.tag = Current(g).tag}}}
    <3>1. CASE BasicAck(g)
      BY <3>1 DEF BasicAck, Requeue, Transport, Channel
    <3>2. CASE RecreateConsumerChannel(g)
      <4>1. channel' = [gen |-> channel.gen + 1, open |-> TRUE, main |-> queueName,
                        consuming |-> TRUE, tag |-> 0]
            /\ channel.gen < MaxGen /\ UNCHANGED brokerVars
        BY <3>2 DEF RecreateConsumerChannel
      <4>2. channel.gen + 1 \in Gen /\ queueName \in BOOLEAN
        BY <4>1, BusAssumption DEF BusAssumption, Transport, Channel, Gen
      <4> QED BY <4>1, <4>2 DEF Channel, brokerVars
    <3> QED BY <1>14, <3>1, <3>2
  <2>4. Transport' /\ Working'
    BY <2>1, <2>2, <2>3 DEF Transport, Working, apiVars, Delivery
  <2> QED BY <2>1, <2>4 DEF managerVars, apiVars, Manager, TypedIsKnown, IsKnownEvent, Registering,
             ApiOK
<1>15. CASE ChannelDrops
  <2>1. /\ channel' = [channel EXCEPT !.open = FALSE]
        /\ queue' = queue \cup {d.msg : d \in unacked} /\ unacked' = {}
        /\ drops' = drops + 1 /\ drops < MaxDrops
        /\ UNCHANGED <<managerVars, apiVars, bindings, published, acked, pools,
                      consumer, outcome>>
    BY <1>15 DEF ChannelDrops, Requeue
  <2>2. /\ channel' \in Channel
        /\ queue' \subseteq Message /\ queue' \subseteq published'
        /\ unacked' \subseteq Delivery /\ \A d \in unacked' : d.msg \in published'
    BY <2>1, ClosingTyped
  <2>3. Transport' /\ Working'
    BY <2>1, <2>2, BusAssumption DEF BusAssumption, Transport, Working, apiVars
  <2> QED BY <2>1, <2>3 DEF managerVars, apiVars, Manager, TypedIsKnown, IsKnownEvent, Registering,
             ApiOK
<1>16. CASE UNCHANGED vars
  BY <1>16 DEF vars, Manager, TypedIsKnown, IsKnownEvent, Registering, ApiOK, Transport, Working
<1> QED
  <2>1. CASE Next
    BY <2>1, <1>1, <1>2, <1>3, <1>4, <1>5, <1>6, <1>7, <1>8, <1>9, <1>10, <1>11,
       <1>12, <1>13, <1>14, <1>15, <1>16, <1>17 DEF Next, CallGoesOn, Consume, Waits
  <2> QED BY <2>1, <1>16
-----------------------------------------------------------------------------
(* The calls: what is subscribed is bound at every point of a call, and a  *)
(* bus without a queue has no handlers and will get none.                  *)
Bound ==
  /\ SubscribedIsBound
  /\ api.at = "add" => api.name \in bindings
  /\ api.at = "unbind" => handlers[api.name] = <<>>

Emptied == ~queueName => IsEmpty /\ api.at \notin {"add", "type", "consume"}

Calls == Bound /\ Emptied

LEMMA CallsInit == Init => Calls
BY DEF Init, ManagerInit, NoCall, Calls, Bound, Emptied, SubscribedIsBound,
   IsEmpty, HasSubscriptionsForEvent

LEMMA CallsStep == Types /\ Calls /\ [Next]_vars => Calls'
<1> SUFFICES ASSUME Types, Calls, [Next]_vars PROVE Calls'
  OBVIOUS
<1> USE DEF Calls, Bound, Emptied, SubscribedIsBound, IsEmpty, HasSubscriptionsForEvent
<1>1. ASSUME UNCHANGED <<managerVars, apiVars, bindings>> PROVE Calls'
  BY <1>1 DEF managerVars, apiVars
<1>2. ASSUME NEW n \in EventName,
             api'.at = FirstStep(n), api'.name = n,
             UNCHANGED <<managerVars, bindings, queueName>>
      PROVE  Calls'
  BY <1>2 DEF managerVars, FirstStep
<1>3. ASSUME NEW t \in EventType, NEW h \in TypedHandler, Subscribe(t, h) PROVE Calls'
  <2>1. NameOf[t] \in EventName
    BY NameAssumption DEF NameAssumption
  <2> QED BY <1>2, <1>3, <2>1 DEF Subscribe, Call, brokerVars
<1>4. ASSUME NEW n \in EventName, NEW h \in DynamicHandler, SubscribeDynamic(n, h)
      PROVE  Calls'
  BY <1>2, <1>4 DEF SubscribeDynamic, Call, brokerVars
<1>5. ASSUME NEW n \in EventName, NEW h \in HandlerType, Unsubscribe(n, h) PROVE Calls'
  <2>1. /\ handlers[n] # <<>>
        /\ \A m \in EventName \ {n} : handlers'[m] = handlers[m]
    <3>1. \A m \in EventName : ~Registering(m)
      BY <1>5, CallParts DEF Unsubscribe, Registering, Types
    <3> QED BY <1>5, <3>1, RemoveProperties DEF Unsubscribe, Types
  <2>2. /\ api' = IF handlers'[n] = <<>> THEN [at |-> "unbind", name |-> n] ELSE NoCall
        /\ bindings' = bindings /\ queueName' = queueName
    BY <1>5 DEF Unsubscribe, brokerVars
  <2> QED BY <2>1, <2>2 DEF NoCall
<1>6. CASE QueueBind
  <2>1. api.at = "bind" /\ ApiOK /\ api.name \in EventName
    BY <1>6, CallParts DEF QueueBind, Types
  <2>2. CASE queueName
    <3>1. /\ bindings' = bindings \cup {api.name} /\ handlers' = handlers
          /\ queueName' = queueName /\ api'.at = "add" /\ api'.name = api.name
      BY <1>6, <2>1, <2>2, CallMoves DEF QueueBind, managerVars
    <3> QED BY <2>2, <3>1
  <2>3. CASE ~queueName
    BY <1>6, <2>3 DEF QueueBind, managerVars, NoCall
  <2> QED BY <2>2, <2>3
<1>7. CASE Register
  <2>1. /\ api.at = "add" /\ api.name \in bindings /\ queueName
        /\ ApiOK /\ bindings' = bindings /\ queueName' = queueName
    BY <1>7 DEF Register, Types, brokerVars
  <2>2. CASE api' = NoCall /\ UNCHANGED managerVars
    BY <2>1, <2>2 DEF managerVars, NoCall
  <2>3. CASE /\ IF api.isDynamic
                  THEN AddDynamicSubscription(api.name, api.handler)
                  ELSE AddSubscription(api.name, api.handler)
             /\ api' = [api EXCEPT !.at = IF api.isDynamic THEN "consume" ELSE "type"]
    <3>1. api'.at \in {"type", "consume"}
      BY <2>1, <2>3, CallMoves
    <3>2. api.name \in EventName
      BY <2>1, CallParts
    <3>3. \A m \in EventName \ {api.name} : handlers'[m] = handlers[m]
      BY <2>3, <3>2 DEF AddDynamicSubscription, AddSubscription, DoAddSubscription,
         Types, Manager
    <3> QED BY <2>1, <3>1, <3>3
  <2> QED BY <1>7, <2>2, <2>3 DEF Register
<1>17. CASE RegisterType
  <2>1. /\ api.at = "type" /\ ApiOK /\ api' = [api EXCEPT !.at = "consume"]
        /\ UNCHANGED <<handlers, bindings, queueName>>
    BY <1>17 DEF RegisterType, AddEventType, Types, brokerVars
  <2>2. api'.at = "consume"
    BY <2>1, CallMoves
  <2> QED BY <2>1, <2>2
<1>8. CASE StartBasicConsume
  BY <1>8 DEF StartBasicConsume, managerVars, brokerVars, NoCall
<1>9. CASE SubsManager_OnEventRemoved
  <2>1. /\ api.at = "unbind" /\ bindings' = bindings \ {api.name} /\ api' = NoCall
        /\ handlers' = handlers /\ (queueName' = queueName \/ IsEmpty)
    BY <1>9 DEF SubsManager_OnEventRemoved, managerVars
  <2> QED BY <2>1 DEF NoCall
<1>10. CASE UnbindFails
  BY <1>10 DEF UnbindFails, managerVars, brokerVars, NoCall
<1>11. CASE Dispose
  BY <1>11 DEF Dispose, Call, managerVars
<1>12. CASE ClearAfterDispose
  BY <1>12 DEF ClearAfterDispose, Clear, brokerVars, Disposed
<1>13. ASSUME NEW m \in Message, Publish(m) \/ Deliver(m) PROVE Calls'
  BY <1>1, <1>13 DEF Publish, Deliver
<1>14. ASSUME NEW g \in Gen, Consume(g) PROVE Calls'
  BY <1>1, <1>14 DEF Consume, Consumer_Received, MoveNext, Handle, BasicAck,
     RecreateConsumerChannel, brokerVars
<1>15. CASE ChannelDrops
  BY <1>1, <1>15 DEF ChannelDrops
<1>16. CASE UNCHANGED vars
  BY <1>1, <1>16 DEF vars, managerVars, apiVars
<1> QED
  <2>1. CASE Next
    BY <2>1, <1>3, <1>4, <1>5, <1>6, <1>7, <1>8, <1>9, <1>10, <1>11, <1>12, <1>13,
       <1>14, <1>15, <1>16, <1>17 DEF Next, CallGoesOn, Waits
  <2> QED BY <2>1, <1>16
-----------------------------------------------------------------------------
(* The first channel: the tags of its pool grow, a tag stands for one      *)
(* delivery, and who acknowledges has processed.                           *)
Pool == pools[1]

First ==
  channel.gen = 1 =>
    /\ \A g \in Gen \ {1} : pools[g] = <<>>
    /\ \A d \in unacked : d.tag <= channel.tag
    /\ \A i \in DOMAIN Pool : Pool[i].tag <= channel.tag
    /\ \A i, j \in DOMAIN Pool : i < j => Pool[i].tag < Pool[j].tag
    /\ \A d \in unacked, i \in DOMAIN Pool : d.tag = Pool[i].tag => d = Pool[i]
    /\ consumer[1].at = "ack" => outcome[Current(1).msg] # "none"
    /\ \A m \in acked : outcome[m] # "none"

(* As long as nobody else closes a channel and the bus has a queue, it is  *)
(* on that first channel, and the broker waits for all that is in work.    *)
InOrder ==
  drops = 0 /\ queueName =>
    /\ channel.gen = 1 /\ channel.open /\ channel.main
    /\ \A i \in DOMAIN Pool : Pool[i] \in unacked
    /\ ~IsEmpty /\ api.at \notin {"type", "consume"} => channel.consuming

Order == First /\ InOrder

LEMMA OrderInit == Init => Order
<1> SUFFICES ASSUME Init PROVE Order
  OBVIOUS
<1>1. 1 \in Gen
  BY BusAssumption DEF BusAssumption, Gen
<1>2. Pool = <<>> /\ DOMAIN Pool = {}
  BY <1>1 DEF Init, Pool
<1> QED BY <1>1, <1>2 DEF Init, ManagerInit, Order, First, InOrder, Resting, IsEmpty,
           HasSubscriptionsForEvent

(* The messages that become ready when a channel closes are not in work.   *)
LEMMA OrderClosing ==
  ASSUME Types, Order, unacked' = {}, channel' = [channel EXCEPT !.open = FALSE],
         drops' # 0 \/ ~queueName', UNCHANGED <<pools, consumer, acked, outcome>>
  PROVE  Order'
<1>1. channel'.gen = channel.gen /\ channel'.tag = channel.tag
  BY DEF Types, Transport, Channel
<1>2. InOrder'
  BY DEF InOrder
<1>3. First'
  BY <1>1 DEF Order, First, Pool, Current
<1> QED BY <1>2, <1>3 DEF Order

(* Calls that leave broker, channel and consumers alone.                   *)
LEMMA OrderCalls ==
  ASSUME Order,
         UNCHANGED <<queueName, unacked, acked, channel, pools, drops, outcome>>,
         \A g \in Gen : consumer'[g].at = consumer[g].at,
         ~IsEmpty' /\ api'.at \notin {"type", "consume"}
            => ~IsEmpty /\ api.at \notin {"type", "consume"}
  PROVE  Order'
<1>1. 1 \in Gen
  BY BusAssumption DEF BusAssumption, Gen
<1> QED BY <1>1 DEF Order, First, InOrder, Pool, Current

LEMMA OrderStep == Types /\ Calls /\ Order /\ [Next]_vars => Order'
<1> SUFFICES ASSUME Types, Calls, Order, [Next]_vars PROVE Order'
  OBVIOUS
<1> USE DEF Types
<1>0. 1 \in Gen /\ Gen \subseteq Nat
  BY BusAssumption DEF BusAssumption, Gen
<1>1. ASSUME NEW m \in Message, Publish(m) PROVE Order'
  BY <1>1, OrderCalls DEF Publish, managerVars, apiVars, IsEmpty, HasSubscriptionsForEvent
<1>2. ASSUME NEW m \in Message, Deliver(m) PROVE Order'
  <2> DEFINE d == [tag |-> channel.tag + 1, msg |-> m]
  <2>1. /\ channel.open /\ channel.consuming /\ channel.main
        /\ pools' = [pools EXCEPT ![channel.gen] = Append(@, d)]
        /\ unacked' = unacked \cup {d}
        /\ channel' = [channel EXCEPT !.tag = d.tag]
        /\ UNCHANGED <<managerVars, apiVars, acked, consumer, drops, outcome>>
    BY <1>2 DEF Deliver
  <2>2. /\ channel.gen \in Gen /\ channel.tag \in Nat
        /\ d.tag = channel.tag + 1 /\ d.msg = m /\ d \in Delivery
    BY DEF Transport, Channel, Delivery
  <2>3. /\ channel'.tag = channel.tag + 1 /\ channel'.gen = channel.gen
        /\ channel'.open = channel.open /\ channel'.main = channel.main
        /\ channel'.consuming = channel.consuming
    BY <2>1, <2>2 DEF Transport, Channel
  <2> HIDE DEF d
  <2>4. CASE channel.gen # 1
    BY <2>1, <2>3, <2>4 DEF Order, First, InOrder, apiVars
  <2>5. CASE channel.gen = 1
    <3>1. Pool \in Seq(Delivery) /\ Pool' = Append(Pool, d)
      BY <1>0, <2>1, <2>5 DEF Transport, Pool
    <3>2. /\ Len(Pool) \in Nat /\ DOMAIN Pool = 1 .. Len(Pool)
          /\ DOMAIN Pool' = 1 .. Len(Pool) + 1
          /\ \A i \in 1 .. Len(Pool) : Pool'[i] = Pool[i] /\ Pool[i] \in Delivery
          /\ Pool'[Len(Pool) + 1] = d
      BY <2>2, <3>1, AppendProperties, ElementOfSeq
    <3>3. \A e \in unacked : e.tag \in Nat /\ e.tag <= channel.tag
      BY <2>5 DEF Order, First, Transport, Delivery
    <3>4. \A i \in 1 .. Len(Pool) : Pool[i].tag \in Nat /\ Pool[i].tag <= channel.tag
      BY <2>5, <3>2 DEF Order, First, Delivery
    <3>5. \A g \in Gen \ {1} : pools'[g] = <<>>
      BY <2>1, <2>5 DEF Transport, Order, First
    <3>6. \A e \in unacked' : e.tag <= channel'.tag
      BY <2>1, <2>2, <2>3, <3>3
    <3>7. \A i \in DOMAIN Pool' : Pool'[i].tag <= channel'.tag
      BY <2>2, <2>3, <3>2, <3>4
    <3>8. ASSUME NEW i \in DOMAIN Pool', NEW j \in DOMAIN Pool', i < j
          PROVE  Pool'[i].tag < Pool'[j].tag
      <4>1. CASE j = Len(Pool) + 1
        BY <2>2, <3>2, <3>4, <3>8, <4>1
      <4>2. CASE j # Len(Pool) + 1
        <5>1. i \in DOMAIN Pool /\ j \in DOMAIN Pool
          BY <3>2, <3>8, <4>2
        <5> QED BY <2>5, <3>2, <3>8, <5>1 DEF Order, First
      <4> QED BY <4>1, <4>2
    <3>9. ASSUME NEW e \in unacked', NEW i \in DOMAIN Pool', e.tag = Pool'[i].tag
          PROVE  e = Pool'[i]
      <4>1. CASE e = d
        BY <2>2, <3>2, <3>4, <3>9, <4>1
      <4>2. CASE e # d
        <5>1. e \in unacked /\ i \in DOMAIN Pool
          BY <2>1, <2>2, <3>2, <3>3, <3>9, <4>2
        <5> QED BY <2>5, <3>2, <3>9, <5>1 DEF Order, First
      <4> QED BY <4>1, <4>2
    <3>10. consumer'[1].at = "ack" => outcome'[Current(1)'.msg] # "none"
      <4> SUFFICES ASSUME consumer'[1].at = "ack" PROVE outcome'[Current(1)'.msg] # "none"
        OBVIOUS
      <4>1. Pool # <<>>
        BY <1>0, <2>1 DEF Working, Pool
      <4>2. Head(Pool') = Head(Pool)
        BY <3>1, <3>2, <4>1
      <4> QED BY <2>1, <2>5, <4>2 DEF Order, First, Current, Pool
    <3>11. \A k \in acked' : outcome'[k] # "none"
      BY <2>1, <2>5 DEF Order, First
    <3>12. \A i \in DOMAIN Pool' : drops = 0 /\ queueName => Pool'[i] \in unacked'
      BY <2>1, <3>2 DEF Order, InOrder
    <3> QED BY <2>1, <2>3, <3>5, <3>6, <3>7, <3>8, <3>9, <3>10, <3>11, <3>12
            DEF Order, First, InOrder, apiVars
  <2> QED BY <2>4, <2>5
<1>3. ASSUME NEW t \in EventType, NEW h \in TypedHandler, Subscribe(t, h) PROVE Order'
  BY <1>3, OrderCalls DEF Subscribe, Call, NoCall, managerVars, brokerVars, IsEmpty,
     HasSubscriptionsForEvent
<1>4. ASSUME NEW n \in EventName, NEW h \in DynamicHandler, SubscribeDynamic(n, h)
      PROVE  Order'
  BY <1>4, OrderCalls DEF SubscribeDynamic, Call, NoCall, managerVars, brokerVars, IsEmpty,
     HasSubscriptionsForEvent
<1>5. ASSUME NEW n \in EventName, NEW h \in HandlerType, Unsubscribe(n, h) PROVE Order'
  <2>1. handlers[n] # <<>> /\ (\A g \in Gen : consumer'[g].at = consumer[g].at)
    <3>1. \A m \in EventName : ~Registering(m)
      BY <1>5, CallParts DEF Unsubscribe, Registering
    <3> QED BY <1>5, <3>1, RemoveProperties, NotedTyped DEF Unsubscribe
  <2>2. api.at \notin {"type", "consume"} /\ ~IsEmpty
    BY <1>5, <2>1 DEF Unsubscribe, NoCall, IsEmpty, HasSubscriptionsForEvent
  <2> QED BY <1>5, <2>1, <2>2, OrderCalls DEF Unsubscribe, brokerVars
<1>6. CASE QueueBind
  <2>1. api.at = "bind"
    BY <1>6 DEF QueueBind
  <2> QED BY <1>6, <2>1, OrderCalls DEF QueueBind, managerVars, IsEmpty,
             HasSubscriptionsForEvent
<1>7. CASE Register
  <2>1. api.at = "add" /\ ApiOK
    BY <1>7 DEF Register
  <2>2. CASE api' = NoCall /\ UNCHANGED <<managerVars, consumer>>
    BY <1>7, <2>1, <2>2, OrderCalls DEF Register, managerVars, brokerVars, IsEmpty,
       HasSubscriptionsForEvent
  <2>3. CASE /\ NoteModified(api.name)
             /\ api' = [api EXCEPT !.at = IF api.isDynamic THEN "consume" ELSE "type"]
    <3>1. api'.at \in {"type", "consume"} /\ (\A g \in Gen : consumer'[g].at = consumer[g].at)
      BY <2>1, <2>3, CallMoves, NotedTyped
    <3> QED BY <1>7, <3>1, OrderCalls DEF Register, brokerVars
  <2> QED BY <1>7, <2>2, <2>3 DEF Register
<1>18. CASE RegisterType
  <2>1. api.at = "type" /\ ApiOK /\ handlers' = handlers
        /\ api' = [api EXCEPT !.at = "consume"]
    BY <1>18 DEF RegisterType, AddEventType
  <2>2. api'.at = "consume"
    BY <2>1, CallMoves
  <2> QED BY <1>18, <2>1, <2>2, OrderCalls DEF RegisterType, brokerVars
<1>8. CASE StartBasicConsume
  <2>1. /\ channel' = [channel EXCEPT !.consuming = channel.open \/ @]
        /\ UNCHANGED <<managerVars, calls, queueName, brokerVars, pools, consumer, drops,
                      outcome>>
    BY <1>8 DEF StartBasicConsume
  <2>2. /\ channel'.gen = channel.gen /\ channel'.open = channel.open
        /\ channel'.main = channel.main /\ channel'.tag = channel.tag
        /\ channel'.consuming = (channel.open \/ channel.consuming)
    BY <2>1 DEF Transport, Channel
  <2> QED BY <2>1, <2>2 DEF Order, First, InOrder, Pool, Current, brokerVars
<1>9. CASE SubsManager_OnEventRemoved
  <2>1. CASE IsEmpty
    BY <1>9, <2>1, OrderClosing DEF SubsManager_OnEventRemoved, CloseWhenEmpty, Requeue
  <2>2. CASE ~IsEmpty
    BY <1>9, <2>2, OrderCalls DEF SubsManager_OnEventRemoved, managerVars
  <2> QED BY <2>1, <2>2
<1>10. CASE UnbindFails
  BY <1>10, OrderCalls DEF UnbindFails, managerVars, brokerVars, IsEmpty,
     HasSubscriptionsForEvent
<1>11. CASE Dispose
  <2>1. drops' # 0
    BY <1>11 DEF Dispose, Transport
  <2> QED BY <1>11, <2>1, OrderClosing DEF Dispose, Requeue
<1>12. CASE ClearAfterDispose
  <2>1. IsEmpty'
    BY <1>12 DEF ClearAfterDispose, Clear, IsEmpty, HasSubscriptionsForEvent
  <2> QED BY <1>12, <2>1, OrderCalls DEF ClearAfterDispose, brokerVars
<1>13. ASSUME NEW g \in Gen, Consumer_Received(g) \/ MoveNext(g) \/ Handle(g)
       PROVE  Order'
  <2>1. /\ pools[g] # <<>>
        /\ UNCHANGED <<managerVars, apiVars, brokerVars, channel, pools, drops>>
    BY <1>13 DEF Consumer_Received, MoveNext, Handle, Working
  <2>2. InOrder'
    BY <2>1 DEF Order, InOrder, Pool, IsEmpty, HasSubscriptionsForEvent, managerVars,
       apiVars, brokerVars
  <2>3. CASE \E how \in Outcome \ {"none"} : Ends(g, how)
    <3>1. PICK how \in Outcome \ {"none"} : Ends(g, how)
      BY <2>3
    <3>2. /\ outcome'[Current(g).msg] = how
          /\ \A k \in Gen \ {g} : consumer'[k] = consumer[k]
          /\ \A m \in Message : outcome'[m] \in {outcome[m], how}
      BY <2>1, <3>1, EndsTyped
    <3>3. CASE channel.gen # 1
      BY <2>1, <2>2, <3>3 DEF Order, First
    <3>4. CASE channel.gen = 1
      <4>1. g = 1
        BY <2>1, <3>4 DEF Order, First
      <4>2. acked \subseteq Message
        BY DEF Transport
      <4>3. Current(1)' = Current(1)
        BY <2>1 DEF Current
      <4> QED BY <2>1, <2>2, <3>1, <3>2, <3>4, <4>1, <4>2, <4>3
              DEF Order, First, Pool, brokerVars
    <3> QED BY <3>3, <3>4
  <2>4. CASE ~\E how \in Outcome \ {"none"} : Ends(g, how)
    <3>1. outcome' = outcome /\ consumer'[g].at # "ack"
          /\ \A k \in Gen \ {g} : consumer'[k] = consumer[k]
      <4>1. consumer[g] \in Consumer /\ g \in DOMAIN consumer
        BY DEF Transport
      <4>2. CASE Consumer_Received(g)
        <5>1. /\ consumer' = [consumer EXCEPT ![g] =
                    [at |-> "next", rest |-> handlers[NameOfCurrent(g)], modified |-> FALSE]]
              /\ outcome' = outcome
          BY <2>4, <4>2 DEF Consumer_Received, Outcome
        <5>2. consumer'[g].at = "next"
          BY <4>1, <5>1
        <5> QED BY <5>1, <5>2 DEF Transport
      <4>3. CASE MoveNext(g)
        <5>1. /\ consumer[g].at = "next" /\ outcome' = outcome
              /\ \/ consumer' = [consumer EXCEPT ![g].at = "handle"]
                 \/ consumer' = [consumer EXCEPT ![g].rest = Tail(@)]
          BY <2>4, <4>3 DEF MoveNext, Outcome
        <5>2. consumer'[g].at \in {"next", "handle"}
          BY <4>1, <5>1 DEF Consumer
        <5> QED BY <5>1, <5>2 DEF Transport
      <4>4. CASE Handle(g)
        <5>1. /\ consumer' = [consumer EXCEPT ![g].at = "next", ![g].rest = Tail(@)]
              /\ outcome' = outcome
          BY <2>4, <4>4 DEF Handle, Outcome
        <5>2. consumer'[g].at = "next"
          BY <4>1, <5>1 DEF Consumer
        <5>3. \A k \in Gen \ {g} : consumer'[k] = consumer[k]
          BY <5>1 DEF Transport
        <5> QED BY <5>1, <5>2, <5>3
      <4> QED BY <1>13, <4>2, <4>3, <4>4
    <3>2. Current(1)' = Current(1)
      BY <2>1 DEF Current
    <3> QED BY <1>0, <2>1, <2>2, <3>1, <3>2 DEF Order, First, Pool, brokerVars
  <2> QED BY <2>3, <2>4
<1>14. ASSUME NEW g \in Gen, BasicAck(g) PROVE Order'
  <2> DEFINE known == {d \in unacked : d.tag = Current(g).tag}
  <2>1. /\ consumer[g].at = "ack" /\ pools[g] # <<>>
        /\ consumer' = [consumer EXCEPT ![g] = Resting]
        /\ pools' = [pools EXCEPT ![g] = Tail(@)]
        /\ UNCHANGED <<managerVars, apiVars, drops, outcome>>
    BY <1>14 DEF BasicAck, Done, Working
  <2>2. \/ /\ known # {} /\ acked' = acked \cup {d.msg : d \in known}
           /\ unacked' = unacked \ known /\ channel' = channel
        \/ /\ known = {} /\ acked' = acked /\ unacked' = {}
           /\ channel' = [channel EXCEPT !.open = FALSE]
    BY <1>14 DEF BasicAck, Requeue
  <2>3. channel'.gen = channel.gen /\ channel'.tag = channel.tag
    BY <2>2 DEF Transport, Channel
  <2>4. CASE channel.gen # 1
    BY <2>1, <2>3, <2>4 DEF Order, First, InOrder, apiVars
  <2>5. CASE channel.gen = 1
    <3>1. g = 1
      BY <2>1, <2>5 DEF Order, First
    <3>2. Pool \in Seq(Delivery) /\ Pool # <<>> /\ Pool' = Tail(Pool)
      BY <1>0, <2>1, <3>1 DEF Transport, Pool
    <3>3. /\ Current(g) = Pool[1] /\ Current(1) = Pool[1]
          /\ Len(Pool) \in Nat \ {0} /\ DOMAIN Pool = 1 .. Len(Pool)
          /\ DOMAIN Pool' = 1 .. Len(Pool) - 1
          /\ \A i \in 1 .. Len(Pool) - 1 : Pool'[i] = Pool[i + 1]
      BY <3>1, <3>2 DEF Current, Pool
    <3>4. \A i \in DOMAIN Pool' : /\ i + 1 \in DOMAIN Pool /\ Pool'[i] = Pool[i + 1]
                                 /\ Pool[1].tag < Pool[i + 1].tag
      BY <2>5, <3>3 DEF Order, First
    <3>5. known \subseteq {Pool[1]}
      BY <2>5, <3>3 DEF Order, First
    <3> HIDE DEF known
    <3>6. outcome[Pool[1].msg] # "none"
      BY <2>1, <2>5, <3>1, <3>3 DEF Order, First
    <3>7. unacked' \subseteq unacked /\ acked' \subseteq acked \cup {Pool[1].msg}
      BY <2>2, <3>5
    <3>8. /\ \A k \in Gen \ {1} : pools'[k] = <<>>
          /\ consumer'[1].at # "ack"
      BY <1>0, <2>1, <2>5, <3>1 DEF Order, First, Transport, Resting
    <3>9. First'
      <4>1. \A i \in DOMAIN Pool' : Pool'[i].tag <= channel'.tag
        BY <2>3, <2>5, <3>4 DEF Order, First
      <4>2. ASSUME NEW i \in DOMAIN Pool', NEW j \in DOMAIN Pool', i < j
            PROVE  Pool'[i].tag < Pool'[j].tag
        <5>1. i + 1 < j + 1
          BY <3>3, <4>2
        <5> QED BY <2>5, <3>4, <5>1 DEF Order, First
      <4>3. \A d \in unacked', i \in DOMAIN Pool' : d.tag = Pool'[i].tag => d = Pool'[i]
        BY <2>5, <3>4, <3>7 DEF Order, First
      <4>4. \A m \in acked' : outcome'[m] # "none"
        BY <2>1, <2>5, <3>6, <3>7 DEF Order, First
      <4>5. \A d \in unacked' : d.tag <= channel'.tag
        BY <2>3, <2>5, <3>7 DEF Order, First
      <4> QED BY <3>8, <4>1, <4>2, <4>3, <4>4, <4>5 DEF First
    <3>10. InOrder'
      <4> SUFFICES ASSUME drops' = 0, queueName'
                   PROVE  /\ channel'.gen = 1 /\ channel'.open /\ channel'.main
                          /\ \A i \in DOMAIN Pool' : Pool'[i] \in unacked'
                          /\ ~IsEmpty' /\ api'.at \notin {"type", "consume"}
                               => channel'.consuming
        BY DEF InOrder
      <4>1. /\ channel.open /\ channel.main
            /\ \A i \in DOMAIN Pool : Pool[i] \in unacked
            /\ ~IsEmpty /\ api.at \notin {"type", "consume"} => channel.consuming
        BY <2>1 DEF Order, InOrder, apiVars
      <4>2. Pool[1] \in known
        BY <3>3, <4>1 DEF known
      <4>3. unacked' = unacked \ known /\ channel' = channel
        BY <2>2, <4>2
      <4>4. ASSUME NEW i \in DOMAIN Pool' PROVE Pool'[i] \in unacked'
        <5>1. Pool[1] \in Delivery /\ Pool[1].tag \in Nat
          <6>1. 1 \in 1 .. Len(Pool)
            BY <3>3
          <6>2. Pool[1] \in Delivery
            BY <3>2, <6>1, ElementOfSeq
          <6> QED BY <6>2 DEF Delivery
        <5>2. Pool[i + 1] # Pool[1]
          BY <3>4, <5>1
        <5> QED BY <3>4, <3>5, <4>1, <4>3, <5>2
      <4> QED BY <2>1, <2>5, <4>1, <4>3, <4>4 DEF managerVars, apiVars, IsEmpty,
                 HasSubscriptionsForEvent
    <3> QED BY <3>9, <3>10 DEF Order
  <2> QED BY <2>4, <2>5
<1>15. ASSUME NEW g \in Gen, RecreateConsumerChannel(g) PROVE Order'
  <2>1. channel'.gen = channel.gen + 1 /\ channel.gen \in Gen /\ ~channel.open
        /\ drops' = drops /\ queueName' = queueName
    BY <1>15 DEF RecreateConsumerChannel, Transport, Channel, apiVars
  <2>2. channel'.gen # 1
    BY <2>1, BusAssumption DEF BusAssumption, Gen
  <2> QED BY <2>1, <2>2 DEF Order, First, InOrder
<1>16. CASE ChannelDrops
  <2>1. drops' # 0
    BY <1>16 DEF ChannelDrops, Transport
  <2> QED BY <1>16, <2>1, OrderClosing DEF ChannelDrops, Requeue
<1>17. CASE UNCHANGED vars
  BY <1>17, OrderCalls DEF vars, IsEmpty, HasSubscriptionsForEvent
<1> QED
  <2>1. CASE Next
    BY <2>1, <1>1, <1>2, <1>3, <1>4, <1>5, <1>6, <1>7, <1>8, <1>9, <1>10, <1>11,
       <1>12, <1>13, <1>14, <1>15, <1>16, <1>17, <1>18
       DEF Next, CallGoesOn, Consume, Waits
  <2> QED BY <2>1, <1>17
-----------------------------------------------------------------------------
(* The subscriptions a consumer still has before it are those of a name    *)
(* that nobody has changed since: their type is known, or on its way.      *)
Snapshot(g) ==
  consumer[g].at \in {"next", "handle"} /\ ~consumer[g].modified
    => \A i \in DOMAIN consumer[g].rest :
         \/ consumer[g].rest[i].isDynamic
         \/ IsKnownEvent(NameOfCurrent(g)) \/ Registering(NameOfCurrent(g))

Snapshots == \A g \in Gen : Snapshot(g)

IInv == Types /\ Calls /\ Order /\ Snapshots

LEMMA SnapshotsInit == Init => Snapshots
BY DEF Init, Snapshots, Snapshot, Resting

(* Steps that leave a consumer, its delivery and its type alone, or change *)
(* its list under it.                                                      *)
LEMMA SnapshotKept ==
  ASSUME NEW g \in Gen, Snapshot(g),
         consumer'[g].at = consumer[g].at, consumer'[g].rest = consumer[g].rest,
         consumer[g].modified => consumer'[g].modified,
         consumer[g].at \in {"next", "handle"} =>
           /\ Current(g)' = Current(g)
           /\ \/ consumer'[g].modified
              \/ \A m \in {NameOfCurrent(g)} :
                   /\ IsKnownEvent(m) => IsKnownEvent(m)'
                   /\ Registering(m) => IsKnownEvent(m)' \/ Registering(m)'
  PROVE  Snapshot(g)'
BY DEF Snapshot, NameOfCurrent

(* Steps that are no business of the consumers.                            *)
LEMMA SnapshotsAside ==
  ASSUME Snapshots, UNCHANGED <<eventTypes, pools, consumer>>,
         api.at # "type" \/ UNCHANGED api
  PROVE  Snapshots'
<1> SUFFICES ASSUME NEW g \in Gen PROVE Snapshot(g)'
  BY DEF Snapshots
<1> QED BY DEF Snapshots, Snapshot, Current, NameOfCurrent, IsKnownEvent, Registering

LEMMA SnapshotsStep == Types /\ Snapshots /\ [Next]_vars => Snapshots'
<1> SUFFICES ASSUME Types, Snapshots, [Next]_vars PROVE Snapshots'
  OBVIOUS
<1> USE DEF Types
<1>1. ASSUME NEW m \in Message, Publish(m) PROVE Snapshots'
  BY <1>1, SnapshotsAside DEF Publish, managerVars, apiVars
<1>2. ASSUME NEW m \in Message, Deliver(m) PROVE Snapshots'
  <2> DEFINE d == [tag |-> channel.tag + 1, msg |-> m]
  <2>1. /\ pools' = [pools EXCEPT ![channel.gen] = Append(@, d)]
        /\ UNCHANGED <<managerVars, apiVars, consumer>>
    BY <1>2 DEF Deliver
  <2>2. channel.tag + 1 \in Nat /\ channel.gen \in Gen
    BY DEF Transport, Channel
  <2>3. d \in Delivery
    BY <2>2 DEF Delivery
  <2> HIDE DEF d
  <2>4. ASSUME NEW g \in Gen PROVE Snapshot(g)'
    <3>1. pools[g] \in Seq(Delivery) /\ pools'[g] \in {pools[g], Append(pools[g], d)}
      BY <2>1 DEF Transport
    <3>2. consumer[g].at \in {"next", "handle"} => Current(g)' = Current(g)
      BY <2>3, <3>1 DEF Working, Current
    <3> QED BY <2>1, <3>2, SnapshotKept DEF Snapshots, managerVars, apiVars, IsKnownEvent,
               Registering
  <2> QED BY <2>4 DEF Snapshots
<1>3. ASSUME NEW t \in EventType, NEW h \in TypedHandler, Subscribe(t, h) PROVE Snapshots'
  BY <1>3, CallParts, SnapshotsAside DEF Subscribe, Call, managerVars
<1>4. ASSUME NEW n \in EventName, NEW h \in DynamicHandler, SubscribeDynamic(n, h)
      PROVE  Snapshots'
  BY <1>4, CallParts, SnapshotsAside DEF SubscribeDynamic, Call, managerVars
<1>5. ASSUME NEW n \in EventName, NEW h \in HandlerType, Unsubscribe(n, h)
      PROVE  Snapshots'
  <2>1. /\ \A m \in EventName : ~Registering(m)
        /\ NoteModified(n) /\ DoRemoveHandler(n, h) /\ pools' = pools
    BY <1>5, CallParts DEF Unsubscribe, Registering
  <2>2. \A m \in EventName \ {n} : IsKnownEvent(m) => IsKnownEvent(m)'
    BY <2>1, RemoveProperties
  <2>3. ASSUME NEW g \in Gen PROVE Snapshot(g)'
    <3>1. /\ consumer'[g].at = consumer[g].at /\ consumer'[g].rest = consumer[g].rest
          /\ consumer[g].modified => consumer'[g].modified
          /\ consumer[g].at \in {"next", "handle"} /\ NameOfCurrent(g) = n
               => consumer'[g].modified
      BY <2>1, NoteWhat
    <3>2. Current(g)' = Current(g)
      BY <2>1 DEF Current
    <3>3. consumer[g].at \in {"next", "handle"} => NameOfCurrent(g) \in EventName
      BY CurrentTyped DEF Working
    <3> QED BY <2>1, <2>2, <3>1, <3>2, <3>3, SnapshotKept DEF Snapshots
  <2> QED BY <2>3 DEF Snapshots
<1>6. CASE QueueBind
  BY <1>6, SnapshotsAside DEF QueueBind, managerVars
<1>7. CASE Register
  <2>1. CASE UNCHANGED consumer
    <3>1. api.at = "add" /\ UNCHANGED <<eventTypes, pools>>
      BY <1>7 DEF Register, AddSubscription, AddDynamicSubscription, managerVars
    <3> QED BY <2>1, <3>1, SnapshotsAside
  <2>2. CASE NoteModified(api.name)
    <3>1. api.at = "add" /\ UNCHANGED <<eventTypes, pools>>
      BY <1>7 DEF Register, AddSubscription, AddDynamicSubscription, managerVars
    <3>2. ASSUME NEW g \in Gen PROVE Snapshot(g)'
      <4>1. /\ consumer'[g].at = consumer[g].at /\ consumer'[g].rest = consumer[g].rest
            /\ consumer[g].modified => consumer'[g].modified
        BY <2>2, NoteWhat
      <4> QED BY <3>1, <4>1, SnapshotKept DEF Snapshots, Current, IsKnownEvent, Registering
    <3> QED BY <3>2 DEF Snapshots
  <2> QED BY <1>7, <2>1, <2>2 DEF Register
<1>8. CASE RegisterType
  <2>1. /\ api.at = "type" /\ api.name = NameOf[api.type]
        /\ eventTypes' = eventTypes \cup {api.type} /\ UNCHANGED <<pools, consumer>>
    BY <1>8, CallParts DEF RegisterType, AddEventType
  <2>2. /\ \A m : IsKnownEvent(m) => IsKnownEvent(m)'
        /\ \A m : Registering(m) => IsKnownEvent(m)'
    BY <2>1 DEF IsKnownEvent, Registering
  <2>3. ASSUME NEW g \in Gen PROVE Snapshot(g)'
    BY <2>1, <2>2, SnapshotKept DEF Snapshots, Current
  <2> QED BY <2>3 DEF Snapshots
<1>9. CASE StartBasicConsume \/ SubsManager_OnEventRemoved \/ UnbindFails
  BY <1>9, SnapshotsAside DEF StartBasicConsume, SubsManager_OnEventRemoved, UnbindFails,
     managerVars
<1>10. CASE Dispose
  BY <1>10, CallParts, SnapshotsAside DEF Dispose, Call, managerVars
<1>11. CASE ClearAfterDispose
  BY <1>11, SnapshotsAside DEF ClearAfterDispose, Clear
<1>12. ASSUME NEW g \in Gen, Consume(g) PROVE Snapshots'
  <2>1. /\ UNCHANGED <<managerVars, apiVars>> /\ pools[g] # <<>>
        /\ \A k \in Gen \ {g} : consumer'[k] = consumer[k] /\ pools'[k] = pools[k]
    BY <1>12 DEF Consume, Consumer_Received, MoveNext, Handle, BasicAck,
       RecreateConsumerChannel, Ends, Done, Transport, Working
  <2>2. ASSUME NEW k \in Gen \ {g} PROVE Snapshot(k)'
    BY <2>1, SnapshotKept DEF Snapshots, Current, managerVars, apiVars, IsKnownEvent,
       Registering
  <2>3. Snapshot(g)'
    <3>1. CASE BasicAck(g) \/ RecreateConsumerChannel(g) \/ \E how : Ends(g, how)
      <4>1. consumer'[g].at \in {"idle", "ack"}
        BY <3>1 DEF BasicAck, RecreateConsumerChannel, Done, Ends, Resting, Transport
      <4> QED BY <4>1 DEF Snapshot
    <3>2. CASE Consumer_Received(g) /\ ~\E how : Ends(g, how)
      <4> DEFINE n == NameOfCurrent(g)
      <4>1. consumer' = [consumer EXCEPT ![g] =
                [at |-> "next", rest |-> handlers[n], modified |-> FALSE]]
        BY <3>2 DEF Consumer_Received
      <4>2. consumer'[g].rest = handlers[n]
        BY <4>1 DEF Transport
      <4>3. \A i \in DOMAIN handlers[n] :
              handlers[n][i].isDynamic \/ IsKnownEvent(n) \/ Registering(n)
        BY <2>1, CurrentTyped DEF TypedIsKnown, ToSet
      <4>4. n' = n
        BY <3>2 DEF Consumer_Received, NameOfCurrent, Current
      <4> QED BY <2>1, <4>2, <4>3, <4>4 DEF Snapshot, managerVars, apiVars, IsKnownEvent,
                 Registering
    <3>3. CASE (MoveNext(g) \/ Handle(g)) /\ ~\E how : Ends(g, how)
      <4>1. /\ consumer[g] \in Consumer /\ consumer[g].at \in {"next", "handle"}
            /\ pools' = pools
        BY <3>3 DEF MoveNext, Handle, Transport
      <4>2. /\ consumer[g].rest # <<>>
            /\ consumer'[g].modified = consumer[g].modified
            /\ consumer'[g].rest \in {consumer[g].rest, Tail(consumer[g].rest)}
        BY <3>3, <4>1 DEF MoveNext, Handle, Working, Consumer, Transport
      <4>3. \A i \in DOMAIN Tail(consumer[g].rest) :
              /\ i + 1 \in DOMAIN consumer[g].rest
              /\ Tail(consumer[g].rest)[i] = consumer[g].rest[i + 1]
        BY <4>1, <4>2, HeadTailProperties DEF Consumer
      <4>4. NameOfCurrent(g)' = NameOfCurrent(g)
        BY <4>1 DEF NameOfCurrent, Current
      <4> QED BY <2>1, <4>1, <4>2, <4>3, <4>4 DEF Snapshots, Snapshot, managerVars, apiVars,
                 IsKnownEvent, Registering
    <3> QED BY <1>12, <3>1, <3>2, <3>3 DEF Consume
  <2> QED BY <2>2, <2>3 DEF Snapshots
<1>13. CASE ChannelDrops
  BY <1>13, SnapshotsAside DEF ChannelDrops, managerVars, apiVars
<1>14. CASE UNCHANGED vars
  BY <1>14, SnapshotsAside DEF vars
<1> QED
  <2>1. CASE Next
    BY <2>1, <1>1, <1>2, <1>3, <1>4, <1>5, <1>6, <1>7, <1>8, <1>9, <1>10, <1>11, <1>12,
       <1>13, <1>14 DEF Next, CallGoesOn, Waits
  <2> QED BY <2>1, <1>14

LEMMA Invariance == Spec => []IInv
<1>1. Init => IInv
  BY TypesInit, CallsInit, OrderInit, SnapshotsInit DEF IInv
<1>2. IInv /\ [Next]_vars => IInv'
  BY TypesStep, CallsStep, OrderStep, SnapshotsStep DEF IInv
<1> QED BY <1>1, <1>2, PTL DEF Spec

(* EventBusRabbitMQ and its subscriptions manager keep their types: no     *)
(* handler type is twice in a list (DoAddSubscription throws), tags and    *)
(* bounds are kept, the broker forgets only what was published.            *)
THEOREM TypeCorrect == Spec => []TypeOK
<1>1. IInv => TypeOK
  BY TypesGiveTypeOK DEF IInv
<1> QED BY <1>1, Invariance, PTL

(* However Subscribe, Unsubscribe and failing unbindings follow each       *)
(* other, DoInternalSubscription and SubsManager_OnEventRemoved leave      *)
(* every name with a handler bound to the service's queue.                 *)
THEOREM SubscribedStaysBound == Spec => []SubscribedIsBound
<1>1. IInv => SubscribedIsBound
  BY DEF IInv, Calls, Bound
<1> QED BY <1>1, Invariance, PTL

(* Nobody but the consumer itself comes to acknowledge.                    *)
LEMMA OthersKeepTheirPlace ==
  ASSUME Transport, Next, NEW g \in Gen,
         consumer[g].at \in {"next", "handle"}, consumer'[g].at = "ack"
  PROVE  MoveNext(g) \/ Handle(g)
<1>1. ~UNCHANGED consumer
  OBVIOUS
<1>2. \A n : ~NoteModified(n)
  BY NoteWhat
<1>3. PICK k \in Gen : Consume(k)
  BY <1>1, <1>2 DEF Next, Publish, Deliver, Subscribe, SubscribeDynamic, Unsubscribe,
     CallGoesOn, QueueBind, Register, RegisterType, StartBasicConsume,
     SubsManager_OnEventRemoved, UnbindFails, ClearAfterDispose, Dispose, ChannelDrops,
     Waits, vars
<1>4. k = g
  <2>1. k # g => consumer'[g] = consumer[g]
    BY <1>3 DEF Consume, Consumer_Received, MoveNext, Handle, BasicAck,
       RecreateConsumerChannel, Ends, Done, Transport
  <2> QED BY <2>1
<1> QED BY <1>3, <1>4 DEF Consume, Consumer_Received, BasicAck, RecreateConsumerChannel

(* DoRemoveHandler takes an event type away with the last handler of its   *)
(* name and never before, and AddSubscription adds it last: ProcessEvent   *)
(* skips handlers only when the list was changed while it read it, or when *)
(* a Subscribe of that very name stands between handler and type.          *)
THEOREM SkippedOnlyThen == Spec => SkippedOnlyMeanwhile
<1>1. IInv /\ [Next]_vars
        => [\A g \in Gen :
               /\ consumer[g].at \in {"next", "handle"} /\ consumer'[g].at = "ack"
               /\ outcome'[Current(g).msg] = "skipped"
               => consumer[g].modified \/ Registering(NameOfCurrent(g))]_vars
  <2> SUFFICES ASSUME IInv, Next, NEW g \in Gen,
                      consumer[g].at \in {"next", "handle"}, consumer'[g].at = "ack",
                      outcome'[Current(g).msg] = "skipped", ~consumer[g].modified
               PROVE  Registering(NameOfCurrent(g))
    OBVIOUS
  <2>1. pools[g] # <<>> /\ Current(g).msg \in Message
    BY CurrentTyped DEF IInv, Types, Working
  <2>2. MoveNext(g) \/ Handle(g)
    BY OthersKeepTheirPlace DEF IInv, Types
  <2>3. CASE MoveNext(g)
    <3>1. Ends(g, "ended")
      BY <2>3 DEF MoveNext, IInv, Types, Transport, Consumer
    <3>2. outcome'[Current(g).msg] = "ended"
      BY <2>1, <3>1 DEF Ends, IInv, Types, Transport
    <3> QED BY <3>2
  <2>4. CASE Handle(g)
    <3>1. consumer[g].rest \in Seq(SubscriptionInfo) /\ consumer[g].rest # <<>>
      BY <2>4 DEF Handle, IInv, Types, Transport, Working, Consumer
    <3>2. /\ 1 \in DOMAIN consumer[g].rest
          /\ Head(consumer[g].rest) = consumer[g].rest[1]
      BY <3>1
    <3>3. ~Head(consumer[g].rest).isDynamic /\ ~IsKnownEvent(NameOfCurrent(g))
      <4> SUFFICES ASSUME Head(consumer[g].rest).isDynamic \/ IsKnownEvent(NameOfCurrent(g))
                   PROVE  FALSE
        OBVIOUS
      <4>1. consumer' = [consumer EXCEPT ![g].at = "next", ![g].rest = Tail(@)]
            \/ Ends(g, "failed")
        BY <2>4 DEF Handle
      <4>2. CASE Ends(g, "failed")
        <5>1. outcome'[Current(g).msg] = "failed"
          BY <2>1, <4>2 DEF Ends, IInv, Types, Transport
        <5> QED BY <5>1
      <4>3. CASE consumer' = [consumer EXCEPT ![g].at = "next", ![g].rest = Tail(@)]
        <5>1. consumer'[g].at = "next"
          BY <4>3 DEF IInv, Types, Transport, Consumer
        <5> QED BY <5>1
      <4> QED BY <4>1, <4>2, <4>3
    <3> QED BY <3>2, <3>3 DEF IInv, Snapshots, Snapshot
  <2> QED BY <2>2, <2>3, <2>4
<1> QED BY <1>1, Invariance, PTL DEF Spec, SkippedOnlyMeanwhile

(* While nobody else closes a channel, a bus with a subscription consumes  *)
(* its queue between calls: Consumer_Received acknowledges every delivery  *)
(* once and in order, so that the broker never closes the channel for a    *)
(* wrong tag, and only an empty bus closes it itself.                      *)
THEOREM SubscribedStaysConsumed == Spec => []SubscribedIsConsumed
<1>1. IInv => SubscribedIsConsumed
  <2> SUFFICES ASSUME IInv, api = NoCall, drops = 0, ~IsEmpty
               PROVE  channel.open /\ channel.consuming /\ channel.main
    BY DEF SubscribedIsConsumed
  <2>1. queueName
    BY DEF IInv, Calls, Emptied
  <2> QED BY <2>1 DEF IInv, Order, InOrder, NoCall
<1> QED BY <1>1, Invariance, PTL

(* On the channel of CreateConsumerChannel's first call, what BasicAck     *)
(* makes the broker forget is a message whose ProcessEvent has ended:      *)
(* never another delivery with the same tag.                               *)
THEOREM AckedIsProcessed == Spec => []AckedAfterProcessing
<1>1. IInv => AckedAfterProcessing
  BY DEF IInv, Order, First, AckedAfterProcessing
<1> QED BY <1>1, Invariance, PTL
=============================================================================
