--------------------------- MODULE ClipmenudProofs ---------------------------
(***************************************************************************)
(* Proofs about Clipmenud, for any windows, texts, selections, bounds and  *)
(* settings.                                                               *)
(***************************************************************************)
EXTENDS Clipmenud, SequenceTheorems, TLAPS

LEMMA SelsAre == Sels = {"PRIMARY", "CLIPBOARD"}
BY DEF Sels, ServedSelections, ToSet

\* Removing one element leaves a sequence of some of the others.
LEMMA RemoveOne ==
  ASSUME NEW S, NEW q \in Seq(S), NEW i \in DOMAIN q
  PROVE  /\ RemoveAt(q, i) \in Seq(S)
         /\ Len(RemoveAt(q, i)) = Len(q) - 1
<1> DEFINE a == SubSeq(q, 1, i - 1)
           b == SubSeq(q, i + 1, Len(q))
<1>1. Len(q) \in Nat /\ i \in 1 .. Len(q)
  OBVIOUS
<1>2. a \in Seq(S) /\ Len(a) = i - 1
  BY <1>1
<1>3. b \in Seq(S) /\ Len(b) = Len(q) - i
  BY <1>1
<1>4. RemoveAt(q, i) = a \o b
  BY DEF RemoveAt
<1> HIDE DEF a, b
<1> QED
  BY <1>1, <1>2, <1>3, <1>4

(***************************************************************************)
(* Type correctness.  TypeOK does not say that the events are a sequence   *)
(* of events, nor what the clip at hand is while it is served.             *)
(***************************************************************************)
EventType == [type : {"owner", "property", "nack", "noise"}, sel : Sels,
              win : Windows \union {Nobody}]

RequestType == [win : Windows \union {Nobody}, text : Texts, sel : Sels]

\* get_clipboard_text() finds the property it was told of.
Written(q, p) == \A i \in 1 .. Len(q) :
                   q[i].type = "property" => p[q[i].sel] \in Texts

XTypes == /\ selection \in [Sels -> Offer \union {NoOffer}]
          /\ requests \in Seq(RequestType)
          /\ prop \in [Sels -> Texts \union {NoText}]
          /\ events \in Seq(EventType)
          /\ Written(events, prop)

PlaceTypes == /\ cfg \in Configs
              /\ pc \in {"setup", "poll", "select", "drain", "trim", "exited",
                         "aborted"}
              /\ nrSetup \in 0 .. Len(Selections)
              /\ watched = {Selections[i] : i \in 1 .. nrSetup}

SignalTypes == signals \subseteq {"USR1", "USR2"} /\ enabled \in BOOLEAN

ServingType == [win : Clipserves, text : Texts, next : {1, 2}]

ClipTypes == /\ serving \in Seq(ServingType)
             /\ log \in Seq(Texts)
             /\ kept \in [Sels -> Texts \union {NoText}]
             /\ last \in Texts \union {NoText} /\ recent \in BOOLEAN
             /\ current \in [text : Texts \union {NoText}, sel : Sels]
             /\ pc = "trim" => current.text \in Texts

BudgetType == budget \in [copies : 0 .. MaxCopies, signals : 0 .. MaxSignals,
                          noise : 0 .. MaxNoise]

Types == XTypes /\ PlaceTypes /\ SignalTypes /\ ClipTypes /\ BudgetType

LEMMA TypesSuffice == Types => TypeOK
<1> SUFFICES ASSUME Types
             PROVE  TypeOK
  OBVIOUS
<1>1. DOMAIN ServedSelections = {1, 2}
  BY DEF ServedSelections
<1>2. \A i \in DOMAIN events : events[i] \in EventType
  BY DEF Types, XTypes
<1>3. \A i \in DOMAIN events :
        events[i].type = "property" => prop[events[i].sel] # NoText
  BY TextAssumption DEF Types, XTypes, Written
<1>4. serving \in Seq([win : Clipserves, text : Texts,
                     next : DOMAIN ServedSelections])
  BY <1>1 DEF Types, ClipTypes, ServingType
<1> HIDE DEF Types
<1>5. XTypes /\ PlaceTypes /\ SignalTypes /\ ClipTypes /\ BudgetType
  BY DEF Types
<1> QED
  BY <1>2, <1>3, <1>4, <1>5
     DEF TypeOK, XTypes, PlaceTypes, SignalTypes, ClipTypes, BudgetType,
         RequestType, EventType

LEMMA TypesInit == Init => Types
<1> SUFFICES ASSUME Init
             PROVE  Types
  OBVIOUS
<1>1. XTypes
  BY DEF Init, XTypes, Written, NoOffer
<1>2. PlaceTypes
  <2>1. Len(Selections) \in Nat
    BY SelectionAssumption
  <2> QED
    BY <2>1 DEF Init, PlaceTypes
<1>3. SignalTypes
  BY DEF Init, SignalTypes
<1>4. ClipTypes
  <2>1. serving \in Seq(ServingType) /\ log \in Seq(Texts)
    BY DEF Init
  <2>2. current \in [text : Texts \union {NoText}, sel : Sels]
    BY SelsAre DEF Init, NoClip
  <2> QED
    BY <2>1, <2>2 DEF Init, ClipTypes
<1>5. BudgetType
  BY BoundAssumption DEF Init, BudgetType, Bounds
<1> QED
  BY <1>1, <1>2, <1>3, <1>4, <1>5 DEF Types

(***************************************************************************)
(* What the steps do to the queue and the property.                        *)
(***************************************************************************)
LEMMA EventQueued ==
  ASSUME NEW q \in Seq(EventType), NEW p, Written(q, p),
         NEW e \in EventType, e.type = "property" => p[e.sel] \in Texts
  PROVE  Append(q, e) \in Seq(EventType) /\ Written(Append(q, e), p)
<1>1. Append(q, e) \in Seq(EventType) /\ Len(Append(q, e)) = Len(q) + 1
  OBVIOUS
<1>2. ASSUME NEW i \in 1 .. Len(q) + 1
      PROVE  Append(q, e)[i] = IF i = Len(q) + 1 THEN e ELSE q[i]
  BY <1>2
<1>3. ASSUME NEW i \in 1 .. Len(q) + 1, Append(q, e)[i].type = "property"
      PROVE  p[Append(q, e)[i].sel] \in Texts
  <2>1. CASE i = Len(q) + 1
    BY <1>2, <1>3, <2>1
  <2>2. CASE i \in 1 .. Len(q)
    BY <1>2, <1>3, <2>2 DEF Written
  <2>3. Len(q) \in Nat
    OBVIOUS
  <2> QED
    BY <2>1, <2>2, <2>3
<1> QED
  BY <1>1, <1>3 DEF Written

LEMMA EventDropped ==
  ASSUME NEW q \in Seq(EventType), NEW p, Written(q, p), q # <<>>
  PROVE  Tail(q) \in Seq(EventType) /\ Written(Tail(q), p)
<1>1. Tail(q) \in Seq(EventType) /\ Len(Tail(q)) = Len(q) - 1
  BY HeadTailProperties
<1>2. \A i \in 1 .. Len(q) - 1 : Tail(q)[i] = q[i + 1]
  BY HeadTailProperties
<1>3. Len(q) \in Nat
  OBVIOUS
<1>4. \A i \in 1 .. Len(q) - 1 : i + 1 \in 1 .. Len(q)
  BY <1>3
<1> HIDE DEF EventType
<1> QED
  BY <1>1, <1>2, <1>4 DEF Written

LEMMA PropertyWritten ==
  ASSUME NEW q \in Seq(EventType), NEW p \in [Sels -> Texts \union {NoText}],
         Written(q, p), NEW s \in Sels, NEW t \in Texts
  PROVE  Written(q, [p EXCEPT ![s] = t])
<1>1. ASSUME NEW i \in 1 .. Len(q)
      PROVE  q[i].sel \in Sels
  <2>1. q[i] \in EventType
    OBVIOUS
  <2> QED
    BY <2>1 DEF EventType
<1> QED
  BY <1>1 DEF Written

\* Whoever takes or gives up a selection, clipmenud's queue stays in order.
LEMMA TakeTypes ==
  ASSUME XTypes, NEW s \in Sels,
         NEW w, NEW t, [win |-> w, text |-> t] \in Offer \union {NoOffer},
         Take(s, w, t), UNCHANGED <<requests, prop>>
  PROVE  XTypes'
<1>1. w \in Windows \union {Nobody}
  BY DEF Offer, NoOffer
<1>2. OwnerEvent(s, w) \in EventType /\ OwnerEvent(s, w).type # "property"
  BY <1>1 DEF OwnerEvent, EventType
<1>3. events \in Seq(EventType) /\ Written(events, prop)
  BY DEF XTypes
<1>4. events' \in Seq(EventType) /\ Written(events', prop)
  BY <1>2, <1>3, EventQueued DEF Take
<1>5. selection' \in [Sels -> Offer \union {NoOffer}]
  BY DEF Take, XTypes
<1> QED
  BY <1>4, <1>5 DEF XTypes

\* The request that is passed on is one to the owner there is.
LEMMA ConvertTypes ==
  ASSUME XTypes, NEW s \in Sels, NEW q \in Seq(EventType), Written(q, prop),
         Convert(s, q), UNCHANGED <<selection, prop>>
  PROVE  XTypes'
<1>1. CASE selection[s].win = Nobody
  <2>1. NackEvent(s) \in EventType /\ NackEvent(s).type # "property"
    BY DEF NackEvent, EventType
  <2>2. Append(q, NackEvent(s)) \in Seq(EventType)
        /\ Written(Append(q, NackEvent(s)), prop)
    BY <2>1, EventQueued
  <2> QED
    BY <1>1, <2>2 DEF Convert, XTypes
<1>2. CASE selection[s].win # Nobody
  <2>1. selection[s] \in Offer
    BY <1>2 DEF XTypes, NoOffer
  <2>2. Request(s) \in RequestType
    BY <2>1 DEF Request, RequestType, Offer
  <2>3. requests' \in Seq(RequestType)
    <3>1. requests' = Append(requests, Request(s))
      BY <1>2 DEF Convert
    <3>2. requests \in Seq(RequestType)
      BY DEF XTypes
    <3> QED
      BY <2>2, <3>1, <3>2
  <2> QED
    BY <1>2, <2>3 DEF Convert, XTypes
<1> QED
  BY <1>1, <1>2

\* A window that ends leaves the queues in order.
LEMMA VanishTypes ==
  ASSUME XTypes, NEW w, Vanish(w), UNCHANGED prop
  PROVE  XTypes'
<1>1. events \in Seq(EventType) /\ Written(events, prop)
      /\ requests \in Seq(RequestType)
  BY DEF XTypes
<1>2. selection' \in [Sels -> Offer \union {NoOffer}]
  BY DEF Vanish, XTypes
<1>3. requests' \in Seq(RequestType)
  <2>1. ASSUME NEW i \in 1 .. Len(requests)
        PROVE  requests'[i] \in RequestType
    <3>1. requests[i] \in RequestType
      BY <1>1
    <3>2. [requests[i] EXCEPT !.win = Nobody] \in RequestType
      BY <3>1 DEF RequestType
    <3>3. i \in DOMAIN requests
      BY <1>1
    <3>4. requests'[i] = IF requests[i].win = w
                         THEN [requests[i] EXCEPT !.win = Nobody]
                         ELSE requests[i]
      BY <3>3 DEF Vanish, Forget
    <3> QED
      BY <3>1, <3>2, <3>4
  <2>2. requests' = [i \in 1 .. Len(requests) |-> requests'[i]]
        /\ Len(requests) \in Nat
    BY <1>1 DEF Vanish, Forget
  <2> HIDE DEF RequestType
  <2> QED
    BY <2>1, <2>2
<1>4. events' \in Seq(EventType) /\ Len(events') = Len(events)
      /\ \A i \in 1 .. Len(events) :
           events'[i].type = events[i].type /\ events'[i].sel = events[i].sel
  <2>1. ASSUME NEW i \in 1 .. Len(events)
        PROVE  /\ events'[i] \in EventType
               /\ events'[i].type = events[i].type
               /\ events'[i].sel = events[i].sel
    <3>1. events[i] \in EventType
      BY <1>1
    <3>2. LET e == [events[i] EXCEPT !.win = Nobody]
          IN  e \in EventType /\ e.type = events[i].type
              /\ e.sel = events[i].sel
      BY <3>1 DEF EventType
    <3>3. i \in DOMAIN events
      BY <1>1
    <3>4. events'[i] = IF events[i].win = w
                         THEN [events[i] EXCEPT !.win = Nobody]
                         ELSE events[i]
      BY <3>3 DEF Vanish, Forget
    <3> QED
      BY <3>1, <3>2, <3>4
  <2>2. events' = [i \in 1 .. Len(events) |-> events'[i]]
        /\ Len(events) \in Nat
    BY <1>1 DEF Vanish, Forget
  <2> HIDE DEF EventType
  <2> QED
    BY <2>1, <2>2
<1>5. Written(events', prop')
  BY <1>1, <1>4 DEF Written
<1> QED
  BY <1>2, <1>3, <1>4, <1>5 DEF XTypes

(***************************************************************************)
(* The steps of the others.                                                *)
(***************************************************************************)
LEMMA OthersTypes == ASSUME Types, Others
                     PROVE  Types'
<1> USE DEF Types
<1>1. BudgetType => \A k \in {"copies", "signals", "noise"} :
        budget[k] > 0 => [budget EXCEPT ![k] = @ - 1]
          \in [copies : 0 .. MaxCopies, signals : 0 .. MaxSignals,
               noise : 0 .. MaxNoise]
  BY BoundAssumption DEF BudgetType
<1>2. ASSUME NEW s \in Sels, NEW w \in Apps, NEW t \in Texts, Copy(s, w, t)
      PROVE  Types'
  <2>1. XTypes'
    <3>1. [win |-> w, text |-> t] \in Offer \union {NoOffer}
      BY DEF Offer, Windows
    <3> QED
      BY <1>2, <3>1, TakeTypes DEF Copy
  <2> QED
    BY <1>1, <1>2, <2>1 DEF Copy, PlaceTypes, SignalTypes, ClipTypes,
       BudgetType, setupVars, signalVars, storeVars, clipVars
<1>3. ASSUME NEW s \in Sels, Clear(s)
      PROVE  Types'
  <2>1. XTypes'
    <3>1. [win |-> Nobody, text |-> NoText] \in Offer \union {NoOffer}
      BY DEF NoOffer
    <3> QED
      BY <1>3, <3>1, TakeTypes DEF Clear
  <2> QED
    BY <1>1, <1>3, <2>1 DEF Clear, PlaceTypes, SignalTypes, ClipTypes,
       BudgetType, setupVars, signalVars, storeVars, clipVars
<1>4. ASSUME NEW i \in DOMAIN requests, Answer(i)
      PROVE  Types'
  <2>1. requests \in Seq(RequestType) /\ events \in Seq(EventType)
        /\ prop \in [Sels -> Texts \union {NoText}] /\ Written(events, prop)
    BY DEF XTypes
  <2>2. requests[i].sel \in Sels /\ requests[i].text \in Texts
    <3>1. requests[i] \in RequestType
      BY <2>1
    <3> QED
      BY <3>1 DEF RequestType
  <2>3. /\ prop' \in [Sels -> Texts \union {NoText}]
        /\ \/ /\ events' = Append(events, PropEvent(requests[i].sel))
              /\ prop'[requests[i].sel] \in Texts
           \/ UNCHANGED events
    BY <1>4, <2>1, <2>2 DEF Answer
  <2>4. Written(events, prop')
    BY <1>4, <2>1, <2>2, PropertyWritten DEF Answer
  <2>5. PropEvent(requests[i].sel) \in EventType
        /\ PropEvent(requests[i].sel).sel = requests[i].sel
    BY <2>2 DEF PropEvent, EventType
  <2>6. events' \in Seq(EventType) /\ Written(events', prop')
    <3>1. CASE events' = Append(events, PropEvent(requests[i].sel))
               /\ prop'[requests[i].sel] \in Texts
      BY <2>1, <2>4, <2>5, <3>1, EventQueued
    <3>2. CASE UNCHANGED events
      BY <2>1, <2>4, <3>2
    <3> QED
      BY <2>3, <3>1, <3>2
  <2>7. requests' \in Seq(RequestType)
    BY <1>4, <2>1, RemoveOne DEF Answer
  <2>8. XTypes'
    BY <1>4, <2>3, <2>6, <2>7 DEF XTypes, Answer
  <2> QED
    BY <1>4, <2>8 DEF Answer, PlaceTypes, SignalTypes, ClipTypes,
       BudgetType, setupVars, signalVars, storeVars, clipVars
<1>5. CASE Noise
  <2>1. NoiseEvent \in EventType /\ NoiseEvent.type # "property"
    BY SelsAre DEF NoiseEvent, EventType
  <2>2. events' \in Seq(EventType) /\ Written(events', prop)
    BY <1>5, <2>1, EventQueued DEF Noise, XTypes
  <2>3. XTypes'
    BY <1>5, <2>2 DEF Noise, XTypes, xVars
  <2> QED
    BY <1>1, <1>5, <2>3 DEF Noise, PlaceTypes, SignalTypes, ClipTypes,
       BudgetType, setupVars, signalVars, storeVars, clipVars
<1>6. ASSUME NEW sig \in {"USR1", "USR2"}, Signal(sig)
      PROVE  Types'
  BY <1>1, <1>6 DEF Signal, PlaceTypes, SignalTypes, ClipTypes,
     BudgetType, setupVars, signalVars, storeVars, clipVars, XTypes, xVars
<1>7. ASSUME NEW i \in DOMAIN serving, Serve(i)
      PROVE  Types'
  <2>1. serving \in Seq(ServingType)
    BY DEF ClipTypes
  <2>2. /\ serving[i].text \in Texts /\ serving[i].next \in {1, 2}
        /\ serving[i].win \in Windows
    <3>1. serving[i] \in ServingType
      BY <2>1
    <3> QED
      BY <3>1 DEF ServingType, Windows
  <2>3. ServedSelections[serving[i].next] \in Sels
    BY <2>2, SelsAre DEF ServedSelections
  <2>4. [win |-> serving[i].win, text |-> serving[i].text] \in Offer
    BY <2>2 DEF Offer
  <2>5. XTypes'
    BY <1>7, <2>3, <2>4, TakeTypes DEF Serve
  <2>6. serving' \in Seq(ServingType)
    <3>1. CASE serving[i].next < 2
      <4>1. Len(ServedSelections) = 2
        BY DEF ServedSelections
      <4>2. serving' = [serving EXCEPT ![i].next = @ + 1]
        BY <1>7, <3>1, <4>1 DEF Serve
      <4>3. serving[i] \in ServingType
        BY <2>1
      <4>4. [serving[i] EXCEPT !.next = @ + 1] \in ServingType
        BY <2>2, <3>1, <4>3 DEF ServingType
      <4> HIDE DEF ServingType
      <4> QED
        BY <2>1, <4>2, <4>4
    <3>2. CASE ~(serving[i].next < 2)
      BY <1>7, <2>1, <3>2, RemoveOne DEF Serve, ServedSelections
    <3> QED
      BY <3>1, <3>2
  <2> QED
    BY <1>7, <2>5, <2>6 DEF Serve, PlaceTypes, SignalTypes, ClipTypes,
       BudgetType, setupVars, signalVars, storeVars, clipVars
<1>8. CASE Clipdel
  <2>1. log' \in Seq(Texts)
    <3>1. PICK n \in 0 .. Len(log) : \E f \in [1 .. n -> DOMAIN log] :
            log' = [i \in 1 .. n |-> log[f[i]]]
      BY <1>8 DEF Clipdel, Store!Remove
    <3>2. PICK f \in [1 .. n -> DOMAIN log] :
            log' = [i \in 1 .. n |-> log[f[i]]]
      BY <3>1
    <3>3. n \in Nat /\ log \in Seq(Texts)
      BY <3>1 DEF ClipTypes
    <3>4. \A i \in 1 .. n : log[f[i]] \in Texts
      BY <3>2, <3>3
    <3> QED
      BY <3>2, <3>3, <3>4
  <2> QED
    BY <1>8, <2>1 DEF Clipdel, PlaceTypes, SignalTypes, ClipTypes,
       BudgetType, setupVars, signalVars, storeVars, clipVars, XTypes, xVars
<1>9. CASE Tick
  BY <1>9 DEF Tick, PlaceTypes, SignalTypes, ClipTypes,
     BudgetType, setupVars, signalVars, storeVars, clipVars, XTypes, xVars
<1>10. ASSUME NEW w \in Apps, Close(w)
       PROVE  Types'
  <2>1. XTypes'
    BY <1>10, VanishTypes DEF Close
  <2> QED
    BY <1>1, <1>10, <2>1 DEF Close, PlaceTypes, SignalTypes, ClipTypes,
       BudgetType, setupVars, signalVars, storeVars, clipVars
<1>11. ASSUME NEW c \in Clipserves, Retire(c)
       PROVE  Types'
  <2>1. XTypes'
    BY <1>11, VanishTypes DEF Retire
  <2> QED
    BY <1>11, <2>1 DEF Retire, PlaceTypes, SignalTypes, ClipTypes,
       BudgetType, setupVars, signalVars, storeVars, clipVars
<1> QED
  BY <1>2, <1>3, <1>4, <1>5, <1>6, <1>7, <1>8, <1>9, <1>10, <1>11 DEF Others

(***************************************************************************)
(* The steps of clipmenud.                                                 *)
(***************************************************************************)
LEMMA HeadTypes ==
  ASSUME XTypes, events # <<>>
  PROVE  /\ Event.type \in {"owner", "property", "nack", "noise"}
         /\ Event.sel \in Sels
         /\ Event.type = "property" => Text \in Texts
         /\ Tail(events) \in Seq(EventType)
         /\ Written(Tail(events), prop)
<1>1. events \in Seq(EventType) /\ Written(events, prop)
  BY DEF XTypes
<1>2. Event \in EventType /\ Event = events[1] /\ 1 \in 1 .. Len(events)
  BY <1>1 DEF Event
<1>3. Event.type = "property" => Text \in Texts
  BY <1>1, <1>2 DEF Written, Text
<1> QED
  BY <1>1, <1>2, <1>3, EventDropped DEF EventType

LEMMA DropTypes ==
  ASSUME XTypes, events # <<>>, Drop, UNCHANGED xVars
  PROVE  XTypes'
BY HeadTypes DEF Drop, XTypes, xVars

\* Where a get_one_clip() goes back to.
LEMMA ReturnTypes ==
  ASSUME Return
  PROVE  pc' \in {"setup", "poll"}
BY DEF Return

\* Newest(n) is the end of the log.
LEMMA NewestIs ==
  ASSUME NEW S, log \in Seq(S), NEW n \in Nat
  PROVE  /\ Newest(n) \in Seq(S)
         /\ Len(Newest(n)) <= n /\ Len(Newest(n)) <= Len(log)
         /\ Newest(n) # <<>> => /\ log # <<>>
                                /\ Newest(n)[Len(Newest(n))] = log[Len(log)]
<1>1. Len(log) \in Nat
  OBVIOUS
<1>2. CASE n < Len(log)
  <2>1. Len(log) - n + 1 \in 1 .. Len(log) + 1
    BY <1>1, <1>2
  <2>2. Newest(n) = SubSeq(log, Len(log) - n + 1, Len(log))
    BY <1>2 DEF Newest
  <2>3. Newest(n) \in Seq(S) /\ Len(Newest(n)) = n
    BY <1>1, <2>1, <2>2
  <2>4. ASSUME n > 0
        PROVE  Newest(n)[n] = log[Len(log)]
    <3>1. n \in 1 .. n
      BY <2>4
    <3>2. Newest(n)[n] = log[Len(log) - n + 1 + n - 1]
      BY <1>1, <2>1, <2>2, <3>1, <1>2
    <3>3. Len(log) - n + 1 + n - 1 = Len(log)
      BY <1>1
    <3> QED
      BY <3>2, <3>3
  <2>5. Newest(n) # <<>> => n > 0
    BY <2>3
  <2> QED
    BY <1>1, <1>2, <2>3, <2>4, <2>5
<1>3. CASE ~(n < Len(log))
  BY <1>1, <1>3 DEF Newest
<1> QED
  BY <1>2, <1>3

LEMMA DaemonTypes == ASSUME Types, Daemon
                     PROVE  Types'
<1> USE DEF Types
<1> USE DEF setupVars, signalVars, storeVars, clipVars
<1>1. CASE SetupWatch
  <2>1. Len(Selections) \in Nat /\ nrSetup \in Nat
        /\ nrSetup + 1 \in 1 .. Len(Selections)
    BY <1>1, SelectionAssumption DEF SetupWatch, PlaceTypes
  <2>2. Selections[nrSetup + 1] \in Sels
    BY <2>1, SelectionAssumption
  <2>3. XTypes'
    <3>1. events \in Seq(EventType) /\ Written(events, prop)
      BY DEF XTypes
    <3> QED
      BY <1>1, <2>2, <3>1, ConvertTypes DEF SetupWatch
  <2>4. PlaceTypes'
    <3>1. 1 .. nrSetup' = (1 .. nrSetup) \union {nrSetup + 1}
      BY <1>1, <2>1 DEF SetupWatch
    <3>2. watched' = {Selections[i] : i \in 1 .. nrSetup'}
      BY <1>1, <3>1 DEF SetupWatch, AddWatch, PlaceTypes
    <3> QED
      BY <1>1, <2>1, <3>2 DEF SetupWatch, PlaceTypes
  <2> QED
    BY <1>1, <2>3, <2>4 DEF SetupWatch, SignalTypes, ClipTypes, BudgetType
<1>2. CASE SetupDone
  BY <1>2 DEF SetupDone, XTypes, xVars, PlaceTypes, SignalTypes, ClipTypes,
     BudgetType
<1>3. CASE Poll
  BY <1>3 DEF Poll, PollNext, XTypes, xVars, PlaceTypes, SignalTypes,
     ClipTypes, BudgetType
<1>4. CASE SelectEvents
  BY <1>4 DEF SelectEvents, XTypes, xVars, PlaceTypes, SignalTypes, ClipTypes,
     BudgetType
<1>5. CASE SelectSignal
  BY <1>5 DEF SelectSignal, ReadSignal, XTypes, xVars, PlaceTypes,
     SignalTypes, ClipTypes, BudgetType
<1>6. CASE Drained
  BY <1>6, ReturnTypes DEF Drained, XTypes, xVars, PlaceTypes, SignalTypes,
     ClipTypes, BudgetType
<1>7. CASE Skip
  <2>1. XTypes'
    BY <1>7, DropTypes DEF Skip
  <2> QED
    BY <1>7, <2>1 DEF Skip, PlaceTypes, SignalTypes, ClipTypes, BudgetType
<1>8. CASE OwnerChanged
  <2>1. XTypes'
    <3>1. CASE IsClipserve(Event.win) \/ Event.win \in Ignored
      <4>1. Drop /\ UNCHANGED xVars /\ events # <<>>
        BY <1>8, <3>1 DEF OwnerChanged, xVars
      <4> QED
        BY <4>1, DropTypes
    <3>2. CASE ~(IsClipserve(Event.win) \/ Event.win \in Ignored)
      <4>1. /\ Convert(Event.sel, Tail(events))
            /\ UNCHANGED <<selection, prop>> /\ events # <<>>
        BY <1>8, <3>2 DEF OwnerChanged
      <4>2. Event.sel \in Sels /\ Tail(events) \in Seq(EventType)
            /\ Written(Tail(events), prop)
        BY <4>1, HeadTypes
      <4> QED
        BY <4>1, <4>2, ConvertTypes
    <3> QED
      BY <3>1, <3>2
  <2> QED
    BY <1>8, <2>1 DEF OwnerChanged, PlaceTypes, SignalTypes, ClipTypes,
       BudgetType
<1>9. CASE Nacked
  <2>1. XTypes'
    BY <1>9, DropTypes DEF Nacked
  <2> QED
    BY <1>9, <2>1, ReturnTypes DEF Nacked, PlaceTypes, SignalTypes, ClipTypes,
       BudgetType
<1>10. CASE NotSalient
  <2>1. XTypes'
    BY <1>10, DropTypes DEF NotSalient, TextReady
  <2> QED
    BY <1>10, <2>1, ReturnTypes DEF NotSalient, PlaceTypes, SignalTypes,
       ClipTypes, BudgetType
<1>11. ASSUME TextReady
       PROVE  /\ Event.sel \in Sels /\ Text \in Texts
              /\ Drop /\ UNCHANGED xVars => XTypes'
  BY <1>11, HeadTypes, DropTypes DEF TextReady
<1>12. CASE StoreNew
  <2>1. XTypes' /\ Event.sel \in Sels /\ Text \in Texts
    BY <1>11, <1>12 DEF StoreNew
  <2>2. log' \in Seq(Texts)
    BY <1>12, <2>1 DEF StoreNew, Store!Add, ClipTypes
  <2> QED
    BY <1>12, <2>1, <2>2 DEF StoreNew, Remember, Keep, PlaceTypes,
       SignalTypes, ClipTypes, BudgetType
<1>13. CASE StoreMerge
  <2>1. XTypes' /\ Event.sel \in Sels /\ Text \in Texts
    BY <1>11, <1>13 DEF StoreMerge
  <2>2. CASE log # <<>> /\ Store!Replace(Len(log), Text) /\ Remember
             /\ Keep /\ pc' = "trim"
    <3>1. log \in Seq(Texts)
      BY DEF ClipTypes
    <3>2. log' \in Seq(Texts)
      BY <2>1, <2>2, <3>1 DEF Store!Replace
    <3> QED
      BY <1>13, <2>1, <2>2, <3>2 DEF StoreMerge, Remember, Keep, PlaceTypes,
         SignalTypes, ClipTypes, BudgetType
  <2>3. CASE pc' = "aborted" /\ UNCHANGED <<storeVars, clipVars>>
    BY <1>13, <2>1, <2>3 DEF StoreMerge, PlaceTypes, SignalTypes, ClipTypes,
       BudgetType
  <2> QED
    BY <1>13, <2>2, <2>3 DEF StoreMerge
<1>14. CASE TrimAndServe
  <2>1. log' \in Seq(Texts)
    BY <1>14, NewestIs, ConfigAssumption DEF TrimAndServe, ClipTypes
  <2>2. serving' \in Seq(ServingType)
    <3>1. \A c \in Clipserves :
            [win |-> c, text |-> current.text, next |-> 1] \in ServingType
      BY <1>14 DEF TrimAndServe, ClipTypes, ServingType
    <3>2. serving \in Seq(ServingType)
      BY DEF ClipTypes
    <3> HIDE DEF ServingType
    <3>3. CASE UNCHANGED serving
      BY <3>2, <3>3
    <3>4. ASSUME NEW c \in Clipserves,
                 serving' = Append(serving, [win |-> c, text |-> current.text,
                                             next |-> 1])
          PROVE  serving' \in Seq(ServingType)
      BY <3>1, <3>2, <3>4
    <3> QED
      BY <1>14, <3>3, <3>4 DEF TrimAndServe, RunClipserve
  <2>3. NoClip \in [text : Texts \union {NoText}, sel : Sels]
    BY SelsAre DEF NoClip
  <2>4. ClipTypes'
    BY <1>14, <2>1, <2>2, <2>3, ReturnTypes DEF TrimAndServe, ClipTypes
  <2> QED
    BY <1>14, <2>4, ReturnTypes DEF TrimAndServe, XTypes, xVars, PlaceTypes,
       SignalTypes, BudgetType
<1>15. CASE Restart
  <2>1. XTypes'
    BY <1>15 DEF Restart, XTypes, xVars, Written
  <2>2. PlaceTypes'
    <3>1. Len(Selections) \in Nat
      BY SelectionAssumption
    <3> QED
      BY <1>15, <3>1 DEF Restart, PlaceTypes
  <2>3. ClipTypes'
    BY <1>15, SelsAre DEF Restart, ClipTypes, NoClip
  <2> QED
    BY <1>15, <2>1, <2>2, <2>3 DEF Restart, SignalTypes, BudgetType
<1> QED
  BY <1>1, <1>2, <1>3, <1>4, <1>5, <1>6, <1>7, <1>8, <1>9, <1>10, <1>12,
     <1>13, <1>14, <1>15 DEF Daemon

LEMMA TypesStep == Types /\ [Next]_vars => Types'
<1>1. ASSUME Types, UNCHANGED vars
      PROVE  Types'
  BY <1>1 DEF vars, xVars, setupVars, signalVars, storeVars, clipVars, Types,
     XTypes, PlaceTypes, SignalTypes, ClipTypes, BudgetType
<1> QED
  BY <1>1, DaemonTypes, OthersTypes DEF Next

LEMMA TypesHold == Spec => []Types
BY TypesInit, TypesStep, PTL DEF Spec

(***************************************************************************)
(* Every variable keeps its type; in particular get_clipboard_text() finds *)
(* a text in every property it is told of, whoever else writes there and   *)
(* however often clipmenud is started again.                               *)
(***************************************************************************)
THEOREM DaemonTypeOK == Spec => []TypeOK
BY TypesHold, TypesSuffice, PTL

(***************************************************************************)
(* MaxClipsKept.  Only the clip that is being handled is above the limit.  *)
(***************************************************************************)
\* Who does not store or trim leaves the log alone, or takes clips from it.
LEMMA LogSteps ==
  ASSUME Types, [Next]_vars
  PROVE  \/ /\ pc = "drain" /\ pc' = "trim"
            /\ log' = Append(log, last') /\ last' \in Texts
         \/ /\ pc = "drain" /\ pc' = "trim" /\ log # <<>> /\ recent
            /\ log' = [log EXCEPT ![Len(log)] = last'] /\ last' \in Texts
         \/ pc = "trim" /\ TrimAndServe
         \/ /\ Deletions /\ pc' = pc /\ Len(log') < Len(log)
            /\ last' = last /\ recent' = recent
         \/ /\ log' = log
            /\ pc = "trim" <=> pc' = "trim"
            /\ recent' => last' = last /\ recent
<1>1. CASE StoreNew
  BY <1>1, HeadTypes DEF StoreNew, TextReady, Types, Store!Add, Remember
<1>2. CASE StoreMerge
  <2>1. Text \in Texts
    BY <1>2, HeadTypes DEF StoreMerge, TextReady, Types
  <2> QED
    BY <1>2, <2>1 DEF StoreMerge, TextReady, Store!Replace, Remember, Merges,
       storeVars, clipVars
<1>3. CASE TrimAndServe
  BY <1>3 DEF TrimAndServe
<1>4. CASE Clipdel
  <2>1. PICK n \in 0 .. Len(log) : n < Len(log) /\
          \E f \in [1 .. n -> DOMAIN log] :
            log' = [i \in 1 .. n |-> log[f[i]]]
    BY <1>4 DEF Clipdel, Store!Remove
  <2>2. PICK f \in [1 .. n -> DOMAIN log] :
          log' = [i \in 1 .. n |-> log[f[i]]]
    BY <2>1
  <2>3. n \in Nat /\ log \in Seq(Texts)
    BY DEF Types, ClipTypes
  <2>4. \A i \in 1 .. n : log[f[i]] \in Texts
    BY <2>2, <2>3
  <2>5. Len(log') = n
    BY <2>2, <2>3, <2>4
  <2> QED
    BY <1>4, <2>1, <2>5 DEF Clipdel, clipVars
<1>5. CASE UNCHANGED vars
  BY <1>5 DEF vars, storeVars, clipVars
<1>6. ASSUME Others, ~Clipdel
      PROVE  /\ log' = log
             /\ pc = "trim" <=> pc' = "trim"
             /\ recent' => last' = last /\ recent
  BY <1>6 DEF Others, Copy, Clear, Close, Answer, Noise, Signal, Serve,
     Retire, Tick, storeVars, clipVars
<1>7. ASSUME Daemon, ~StoreNew, ~StoreMerge, ~TrimAndServe
      PROVE  /\ log' = log
             /\ pc = "trim" <=> pc' = "trim"
             /\ recent' => last' = last /\ recent
  BY <1>7 DEF Daemon, SetupWatch, SetupDone, Poll, PollNext, SelectEvents,
     SelectSignal, Drained, Skip, OwnerChanged, Nacked, NotSalient, TextReady,
     Restart, Return, storeVars, clipVars
<1> QED
  BY <1>1, <1>2, <1>3, <1>4, <1>5, <1>6, <1>7 DEF Next

Limit == IF MaxClipsBatch <= MaxClips THEN MaxClips ELSE MaxClipsBatch

Limited == Len(log) <= IF pc = "trim" THEN Limit + 1 ELSE Limit

LEMMA LimitedStep ==
  ASSUME Types, Limited, [Next]_vars
  PROVE  Limited'
<1>1. log \in Seq(Texts) /\ Len(log) \in Nat
      /\ MaxClips \in Nat /\ MaxClipsBatch \in Nat
  BY ConfigAssumption DEF Types, ClipTypes
<1>2. CASE pc = "drain" /\ pc' = "trim"
           /\ log' = Append(log, last') /\ last' \in Texts
  <2>1. Len(log') = Len(log) + 1
    BY <1>1, <1>2
  <2> QED
    BY <1>1, <1>2, <2>1 DEF Limited, Limit
<1>3. CASE /\ pc = "drain" /\ pc' = "trim" /\ log # <<>>
           /\ log' = [log EXCEPT ![Len(log)] = last'] /\ last' \in Texts
  <2>1. Len(log') = Len(log)
    BY <1>1, <1>3
  <2> QED
    BY <1>1, <1>3, <2>1 DEF Limited, Limit
<1>4. CASE pc = "trim" /\ TrimAndServe
  <2>1. pc' # "trim"
    BY <1>4, ReturnTypes DEF TrimAndServe
  <2>2. Len(log') <= Limit
    <3>1. CASE NeedsTrim
      BY <1>1, <1>4, <3>1, NewestIs DEF TrimAndServe, Limit
    <3>2. CASE ~NeedsTrim
      BY <1>1, <1>4, <3>2 DEF TrimAndServe, NeedsTrim, Limit
    <3> QED
      BY <3>1, <3>2
  <2> QED
    BY <2>1, <2>2 DEF Limited, Limit
<1>5. CASE pc' = pc /\ Len(log') < Len(log)
  <2>1. Len(log') \in Nat
    BY TypesStep DEF Types, ClipTypes
  <2> QED
    BY <1>1, <1>5, <2>1 DEF Limited, Limit
<1>6. CASE log' = log /\ (pc = "trim" <=> pc' = "trim")
  BY <1>6 DEF Limited, Limit
<1> QED
  BY <1>2, <1>3, <1>4, <1>5, <1>6, LogSteps

LEMMA LimitHolds == Spec => []Limited
<1>1. Init => Limited
  BY ConfigAssumption DEF Init, Limited, Limit
<1>2. Types /\ Limited /\ [Next]_vars => Limited'
  BY LimitedStep
<1> QED
  BY <1>1, <1>2, TypesHold, PTL DEF Spec

(***************************************************************************)
(* For any settings the store is bounded: between clips it never holds     *)
(* more than the larger of max_clips and max_clips_batch, however clips    *)
(* are added, merged and deleted and whenever clipmenud aborts and is      *)
(* started again.                                                          *)
(***************************************************************************)
THEOREM StoreIsBounded == Spec => [](pc # "trim" => Len(log) <= Limit)
<1>1. Limited => (pc # "trim" => Len(log) <= Limit)
  BY DEF Limited
<1> QED
  BY <1>1, LimitHolds, PTL

\* With max_clips_batch up to max_clips (the default is a tenth of it), the
\* store keeps to max_clips.
THEOREM MaxClipsHold ==
  ASSUME MaxClipsBatch <= MaxClips
  PROVE  Spec => []MaxClipsKept
<1>1. Limited => MaxClipsKept
  BY DEF Limited, Limit, MaxClipsKept
<1> QED
  BY <1>1, LimitHolds, PTL

(***************************************************************************)
(* MergeReplacesLast.  While last_text is recent it is the newest clip of  *)
(* the store: who forgets it is a daemon that aborts, and nobody but       *)
(* clipdel takes the newest clip away.                                     *)
(***************************************************************************)
LastIsNewest == recent /\ log # <<>> => log[Len(log)] = last

LEMMA LastIsNewestStep ==
  ASSUME ~Deletions, Types, LastIsNewest, [Next]_vars
  PROVE  LastIsNewest'
<1>1. log \in Seq(Texts) /\ Len(log) \in Nat
  BY DEF Types, ClipTypes
<1>2. CASE log' = Append(log, last') /\ last' \in Texts
  BY <1>1, <1>2 DEF LastIsNewest
<1>3. CASE log # <<>> /\ log' = [log EXCEPT ![Len(log)] = last']
           /\ last' \in Texts
  <2>1. Len(log') = Len(log) /\ Len(log) \in DOMAIN log
    BY <1>1, <1>3
  <2> QED
    BY <1>3, <2>1 DEF LastIsNewest
<1>4. CASE TrimAndServe
  <2>1. UNCHANGED <<last, recent>>
    BY <1>4 DEF TrimAndServe
  <2>2. log' # <<>> => log # <<>> /\ log'[Len(log')] = log[Len(log)]
    BY <1>1, <1>4, NewestIs, ConfigAssumption DEF TrimAndServe
  <2> QED
    BY <2>1, <2>2 DEF LastIsNewest
<1>5. CASE log' = log /\ (recent' => last' = last /\ recent)
  BY <1>5 DEF LastIsNewest
<1> QED
  BY <1>2, <1>3, <1>4, <1>5, LogSteps

(***************************************************************************)
(* While clipdel removes nothing, a merge replaces the very clip it was    *)
(* compared with, across trims (also those that empty the store), restarts *)
(* of clipmenud and any clips in between.                                  *)
(***************************************************************************)
THEOREM MergesReplaceLast ==
  ASSUME ~Deletions
  PROVE  Spec => MergeReplacesLast
<1>1. Init => LastIsNewest
  BY DEF Init, LastIsNewest
<1>2. Types /\ LastIsNewest /\ [Next]_vars => LastIsNewest'
  BY LastIsNewestStep
<1>3. LastIsNewest /\ [Next]_vars
        => [StoreMerge /\ log # <<>> => log[Len(log)] = last]_vars
  BY DEF LastIsNewest, StoreMerge, Merges
<1> QED
  BY <1>1, <1>2, <1>3, TypesHold, PTL DEF Spec, MergeReplacesLast

(***************************************************************************)
(* OneshotCompletes.  Left alone, a oneshot clipmenud has one conversion   *)
(* under way while it is in get_one_clip(), as a request or as the answer  *)
(* to it, and none elsewhere.                                              *)
(***************************************************************************)
OneUnderWay ==
  \/ /\ pc # "drain" /\ events = <<>>
     /\ Len(requests) = 1 /\ requests[1].win # Nobody
  \/ /\ requests = <<>> /\ Len(events) = 1
     /\ Event.type \in {"property", "nack"} /\ Event.win = Nobody

Alone == Undisturbed /\ cfg.oneshot

OneByOne ==
  Alone => /\ enabled /\ signals = {} /\ serving = <<>>
           /\ IF pc \in {"poll", "select", "drain"} THEN OneUnderWay
              ELSE requests = <<>> /\ events = <<>>

\* Whoever spends of the bounds has disturbed it for good.
LEMMA SpentIsNotAlone ==
  ASSUME Types, NEW k \in {"copies", "signals", "noise"},
         budget' = [budget EXCEPT ![k] = @ - 1]
  PROVE  ~Alone'
<1>1. MaxCopies \in Nat /\ MaxSignals \in Nat /\ MaxNoise \in Nat
  BY BoundAssumption
<1>2. budget \in [copies : 0 .. MaxCopies, signals : 0 .. MaxSignals,
                  noise : 0 .. MaxNoise]
  BY DEF Types, BudgetType
<1>3. Bounds[k] \in Nat /\ budget[k] \in 0 .. Bounds[k]
  BY <1>1, <1>2 DEF Bounds
<1>4. budget'[k] = budget[k] - 1
  BY <1>2
<1>5. budget' # Bounds
  BY <1>3, <1>4
<1> QED
  BY <1>5 DEF Alone, Undisturbed

LEMMA CfgStays == ASSUME [Next]_vars
                  PROVE  cfg' = cfg
BY DEF Next, Daemon, Others, vars, SetupWatch, SetupDone, Poll,
   SelectEvents, SelectSignal, Drained, Skip, OwnerChanged, Nacked,
   NotSalient, StoreNew, StoreMerge, TrimAndServe, Restart, Copy, Clear,
   Close, Answer, Noise, Signal, Serve, Retire, Clipdel, Tick

LEMMA StaysAlone ==
  ASSUME Types, [Next]_vars, Alone'
  PROVE  Alone /\ budget' = budget
<1>4. cfg' = cfg
  BY CfgStays
<1>5. budget' = budget
  <2>1. ASSUME NEW s \in Sels, NEW w \in Apps, NEW t \in Texts, Copy(s, w, t)
        PROVE  budget' = budget
    BY SpentIsNotAlone, <2>1 DEF Copy
  <2>2. ASSUME NEW s \in Sels, Clear(s)
        PROVE  budget' = budget
    BY SpentIsNotAlone, <2>2 DEF Clear
  <2>3. CASE Noise
    BY SpentIsNotAlone, <2>3 DEF Noise
  <2>4. ASSUME NEW sig \in {"USR1", "USR2"}, Signal(sig)
        PROVE  budget' = budget
    BY SpentIsNotAlone, <2>4 DEF Signal
  <2>5. CASE Daemon \/ UNCHANGED vars
    BY <2>5 DEF Daemon, vars, SetupWatch, SetupDone, Poll, SelectEvents,
       SelectSignal, Drained, Skip, OwnerChanged, Nacked, NotSalient,
       StoreNew, StoreMerge, TrimAndServe, Restart
  <2>6. ASSUME NEW i, Answer(i) \/ Serve(i) \/ Retire(i)
        PROVE  budget' = budget
    BY <2>6 DEF Answer, Serve, Retire
  <2>7. CASE Clipdel \/ Tick
    BY <2>7 DEF Clipdel, Tick
  <2>8. ASSUME NEW w \in Apps, Close(w)
        PROVE  budget' = budget
    BY SpentIsNotAlone, <2>8 DEF Close
  <2> QED
    BY <2>1, <2>2, <2>3, <2>4, <2>5, <2>6, <2>7, <2>8 DEF Next, Others
<1> QED
  BY <1>4, <1>5 DEF Alone, Undisturbed, Bounds

LEMMA OneByOneStep ==
  ASSUME Types, OneByOne, [Next]_vars
  PROVE  OneByOne'
<1> SUFFICES ASSUME Alone'
             PROVE  /\ enabled' /\ signals' = {} /\ serving' = <<>>
                    /\ IF pc' \in {"poll", "select", "drain"}
                       THEN OneUnderWay'
                       ELSE requests' = <<>> /\ events' = <<>>
  BY DEF OneByOne
<1> DEFINE InClip == pc \in {"poll", "select", "drain"}
<1>1. /\ Alone /\ budget' = budget
      /\ enabled /\ signals = {} /\ serving = <<>>
      /\ IF InClip THEN OneUnderWay ELSE requests = <<>> /\ events = <<>>
  BY StaysAlone DEF OneByOne
<1>2. cfg.oneshot /\ ~cfg.own_clipboard
  BY <1>1 DEF Alone, Undisturbed
<1>3. events \in Seq(EventType) /\ requests \in Seq(RequestType)
  BY DEF Types, XTypes
<1>4. ASSUME pc = "drain", events # <<>>, Drop
      PROVE  /\ events' = <<>> /\ requests = <<>>
             /\ Event.type \in {"property", "nack"}
  <2>1. OneUnderWay
    BY <1>1, <1>4
  <2>2. requests = <<>> /\ Len(events) = 1
        /\ Event.type \in {"property", "nack"}
    BY <1>4, <2>1 DEF OneUnderWay
  <2>3. Tail(events) \in Seq(EventType) /\ Len(Tail(events)) = 0
    BY <1>3, <1>4, <2>2, HeadTailProperties
  <2>4. Tail(events) = <<>>
    BY <2>3, EmptySeq
  <2> QED
    BY <1>4, <2>2, <2>4 DEF Drop
<1>5. Return => pc' = "setup"
  BY <1>2 DEF Return
<1>6. CASE SetupWatch
  <2>1. requests = <<>> /\ events = <<>> /\ ~InClip /\ pc' = "poll"
    BY <1>1, <1>6 DEF SetupWatch
  <2> DEFINE s == Selections[nrSetup + 1]
  <2>2. Convert(s, events) /\ UNCHANGED <<signalVars, serving>>
    BY <1>6 DEF SetupWatch
  <2>3. OneUnderWay'
    <3>1. CASE selection[s].win = Nobody
      <4>1. events' = <<NackEvent(s)>> /\ requests' = <<>>
        BY <2>1, <2>2, <3>1 DEF Convert
      <4> QED
        BY <4>1 DEF OneUnderWay, Event, NackEvent
    <3>2. CASE selection[s].win # Nobody
      <4>1. events' = <<>> /\ requests' = <<Request(s)>>
        BY <2>1, <2>2, <3>2 DEF Convert
      <4>2. Len(requests') = 1 /\ requests'[1].win # Nobody
        BY <3>2, <4>1 DEF Request
      <4> QED
        BY <2>1, <4>1, <4>2 DEF OneUnderWay
    <3> QED
      BY <3>1, <3>2
  <2> QED
    BY <1>1, <2>1, <2>2, <2>3 DEF signalVars
<1>7. CASE SetupDone
  BY <1>1, <1>2, <1>7 DEF SetupDone, signalVars, xVars
<1>8. CASE Poll
  <2>1. OneUnderWay /\ UNCHANGED <<xVars, events, signalVars, serving>>
    BY <1>1, <1>8 DEF Poll
  <2>2. OneUnderWay'
    BY <1>8, <2>1 DEF OneUnderWay, Poll, PollNext, xVars, Event
  <2> QED
    BY <1>1, <1>8, <2>1, <2>2 DEF Poll, PollNext, signalVars
<1>9. CASE SelectEvents
  <2>1. OneUnderWay /\ UNCHANGED <<xVars, events, signalVars, serving>>
    BY <1>1, <1>9 DEF SelectEvents
  <2>2. OneUnderWay'
    BY <1>9, <2>1 DEF OneUnderWay, SelectEvents, xVars, Event
  <2> QED
    BY <1>1, <1>9, <2>1, <2>2 DEF SelectEvents, signalVars
<1>10. CASE SelectSignal
  BY <1>1, <1>10 DEF SelectSignal
<1>11. CASE Drained
  <2>1. OneUnderWay /\ pc = "drain" /\ events = <<>>
    BY <1>1, <1>11 DEF Drained
  <2> QED
    BY <2>1 DEF OneUnderWay
<1>12. CASE Skip
  BY <1>1, <1>4, <1>12 DEF Skip
<1>13. CASE OwnerChanged
  <2>1. OneUnderWay /\ pc = "drain" /\ Event.type = "owner"
    BY <1>1, <1>13 DEF OwnerChanged
  <2> QED
    BY <2>1 DEF OneUnderWay
<1>14. CASE Nacked
  BY <1>1, <1>4, <1>5, <1>14 DEF Nacked, signalVars, xVars
<1>15. CASE NotSalient
  BY <1>1, <1>4, <1>5, <1>15 DEF NotSalient, TextReady, signalVars, xVars
<1>16. CASE StoreNew
  BY <1>1, <1>4, <1>16 DEF StoreNew, TextReady, signalVars, xVars
<1>17. CASE StoreMerge
  BY <1>1, <1>4, <1>17 DEF StoreMerge, TextReady, signalVars, xVars
<1>18. CASE TrimAndServe
  BY <1>1, <1>2, <1>5, <1>18 DEF TrimAndServe, RunClipserve, signalVars, xVars
<1>19. CASE Restart
  BY <1>1, <1>19 DEF Restart, xVars
<1>20. ASSUME NEW i \in DOMAIN requests, Answer(i)
       PROVE  /\ enabled' /\ signals' = {} /\ serving' = <<>>
              /\ IF pc' \in {"poll", "select", "drain"} THEN OneUnderWay'
                 ELSE requests' = <<>> /\ events' = <<>>
  <2>1. Len(requests) \in Nat /\ i \in 1 .. Len(requests)
    BY <1>3, <1>20
  <2>2. requests # <<>>
    BY <2>1
  <2>3. InClip /\ Len(requests) = 1 /\ events = <<>> /\ i = 1
        /\ requests[1].win # Nobody
    BY <1>1, <2>1, <2>2 DEF OneUnderWay
  <2>4. RemoveAt(requests, i) = <<>>
    BY <1>3, <2>3, RemoveOne, EmptySeq
  <2>5. requests' = <<>> /\ events' = <<PropEvent(requests[i].sel)>>
    BY <1>20, <2>3, <2>4 DEF Answer
  <2>6. OneUnderWay'
    BY <2>5 DEF OneUnderWay, Event, PropEvent
  <2> QED
    BY <1>1, <1>20, <2>3, <2>6 DEF Answer, signalVars
<1>21. ASSUME NEW i \in DOMAIN serving, Serve(i)
       PROVE  FALSE
  BY <1>1, <1>21
<1>22. CASE Clipdel \/ Tick
  BY <1>1, <1>22 DEF Clipdel, Tick, xVars, signalVars, OneUnderWay, Event
<1>23. CASE UNCHANGED vars
  BY <1>1, <1>23 DEF vars, xVars, signalVars, OneUnderWay, Event
<1>24. ~(\E s \in Sels, w \in Apps, t \in Texts : Copy(s, w, t))
  BY SpentIsNotAlone DEF Copy
<1>25. ~(\E s \in Sels : Clear(s))
  BY SpentIsNotAlone DEF Clear
<1>26. ~Noise
  BY SpentIsNotAlone DEF Noise
<1>27. ~(\E sig \in {"USR1", "USR2"} : Signal(sig))
  BY SpentIsNotAlone DEF Signal
<1>30. ~(\E w \in Apps : Close(w))
  BY SpentIsNotAlone DEF Close
<1>31. ASSUME NEW c \in Clipserves, Retire(c)
       PROVE  FALSE
  <2>1. PICK i \in DOMAIN events : events[i].win = c
    BY <1>31 DEF Retire, Mentions
  <2>2. i \in 1 .. Len(events) /\ Len(events) \in Nat
    BY <1>3
  <2>3. InClip /\ Len(events) = 1 /\ Event.win = Nobody
    BY <1>1, <2>2 DEF OneUnderWay
  <2>4. Event = events[1] /\ i = 1
    BY <2>2, <2>3 DEF Event
  <2> QED
    BY <2>1, <2>3, <2>4, WindowAssumption
<1> HIDE DEF InClip
<1>28. CASE Daemon
  BY <1>6, <1>7, <1>8, <1>9, <1>10, <1>11, <1>12, <1>13, <1>14, <1>15, <1>16,
     <1>17, <1>18, <1>19, <1>28 DEF Daemon
<1>29. CASE Others
  BY <1>20, <1>21, <1>22, <1>24, <1>25, <1>26, <1>27, <1>29, <1>30,
     <1>31 DEF Others
<1> QED
  BY <1>23, <1>28, <1>29 DEF Next

\* Only one that was started for one shot exits by itself.
ExitsOneshot == pc = "exited" => cfg.oneshot

LEMMA ExitsOneshotStep == ExitsOneshot /\ [Next]_vars => ExitsOneshot'
<1> SUFFICES ASSUME ExitsOneshot, [Next]_vars, pc' = "exited"
             PROVE  cfg.oneshot
  BY CfgStays DEF ExitsOneshot
<1>1. pc = "exited" \/ SetupDone
  BY DEF Next, Daemon, Others, vars, SetupWatch, Poll, PollNext,
     SelectEvents, SelectSignal, Drained, Skip, OwnerChanged, Nacked,
     NotSalient, StoreNew, StoreMerge, TrimAndServe, Restart, Return, Copy,
     Clear, Close, Answer, Noise, Signal, Serve, Retire, Clipdel, Tick
<1> QED
  BY <1>1 DEF ExitsOneshot, SetupDone

(***************************************************************************)
(* A oneshot clipmenud that nobody disturbs exits with every conversion it *)
(* asked for answered and read, for any selections and any owners, slow    *)
(* ones, blank texts, refusals and deletions included.                     *)
(***************************************************************************)
THEOREM OneshotEnds == Spec => []OneshotCompletes
<1>1. Init => OneByOne
  BY DEF Init, OneByOne
<1>2. Types /\ OneByOne /\ [Next]_vars => OneByOne'
  BY OneByOneStep
<1>3. Init => ExitsOneshot
  BY DEF Init, ExitsOneshot
<1>4. OneByOne /\ ExitsOneshot => OneshotCompletes
  BY DEF OneByOne, ExitsOneshot, OneshotCompletes, Alone
<1> QED
  BY <1>1, <1>2, <1>3, <1>4, ExitsOneshotStep, TypesHold, PTL DEF Spec
=============================================================================
