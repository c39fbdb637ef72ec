-------------------------- MODULE ClipserveProofs ---------------------------
(***************************************************************************)
(* Proofs about Clipserve, for any number of clipserve processes, of       *)
(* copies and of requests.                                                 *)
(*                                                                         *)
(* serve_clipboard() counts SelectionClear events and does not look which  *)
(* selection they are about, so what makes the count right is that every   *)
(* selection it has taken is, at any time, in exactly one of three places: *)
(* still its own, in a SelectionClear under way to it, or in one it has    *)
(* handled.  That no request is left is the order of the queue: the last   *)
(* event for a window that owns nothing is a SelectionClear.               *)
(***************************************************************************)
EXTENDS Clipserve, TLAPS

\* The queue q holds a SelectionClear for s, at most one of them, and nothing
\* behind the last SelectionClear.
Has(q, s)    == \E i \in 1 .. Len(q) : q[i] = ClearOf(s)
Once(q, s)   == \A i, j \in 1 .. Len(q) :
                  q[i] = ClearOf(s) /\ q[j] = ClearOf(s) => i = j
EndsClear(q) == q = <<>> \/ \E s \in Sels : q[Len(q)] = ClearOf(s)

-----------------------------------------------------------------------------
(***************************************************************************)
(* Events and queues.                                                      *)
(***************************************************************************)
LEMMA EventFacts ==
  /\ \A r \in Requests : Request(r) \in Events
  /\ \A s \in Sels : ClearOf(s) \in Events
  /\ \A s \in Sels, r \in Requests : ClearOf(s) # Request(r)
  /\ \A s, t \in Sels : ClearOf(s) = ClearOf(t) => s = t
  /\ \A s \in Sels : ClearOf(s).type = "clear" /\ ClearOf(s).sel = s
  /\ \A r \in Requests : Request(r).type = "request" /\ Request(r).of = r
  /\ \A e \in Events : \/ \E r \in Requests : e = Request(r)
                       \/ \E s \in Sels : e = ClearOf(s)
<1>1. \A s \in Sels : ClearOf(s).type = "clear" /\ ClearOf(s).sel = s
  BY DEF ClearOf
<1>2. \A r \in Requests : Request(r).type = "request" /\ Request(r).of = r
  BY DEF Request
<1>3. \A s \in Sels, r \in Requests : ClearOf(s) # Request(r)
  BY <1>1, <1>2
<1>4. \A s, t \in Sels : ClearOf(s) = ClearOf(t) => s = t
  BY <1>1
<1>5. \A e : e \in Events <=> \/ \E r \in Requests : e = Request(r)
                            \/ \E s \in Sels : e = ClearOf(s)
  BY DEF Events
<1> QED
  BY <1>1, <1>2, <1>3, <1>4, <1>5

\* What is known of a request at any time.
Askings == [at : {"unasked", "waiting", "answered", "dropped"},
            of : Servers \union {Nobody}]

LEMMA EmptyQueue ==
  /\ <<>> \in Seq(Events) /\ EndsClear(<<>>)
  /\ \A s \in Sels : ~Has(<<>>, s) /\ Once(<<>>, s)
BY DEF Has, Once, EndsClear

LEMMA AppendEvent ==
  ASSUME NEW q \in Seq(Events), NEW e \in Events
  PROVE  /\ Append(q, e) \in Seq(Events)
         /\ \A t \in Sels : Has(Append(q, e), t) <=> Has(q, t) \/ e = ClearOf(t)
         /\ \A t \in Sels : Once(q, t) /\ (e = ClearOf(t) => ~Has(q, t))
                              => Once(Append(q, e), t)
         /\ (\E s \in Sels : e = ClearOf(s)) => EndsClear(Append(q, e))
<1> DEFINE r == Append(q, e)
<1>1. /\ r \in Seq(Events) /\ Len(r) = Len(q) + 1 /\ Len(q) \in Nat
      /\ r[Len(q) + 1] = e /\ \A i \in 1 .. Len(q) : r[i] = q[i]
  OBVIOUS
<1> HIDE DEF r
<1>2. \A t \in Sels : Has(r, t) <=> Has(q, t) \/ e = ClearOf(t)
  BY <1>1 DEF Has
<1>3. ASSUME NEW t \in Sels, Once(q, t), e = ClearOf(t) => ~Has(q, t)
      PROVE  Once(r, t)
  <2>1. SUFFICES ASSUME NEW i \in 1 .. Len(r), NEW j \in 1 .. Len(r),
                        r[i] = ClearOf(t), r[j] = ClearOf(t)
                 PROVE  i = j
    BY DEF Once
  <2>2. CASE i \in 1 .. Len(q) /\ j \in 1 .. Len(q)
    BY <1>1, <1>3, <2>1, <2>2 DEF Once
  <2>3. CASE i = Len(q) + 1 /\ j = Len(q) + 1
    BY <2>3
  <2>4. CASE e = ClearOf(t) /\ (i \in 1 .. Len(q) \/ j \in 1 .. Len(q))
    BY <1>1, <1>3, <2>1, <2>4 DEF Has
  <2> QED
    BY <1>1, <2>1, <2>2, <2>3, <2>4
<1>4. (\E s \in Sels : e = ClearOf(s)) => EndsClear(r)
  BY <1>1 DEF EndsClear
<1> QED
  BY <1>1, <1>2, <1>3, <1>4 DEF r

LEMMA TailOfQueue ==
  ASSUME NEW q \in Seq(Events), q # <<>>
  PROVE  /\ Tail(q) \in Seq(Events) /\ Head(q) \in Events
         /\ \A t \in Sels : Has(q, t) <=> Has(Tail(q), t) \/ Head(q) = ClearOf(t)
         /\ \A t \in Sels : Once(q, t) => /\ Once(Tail(q), t)
                                          /\ Head(q) = ClearOf(t)
                                               => ~Has(Tail(q), t)
         /\ EndsClear(q) => EndsClear(Tail(q))
<1> DEFINE r == Tail(q)
<1>1. /\ r \in Seq(Events) /\ Len(q) = Len(r) + 1 /\ Len(r) \in Nat
      /\ Head(q) = q[1] /\ q[1] \in Events
      /\ \A i \in 1 .. Len(r) : r[i] = q[i + 1]
      /\ Len(r) = 0 => r = <<>>
  <2>1. Len(q) \in Nat /\ Len(q) # 0
    OBVIOUS
  <2>2. r \in Seq(Events) /\ Len(r) = Len(q) - 1
    OBVIOUS
  <2>3. \A i \in 1 .. Len(r) : r[i] = q[i + 1]
    BY <2>1, <2>2
  <2>4. Head(q) = q[1] /\ q[1] \in Events
    BY <2>1
  <2> HIDE DEF r
  <2>5. Len(r) = 0 => r = <<>>
    BY <2>2
  <2> QED
    BY <2>1, <2>2, <2>3, <2>4, <2>5
<1> HIDE DEF r
<1>2. ASSUME NEW t \in Sels
      PROVE  Has(q, t) <=> Has(r, t) \/ Head(q) = ClearOf(t)
  <2>1. ASSUME NEW i \in 1 .. Len(q), q[i] = ClearOf(t)
        PROVE  Has(r, t) \/ Head(q) = ClearOf(t)
    <3>1. i = 1 \/ (i - 1 \in 1 .. Len(r) /\ r[i - 1] = q[i])
      BY <1>1
    <3> QED
      BY <1>1, <2>1, <3>1 DEF Has
  <2>2. ASSUME NEW i \in 1 .. Len(r), r[i] = ClearOf(t)
        PROVE  Has(q, t)
    <3>1. i + 1 \in 1 .. Len(q) /\ q[i + 1] = ClearOf(t)
      BY <1>1, <2>2
    <3> QED
      BY <3>1 DEF Has
  <2>3. Head(q) = ClearOf(t) => Has(q, t)
    BY <1>1 DEF Has
  <2> QED
    BY <2>1, <2>2, <2>3 DEF Has
<1>3. ASSUME NEW t \in Sels, Once(q, t)
      PROVE  Once(r, t) /\ (Head(q) = ClearOf(t) => ~Has(r, t))
  <2>1. \A i \in 1 .. Len(r) : i + 1 \in 1 .. Len(q) /\ r[i] = q[i + 1]
    BY <1>1
  <2>2. Once(r, t)
    BY <1>1, <1>3, <2>1 DEF Once
  <2>3. 1 \in 1 .. Len(q)
    BY <1>1
  <2>4. Head(q) = ClearOf(t) => ~Has(r, t)
    BY <1>1, <1>3, <2>1, <2>3 DEF Once, Has
  <2> QED
    BY <2>2, <2>4
<1>4. EndsClear(q) => EndsClear(r)
  <2>1. Len(r) = 0 \/ (Len(r) \in 1 .. Len(r) /\ r[Len(r)] = q[Len(q)])
    BY <1>1
  <2> QED
    BY <1>1, <2>1 DEF EndsClear
<1> QED
  BY <1>1, <1>2, <1>3, <1>4 DEF r

-----------------------------------------------------------------------------
(***************************************************************************)
(* The invariant.                                                          *)
(***************************************************************************)
\* p has taken s.
Took(p, s) ==
  \/ pc[p] \in {"loop", "error", "close", "unmap"}
  \/ pc[p] = "take" /\ taken[p] = 1 /\ s = "PRIMARY"
  \/ pc[p] = "check" /\ (taken[p] = 1 \/ s = "PRIMARY")

\* Where a selection that p has taken is.
Accounted(p, s) ==
  /\ (owner[s] = p \/ Has(queue[p], s) \/ s \in cleared[p]) => Took(p, s)
  /\ owner[s] = p => ~Has(queue[p], s) /\ s \notin cleared[p]
  /\ Has(queue[p], s) => s \notin cleared[p]
  /\ Once(queue[p], s)

\* What remaining_selections counts.
Left(c) == (IF "PRIMARY" \in c THEN 0 ELSE 1)
             + (IF "CLIPBOARD" \in c THEN 0 ELSE 1)

Counted(p) ==
  /\ pc[p] \in {"off", "open"} => taken[p] = 0
  /\ pc[p] \in {"take", "check"} => taken[p] \in {0, 1} /\ cleared[p] = {}
  /\ pc[p] \in {"loop", "error", "close", "unmap"}
       => remaining[p] = Left(cleared[p])
  /\ pc[p] \in {"close", "unmap"} => remaining[p] = 0

InOrder(p) == (\A s \in Sels : owner[s] # p) => EndsClear(queue[p])

ServeInv ==
  /\ ServeTypeOK
  /\ \A p \in Servers : /\ Counted(p) /\ InOrder(p)
                        /\ \A s \in Sels : Accounted(p, s)

LEMMA InvInit == ServeInit => ServeInv
<1> SUFFICES ASSUME ServeInit
             PROVE  ServeInv
  OBVIOUS
<1>1. ServeTypeOK
  BY EmptyQueue, ServeBoundAssumption
     DEF ServeInit, ServeTypeOK, ServePCs, Ended, Data
<1>2. ASSUME NEW p \in Servers
      PROVE  Counted(p) /\ InOrder(p)
  BY <1>2, EmptyQueue DEF ServeInit, Counted, InOrder
<1>3. ASSUME NEW p \in Servers, NEW s \in Sels
      PROVE  Accounted(p, s)
  <2>1. queue[p] = <<>> /\ owner[s] # p /\ cleared[p] = {}
    BY <1>3, WindowAssumption DEF ServeInit
  <2> QED
    BY <2>1, EmptyQueue DEF Accounted
<1> QED
  BY <1>1, <1>2, <1>3 DEF ServeInv

\* What a change of owner does to the queues: a SelectionClear for whoever
\* has owned s until now, behind everything else.
LEMMA OwnQueues ==
  ASSUME ServeInv, NEW s \in Sels, NEW w \in Servers \union {App}, Own(s, w)
  PROVE  /\ owner' \in [Sels -> Servers \union {App, Nobody}]
         /\ queue' \in [Servers -> Seq(Events)]
         /\ owner'[s] = w /\ \A t \in Sels \ {s} : owner'[t] = owner[t]
         /\ \A p \in Servers :
              IF owner[s] = p /\ p # w
              THEN queue'[p] = Append(queue[p], ClearOf(s))
              ELSE queue'[p] = queue[p]
<1>1. owner \in [Sels -> Servers \union {App, Nobody}]
      /\ queue \in [Servers -> Seq(Events)]
  BY DEF ServeInv, ServeTypeOK
<1>2. ClearOf(s) \in Events
  BY EventFacts
<1>3. \A p \in Servers : Append(queue[p], ClearOf(s)) \in Seq(Events)
  BY <1>1, <1>2
<1>4. owner' = [owner EXCEPT ![s] = w]
  BY DEF Own
<1>5. CASE owner[s] \in Servers \ {w}
  <2>1. queue' = [queue EXCEPT ![owner[s]] = Append(@, ClearOf(s))]
    BY <1>5 DEF Own
  <2> QED
    BY <1>1, <1>3, <1>4, <1>5, <2>1
<1>6. CASE owner[s] \notin Servers \ {w}
  BY <1>1, <1>4, <1>6 DEF Own
<1> QED
  BY <1>5, <1>6

\* The accounts of a clipserve that has not taken s by this step.
LEMMA OwnKeeps ==
  ASSUME ServeInv, NEW s \in Sels, NEW w \in Servers \union {App}, Own(s, w),
         NEW p \in Servers, p # w,
         UNCHANGED <<pc[p], taken[p], cleared[p]>>
  PROVE  InOrder(p)' /\ \A t \in Sels : Accounted(p, t)'
<1>1. InOrder(p) /\ \A t \in Sels : Accounted(p, t)
  BY DEF ServeInv
<1>2. queue[p] \in Seq(Events) /\ ClearOf(s) \in Events
  BY EventFacts DEF ServeInv, ServeTypeOK
<1>3. /\ owner'[s] = w /\ \A t \in Sels \ {s} : owner'[t] = owner[t]
      /\ IF owner[s] = p THEN queue'[p] = Append(queue[p], ClearOf(s))
         ELSE queue'[p] = queue[p]
  BY OwnQueues
<1>4. CASE owner[s] = p
  <2>1. queue'[p] = Append(queue[p], ClearOf(s))
    BY <1>3, <1>4
  <2>2. EndsClear(queue'[p])
    BY <1>2, <2>1, AppendEvent
  <2>3. \A t \in Sels : Has(queue'[p], t) <=> Has(queue[p], t) \/ t = s
    BY <1>2, <2>1, AppendEvent, EventFacts
  <2>4. \A t \in Sels : Once(queue'[p], t)
    BY <1>1, <1>2, <1>4, <2>1, AppendEvent, EventFacts DEF Accounted
  <2> QED
    BY <1>1, <1>3, <1>4, <2>2, <2>3, <2>4 DEF InOrder, Accounted, Took
<1>5. CASE owner[s] # p
  BY <1>1, <1>3, <1>5 DEF InOrder, Accounted, Took
<1> QED
  BY <1>4, <1>5

\* A connection that closes does not touch the other ones.
LEMMA DisconnectKeeps ==
  ASSUME ServeInv, NEW q \in Servers, Disconnect(q)
  PROVE  /\ owner' \in [Sels -> Servers \union {App, Nobody}]
         /\ queue' \in [Servers -> Seq(Events)]
         /\ asked' \in [Requests -> Askings]
         /\ queue'[q] = <<>> /\ \A s \in Sels : owner'[s] # q
         /\ \A p \in Servers \ {q} :
              /\ queue'[p] = queue[p]
              /\ \A s \in Sels : owner'[s] = p <=> owner[s] = p
<1>1. /\ owner \in [Sels -> Servers \union {App, Nobody}]
      /\ queue \in [Servers -> Seq(Events)]
  BY DEF ServeInv, ServeTypeOK
<1>2. asked' \in [Requests -> Askings]
  BY DEF ServeInv, ServeTypeOK, Disconnect, Askings
<1> QED
  BY <1>1, <1>2, EmptyQueue, WindowAssumption DEF Disconnect

\* The accounts of a process that is disconnected are empty.
LEMMA Disconnected ==
  ASSUME NEW p \in Servers, queue[p] = <<>>, \A s \in Sels : owner[s] # p,
         cleared[p] = {} \/ pc[p] = "unmap"
  PROVE  InOrder(p) /\ \A s \in Sels : Accounted(p, s)
BY EmptyQueue DEF InOrder, Accounted, Took

\* A process of which nothing has changed has kept its accounts.
LEMMA Untouched ==
  ASSUME ServeInv, NEW p \in Servers,
         UNCHANGED <<pc[p], taken[p], remaining[p], cleared[p],
                     queue[p]>>,
         \A s \in Sels : owner'[s] = p <=> owner[s] = p
  PROVE  Counted(p)' /\ InOrder(p)' /\ \A s \in Sels : Accounted(p, s)'
<1>1. Counted(p) /\ InOrder(p) /\ \A s \in Sels : Accounted(p, s)
  BY DEF ServeInv
<1>2. Counted(p)'
  BY <1>1 DEF Counted
<1>3. InOrder(p)'
  BY <1>1 DEF InOrder
<1>4. \A s \in Sels : Accounted(p, s)'
  BY <1>1 DEF Accounted, Took
<1> QED
  BY <1>2, <1>3, <1>4

-----------------------------------------------------------------------------
(***************************************************************************)
(* The steps.                                                              *)
(***************************************************************************)
\* Another window takes a selection.
LEMMA AppOwnsStep ==
  ASSUME ServeInv, NEW s \in Sels, AppOwns(s)
  PROVE  ServeInv'
<1> USE DEF AppOwns, serverVars
<1>1. App \notin Servers /\ Own(s, App)
  BY WindowAssumption
<1>2. ServeTypeOK'
  <2>1. /\ owner' \in [Sels -> Servers \union {App, Nobody}]
        /\ queue' \in [Servers -> Seq(Events)]
    BY <1>1, OwnQueues
  <2>2. serveBudget' \in [copies : 0 .. MaxCopies]
    <3>1. serveBudget \in [copies : 0 .. MaxCopies] /\ serveBudget.copies > 0
      BY DEF ServeInv, ServeTypeOK
    <3>2. serveBudget.copies - 1 \in 0 .. MaxCopies
      BY <3>1, ServeBoundAssumption
    <3>3. serveBudget' = [serveBudget EXCEPT !.copies = serveBudget.copies - 1]
      OBVIOUS
    <3> QED
      BY <3>1, <3>2, <3>3
  <2> QED
    BY <2>1, <2>2 DEF ServeInv, ServeTypeOK
<1>3. ASSUME NEW p \in Servers
      PROVE  Counted(p)' /\ InOrder(p)' /\ \A t \in Sels : Accounted(p, t)'
  <2>1. Counted(p)'
    BY DEF ServeInv, Counted
  <2> QED
    BY <1>1, <2>1, OwnKeeps
<1> QED
  BY <1>2, <1>3 DEF ServeInv

\* A client asks the owner of a selection: behind its last SelectionClear
\* nothing comes, since it owns something.
LEMMA AskStep ==
  ASSUME ServeInv, NEW s \in Sels, NEW r \in Requests, Ask(s, r)
  PROVE  ServeInv'
<1> USE DEF Ask, serverVars
<1>1. /\ queue \in [Servers -> Seq(Events)] /\ owner[s] \in Servers
      /\ Request(r) \in Events
  BY EventFacts DEF ServeInv, ServeTypeOK
<1>2. /\ queue' \in [Servers -> Seq(Events)]
      /\ queue'[owner[s]] = Append(queue[owner[s]], Request(r))
      /\ \A p \in Servers \ {owner[s]} : queue'[p] = queue[p]
  BY <1>1
<1>3. ServeTypeOK'
  <2>1. WaitsFor(owner[s]) \in Askings
    BY <1>1 DEF WaitsFor, Askings
  <2>2. asked' \in [Requests -> Askings]
    BY <2>1 DEF ServeInv, ServeTypeOK, Askings
  <2> QED
    BY <1>2, <2>2 DEF ServeInv, ServeTypeOK, Askings
<1>4. ASSUME NEW p \in Servers, p # owner[s]
      PROVE  Counted(p)' /\ InOrder(p)' /\ \A t \in Sels : Accounted(p, t)'
  BY <1>2, <1>4, Untouched
<1>5. ASSUME NEW p \in Servers, p = owner[s]
      PROVE  Counted(p)' /\ InOrder(p)' /\ \A t \in Sels : Accounted(p, t)'
  <2>1. Counted(p) /\ InOrder(p) /\ \A t \in Sels : Accounted(p, t)
    BY DEF ServeInv
  <2>2. \A t \in Sels : /\ Has(queue'[p], t) <=> Has(queue[p], t)
                        /\ Once(queue[p], t) => Once(queue'[p], t)
    BY <1>1, <1>2, <1>5, AppendEvent, EventFacts
  <2>3. Counted(p)'
    BY <2>1 DEF Counted
  <2>4. InOrder(p)'
    BY <1>5 DEF InOrder
  <2>5. \A t \in Sels : Accounted(p, t)'
    BY <2>1, <2>2 DEF Accounted, Took
  <2> QED
    BY <2>3, <2>4, <2>5
<1> QED
  BY <1>3, <1>4, <1>5 DEF ServeInv

\* run_clipserve() and cs_content_get(): nothing is taken yet.
LEMMA LaunchStep ==
  ASSUME ServeInv, NEW p \in Servers, NEW h \in Hashes \union {NoHash},
         Launch(p, h)
  PROVE  ServeInv'
<1> USE DEF Launch, ServeGoto
<1>1. ServeTypeOK'
  BY DEF ServeInv, ServeTypeOK, ServePCs
<1>2. pc'[p] = "open" /\ \A q \in Servers \ {p} : pc'[q] = pc[q]
  BY DEF ServeInv, ServeTypeOK
<1>3. Counted(p)' /\ InOrder(p)' /\ \A s \in Sels : Accounted(p, s)'
  BY <1>2 DEF ServeInv, Counted, InOrder, Accounted, Took
<1>4. ASSUME NEW q \in Servers \ {p}
      PROVE  Counted(q)' /\ InOrder(q)' /\ \A s \in Sels : Accounted(q, s)'
  BY <1>2, Untouched
<1> QED
  BY <1>1, <1>3, <1>4 DEF ServeInv

LEMMA FetchStep ==
  ASSUME ServeInv, NEW p \in Servers,
         NEW c \in {"none", "empty", "partial", "whole"}, Fetch(p, c)
  PROVE  ServeInv'
<1> USE DEF Fetch, ServeGoto
<1>1. ServeTypeOK'
  <2>1. ServeTypeOK
    BY DEF ServeInv
  <2>2. pc' \in [Servers -> ServePCs]
    BY <2>1 DEF ServeTypeOK, ServePCs, Ended
  <2>3. data' \in [Servers -> Data]
    BY <2>1 DEF ServeTypeOK, Data
  <2> QED
    BY <2>1, <2>2, <2>3 DEF ServeTypeOK
<1>2. /\ pc[p] = "open" /\ pc'[p] \in {"take", "inaccessible"}
      /\ \A q \in Servers \ {p} : pc'[q] = pc[q]
  BY DEF ServeInv, ServeTypeOK
<1>3. /\ \A s \in Sels : owner[s] # p /\ ~Has(queue[p], s)
      /\ cleared[p] = {}
  BY <1>2 DEF ServeInv, ServeTypeOK, Accounted, Took
<1>4. Counted(p)' /\ InOrder(p)' /\ \A s \in Sels : Accounted(p, s)'
  BY <1>2, <1>3 DEF ServeInv, Counted, InOrder, Accounted, Took
<1>5. ASSUME NEW q \in Servers \ {p}
      PROVE  Counted(q)' /\ InOrder(q)' /\ \A s \in Sels : Accounted(q, s)'
  BY <1>2, Untouched
<1> QED
  BY <1>1, <1>4, <1>5 DEF ServeInv

\* XSetSelectionOwner(): p had not taken that selection before, so it has no
\* SelectionClear of it; the clipserve that owned it gets one.
LEMMA TakeStep ==
  ASSUME ServeInv, NEW p \in Servers, TakeSelection(p)
  PROVE  ServeInv'
<1> USE DEF TakeSelection, ServeGoto
<1> DEFINE s == SelectionOrder[taken[p] + 1]
<1>1. /\ ServeTypeOK /\ pc[p] = "take" /\ taken[p] \in {0, 1}
      /\ cleared[p] = {} /\ InOrder(p)
      /\ \A t \in Sels : Accounted(p, t)
  BY DEF ServeInv, Counted
<1>2. s \in Sels /\ ~Took(p, s)
  BY <1>1 DEF SelectionOrder, Sels, Took
<1> HIDE DEF s
<1>3. Own(s, p)
  BY DEF s
<1>4. /\ owner' \in [Sels -> Servers \union {App, Nobody}]
      /\ queue' \in [Servers -> Seq(Events)]
      /\ owner'[s] = p /\ \A t \in Sels \ {s} : owner'[t] = owner[t]
      /\ queue'[p] = queue[p]
  BY <1>2, <1>3, OwnQueues
<1>5. pc'[p] = "check" /\ \A q \in Servers \ {p} : pc'[q] = pc[q]
  BY <1>1 DEF ServeTypeOK
<1>6. ServeTypeOK'
  <2>1. pc' \in [Servers -> ServePCs]
    BY <1>1 DEF ServeTypeOK, ServePCs
  <2> QED
    BY <1>1, <1>4, <2>1 DEF ServeTypeOK
<1>7. Counted(p)' /\ InOrder(p)'
  BY <1>1, <1>2, <1>4, <1>5 DEF Counted, InOrder
<1>8. \A t \in Sels : Took(p, t)' <=> Took(p, t) \/ t = s
  BY <1>1, <1>5 DEF Took, s, SelectionOrder, Sels
<1>9. \A t \in Sels : Accounted(p, t)'
  BY <1>1, <1>2, <1>4, <1>8 DEF Accounted
<1>10. ASSUME NEW q \in Servers \ {p}
       PROVE  Counted(q)' /\ InOrder(q)' /\ \A t \in Sels : Accounted(q, t)'
  <2>1. Counted(q)'
    BY <1>5 DEF ServeInv, Counted
  <2>2. UNCHANGED <<pc[q], taken[q], cleared[q]>>
    BY <1>5
  <2> QED
    BY <1>2, <1>3, <2>1, <2>2, OwnKeeps
<1> QED
  BY <1>6, <1>7, <1>9, <1>10 DEF ServeInv

\* A process that disconnects, and keeps or loses what it has counted.
LEMMA DisconnectStep ==
  ASSUME ServeInv, NEW p \in Servers, Disconnect(p), ServeTypeOK',
         cleared'[p] = {} \/ pc'[p] = "unmap", Counted(p)',
         \A q \in Servers \ {p} :
           UNCHANGED <<pc[q], taken[q], remaining[q], cleared[q]>>
  PROVE  ServeInv'
<1>1. /\ queue'[p] = <<>> /\ \A s \in Sels : owner'[s] # p
      /\ \A q \in Servers \ {p} :
           /\ queue'[q] = queue[q]
           /\ \A s \in Sels : owner'[s] = q <=> owner[s] = q
  BY DisconnectKeeps
<1>2. InOrder(p)' /\ \A s \in Sels : Accounted(p, s)'
  BY <1>1, EmptyQueue DEF InOrder, Accounted, Took
<1>3. ASSUME NEW q \in Servers \ {p}
      PROVE  Counted(q)' /\ InOrder(q)' /\ \A s \in Sels : Accounted(q, s)'
  BY <1>1, Untouched
<1> QED
  BY <1>2, <1>3 DEF ServeInv

\* What a process that ends leaves behind.
LEMMA ExitFacts ==
  ASSUME ServeInv, NEW p \in Servers, NEW how \in Ended, Exit(p, how)
  PROVE  /\ pc' \in [Servers -> ServePCs]
         /\ hash' \in [Servers -> Hashes \union {NoHash}]
         /\ data' \in [Servers -> Data]
         /\ taken' \in [Servers -> 0 .. 2]
         /\ remaining' \in [Servers -> 0 .. 2]
         /\ cleared' \in [Servers -> SUBSET Sels]
         /\ pc'[p] = how /\ cleared'[p] = {} /\ Counted(p)'
         /\ \A q \in Servers \ {p} :
              UNCHANGED <<pc[q], taken[q], remaining[q], cleared[q]>>
<1> USE DEF Exit, ServeGoto
<1>1. ServeTypeOK
  BY DEF ServeInv
<1>2. pc' \in [Servers -> ServePCs] /\ pc'[p] = how
  BY <1>1 DEF ServeTypeOK, ServePCs
<1>3. /\ hash' \in [Servers -> Hashes \union {NoHash}]
      /\ data' \in [Servers -> Data]
  BY <1>1 DEF ServeTypeOK, Data
<1>4. /\ taken' \in [Servers -> 0 .. 2] /\ remaining' \in [Servers -> 0 .. 2]
      /\ cleared' \in [Servers -> SUBSET Sels] /\ cleared'[p] = {}
  BY <1>1 DEF ServeTypeOK
<1>5. Counted(p)'
  BY <1>2 DEF Counted, Ended
<1>6. \A q \in Servers \ {p} :
        UNCHANGED <<pc[q], taken[q], remaining[q], cleared[q]>>
  BY <1>1 DEF ServeTypeOK
<1> QED
  BY <1>2, <1>3, <1>4, <1>5, <1>6

\* expect(XGetSelectionOwner(...) == win)
LEMMA CheckStep ==
  ASSUME ServeInv, NEW p \in Servers, CheckOwner(p)
  PROVE  ServeInv'
<1>1. /\ ServeTypeOK /\ pc[p] = "check" /\ taken[p] \in {0, 1}
      /\ cleared[p] = {} /\ InOrder(p) /\ \A t \in Sels : Accounted(p, t)
  BY DEF ServeInv, Counted, CheckOwner
<1>2. Len(SelectionOrder) = 2
  BY DEF SelectionOrder
<1>3. CASE owner[SelectionOrder[taken[p] + 1]] = p
  <2>1. /\ taken' = [taken EXCEPT ![p] = @ + 1]
        /\ remaining' = IF taken[p] = 1 THEN [remaining EXCEPT ![p] = 2]
                        ELSE remaining
        /\ pc' = [pc EXCEPT ![p] = IF taken[p] = 1 THEN "loop" ELSE "take"]
        /\ UNCHANGED <<owner, hash, data, queue, cleared, asked,
                       serveBudget>>
    BY <1>1, <1>2, <1>3 DEF CheckOwner, ServeGoto, Remaining
  <2>2. ServeTypeOK'
    <3>1. pc' \in [Servers -> ServePCs]
      BY <1>1, <2>1 DEF ServeTypeOK, ServePCs
    <3>2. taken' \in [Servers -> 0 .. 2] /\ remaining' \in [Servers -> 0 .. 2]
      BY <1>1, <2>1 DEF ServeTypeOK
    <3> QED
      BY <1>1, <2>1, <3>1, <3>2 DEF ServeTypeOK
  <2>3. /\ taken'[p] = taken[p] + 1
        /\ taken[p] = 1 => pc'[p] = "loop" /\ remaining'[p] = 2
        /\ taken[p] = 0 => pc'[p] = "take"
        /\ \A q \in Servers \ {p} :
             UNCHANGED <<pc[q], taken[q], remaining[q], cleared[q],
                         queue[q]>>
    BY <1>1, <2>1 DEF ServeTypeOK
  <2>4. Counted(p)' /\ InOrder(p)'
    BY <1>1, <2>1, <2>3 DEF Counted, InOrder, Left
  <2>5. \A t \in Sels : Took(p, t)' <=> Took(p, t)
    BY <1>1, <2>3 DEF Took, Sels
  <2>6. \A t \in Sels : Accounted(p, t)'
    BY <1>1, <2>1, <2>5 DEF Accounted
  <2>7. ASSUME NEW q \in Servers \ {p}
        PROVE  /\ Counted(q)' /\ InOrder(q)'
               /\ \A t \in Sels : Accounted(q, t)'
    BY <2>1, <2>3, Untouched
  <2> QED
    BY <2>2, <2>4, <2>6, <2>7 DEF ServeInv
<1>4. CASE owner[SelectionOrder[taken[p] + 1]] # p
  <2>1. Disconnect(p) /\ Exit(p, "aborted") /\ UNCHANGED serveBudget
    BY <1>4 DEF CheckOwner
  <2>2. "aborted" \in Ended
    BY DEF Ended
  <2>3. ServeTypeOK'
    BY <1>1, <2>1, <2>2, ExitFacts, DisconnectKeeps DEF ServeTypeOK, Askings
  <2> QED
    BY <2>1, <2>2, <2>3, ExitFacts, DisconnectStep
<1> QED
  BY <1>3, <1>4

\* xerror_handler()
LEMMA FatalStep ==
  ASSUME ServeInv, NEW p \in Servers, FatalXError(p)
  PROVE  ServeInv'
<1>1. Disconnect(p) /\ Exit(p, "X error") /\ UNCHANGED serveBudget
  BY DEF FatalXError
<1>2. "X error" \in Ended
  BY DEF Ended
<1>3. ServeTypeOK'
  BY <1>1, <1>2, ExitFacts, DisconnectKeeps DEF ServeInv, ServeTypeOK, Askings
<1> QED
  BY <1>1, <1>2, <1>3, ExitFacts, DisconnectStep

\* What handling an event does to the queue.
LEMMA HandleFacts ==
  ASSUME ServeInv, NEW p \in Servers, NEW type, Handles(p, type)
  PROVE  /\ pc[p] = "loop" /\ queue[p] \in Seq(Events) /\ queue[p] # <<>>
         /\ NextEvent(p) = Head(queue[p]) /\ NextEvent(p) \in Events
         /\ NextEvent(p).type = type
         /\ queue' \in [Servers -> Seq(Events)]
         /\ queue'[p] = Tail(queue[p])
         /\ \A q \in Servers \ {p} : queue'[q] = queue[q]
<1>1. queue \in [Servers -> Seq(Events)] /\ queue[p] # <<>>
  BY DEF ServeInv, ServeTypeOK, Handles
<1>2. Tail(queue[p]) \in Seq(Events) /\ Head(queue[p]) \in Events
  BY <1>1, TailOfQueue
<1> QED
  BY <1>1, <1>2 DEF Handles, NextEvent

\* SelectionRequest
LEMMA RequestStep ==
  ASSUME ServeInv, NEW p \in Servers, NEW k \in Kinds, HandleRequest(p, k)
  PROVE  ServeInv'
<1>1. /\ ServeTypeOK /\ Counted(p) /\ InOrder(p)
      /\ \A t \in Sels : Accounted(p, t)
  BY DEF ServeInv
<1>2. Handles(p, "request")
  BY DEF HandleRequest
<1>3. /\ pc[p] = "loop" /\ queue[p] \in Seq(Events) /\ queue[p] # <<>>
      /\ \E r \in Requests : Head(queue[p]) = Request(r)
      /\ queue' \in [Servers -> Seq(Events)]
      /\ queue'[p] = Tail(queue[p])
      /\ \A q \in Servers \ {p} : queue'[q] = queue[q]
  BY <1>2, HandleFacts, EventFacts
<1>4. /\ \A t \in Sels : /\ Has(queue'[p], t) <=> Has(queue[p], t)
                         /\ Once(queue[p], t) => Once(queue'[p], t)
      /\ EndsClear(queue[p]) => EndsClear(queue'[p])
  BY <1>3, TailOfQueue, EventFacts
<1>5. /\ pc' \in [Servers -> ServePCs] /\ pc'[p] \in {"loop", "error"}
      /\ \A q \in Servers \ {p} : pc'[q] = pc[q]
      /\ UNCHANGED <<owner, hash, data, taken, remaining, cleared,
                     serveBudget>>
  BY <1>1 DEF HandleRequest, ServeGoto, ServeTypeOK, ServePCs
<1>6. ServeTypeOK'
  <2>1. \A r \in Requests :
          [asked[r] EXCEPT !.at = "answered"] \in Askings
    BY <1>1 DEF ServeTypeOK, Askings
  <2>2. asked' = IF Answers(k)
                 THEN [asked EXCEPT ![NextEvent(p).of].at = "answered"]
                 ELSE asked
    BY DEF HandleRequest
  <2>3. asked' \in [Requests -> Askings]
    BY <1>1, <2>1, <2>2 DEF ServeTypeOK, Askings
  <2> QED
    BY <1>1, <1>3, <1>5, <2>3 DEF ServeTypeOK, Askings
<1>7. Counted(p)' /\ InOrder(p)'
  BY <1>1, <1>3, <1>4, <1>5 DEF Counted, InOrder
<1>8. \A t \in Sels : Accounted(p, t)'
  BY <1>1, <1>3, <1>4, <1>5 DEF Accounted, Took
<1>9. ASSUME NEW q \in Servers \ {p}
      PROVE  Counted(q)' /\ InOrder(q)' /\ \A t \in Sels : Accounted(q, t)'
  BY <1>3, <1>5, Untouched
<1> QED
  BY <1>6, <1>7, <1>8, <1>9 DEF ServeInv

\* SelectionClear: the selection it is about has not been counted before.
LEMMA ClearStep ==
  ASSUME ServeInv, NEW p \in Servers, HandleClear(p)
  PROVE  ServeInv'
<1>1. /\ ServeTypeOK /\ Counted(p) /\ InOrder(p)
      /\ \A t \in Sels : Accounted(p, t)
  BY DEF ServeInv
<1>2. Handles(p, "clear")
  BY DEF HandleClear
<1>3. /\ pc[p] = "loop" /\ queue[p] \in Seq(Events) /\ queue[p] # <<>>
      /\ queue' \in [Servers -> Seq(Events)]
      /\ queue'[p] = Tail(queue[p])
      /\ \A q \in Servers \ {p} : queue'[q] = queue[q]
  BY <1>2, HandleFacts
<1>4. PICK s \in Sels : NextEvent(p) = ClearOf(s)
  BY <1>2, HandleFacts, EventFacts
<1>5. Head(queue[p]) = ClearOf(s) /\ NextEvent(p).sel = s
  BY <1>2, <1>4, HandleFacts, EventFacts
<1>6. /\ \A t \in Sels : Has(queue[p], t) <=> Has(queue'[p], t) \/ t = s
      /\ \A t \in Sels : Once(queue'[p], t)
      /\ ~Has(queue'[p], s)
      /\ EndsClear(queue[p]) => EndsClear(queue'[p])
  BY <1>1, <1>3, <1>5, TailOfQueue, EventFacts DEF Accounted
<1>7. Has(queue[p], s) /\ s \notin cleared[p] /\ owner[s] # p
  BY <1>1, <1>6 DEF Accounted
<1>8. /\ cleared' = [cleared EXCEPT ![p] = @ \union {s}]
      /\ remaining' = [remaining EXCEPT ![p] = @ - 1]
      /\ pc' = [pc EXCEPT ![p] = IF remaining[p] = 1 THEN "close" ELSE "loop"]
      /\ UNCHANGED <<owner, hash, data, taken, asked, serveBudget>>
  BY <1>5 DEF HandleClear, ServeGoto, IsLast
<1>9. /\ cleared[p] \in SUBSET Sels /\ cleared'[p] = cleared[p] \union {s}
      /\ cleared' \in [Servers -> SUBSET Sels]
  BY <1>1, <1>8 DEF ServeTypeOK
<1>10. /\ remaining[p] = Left(cleared[p]) /\ remaining[p] \in 1 .. 2
       /\ remaining[p] - 1 = Left(cleared[p] \union {s})
  BY <1>1, <1>3, <1>7 DEF Counted, Left, Sels
<1>11. /\ remaining' \in [Servers -> 0 .. 2]
       /\ remaining'[p] = remaining[p] - 1
       /\ pc' \in [Servers -> ServePCs]
       /\ pc'[p] = IF remaining[p] = 1 THEN "close" ELSE "loop"
       /\ \A q \in Servers \ {p} :
            UNCHANGED <<pc[q], taken[q], remaining[q], cleared[q]>>
  BY <1>1, <1>8, <1>10 DEF ServeTypeOK, ServePCs
<1>12. ServeTypeOK'
  BY <1>1, <1>3, <1>8, <1>9, <1>11 DEF ServeTypeOK
<1>13. Counted(p)'
  BY <1>9, <1>10, <1>11 DEF Counted
<1>14. InOrder(p)'
  BY <1>1, <1>6, <1>8 DEF InOrder
<1>15. \A t \in Sels : Accounted(p, t)'
  BY <1>1, <1>6, <1>7, <1>8, <1>9, <1>11 DEF Accounted, Took
<1>16. ASSUME NEW q \in Servers \ {p}
       PROVE  Counted(q)' /\ InOrder(q)' /\ \A t \in Sels : Accounted(q, t)'
  BY <1>3, <1>8, <1>11, Untouched
<1> QED
  BY <1>12, <1>13, <1>14, <1>15, <1>16 DEF ServeInv

\* XCloseDisplay()
LEMMA CloseStep ==
  ASSUME ServeInv, NEW p \in Servers, CloseDisplay(p)
  PROVE  ServeInv'
<1> USE DEF CloseDisplay, ServeGoto
<1>1. ServeTypeOK
  BY DEF ServeInv
<1>2. /\ pc' \in [Servers -> ServePCs] /\ pc'[p] = "unmap"
  BY <1>1 DEF ServeTypeOK, ServePCs
<1>3. ServeTypeOK'
  BY <1>1, <1>2, DisconnectKeeps DEF ServeTypeOK, Askings
<1>4. Counted(p)'
  BY <1>2 DEF ServeInv, Counted
<1>5. \A q \in Servers \ {p} :
        UNCHANGED <<pc[q], taken[q], remaining[q], cleared[q]>>
  BY <1>1 DEF ServeTypeOK
<1> QED
  BY <1>2, <1>3, <1>4, <1>5, DisconnectStep

\* Whoever has left the loop has been told of the loss of both selections, so
\* that nothing can be under way to it any more.
LEMMA Finished ==
  ASSUME ServeInv, NEW p \in Servers, pc[p] \in {"close", "unmap"}
  PROVE  queue[p] = <<>> /\ \A s \in Sels : owner[s] # p
<1>1. /\ Counted(p) /\ InOrder(p) /\ \A s \in Sels : Accounted(p, s)
      /\ cleared[p] \in SUBSET Sels /\ queue[p] \in Seq(Events)
  BY DEF ServeInv, ServeTypeOK
<1>2. Left(cleared[p]) = 0
  BY <1>1 DEF Counted
<1>3. \A s \in Sels : s \in cleared[p]
  BY <1>2 DEF Left, Sels
<1>4. \A s \in Sels : owner[s] # p /\ ~Has(queue[p], s)
  BY <1>1, <1>3 DEF Accounted
<1>5. EndsClear(queue[p])
  BY <1>1, <1>4 DEF InOrder
<1>6. ASSUME queue[p] # <<>>
      PROVE  FALSE
  <2>1. Len(queue[p]) \in 1 .. Len(queue[p])
    BY <1>1, <1>6
  <2> QED
    BY <1>4, <1>5, <1>6, <2>1 DEF EndsClear, Has
<1> QED
  BY <1>4, <1>6

\* The end of main(): the queue and the selections have been gone before.
LEMMA UnmapStep ==
  ASSUME ServeInv, NEW p \in Servers, Unmap(p)
  PROVE  ServeInv'
<1>1. /\ Exit(p, "done") /\ UNCHANGED <<owner, queue, asked, serveBudget>>
      /\ queue[p] = <<>> /\ \A s \in Sels : owner[s] # p
  BY Finished DEF Unmap
<1>2. "done" \in Ended
  BY DEF Ended
<1>3. ServeTypeOK'
  BY <1>1, <1>2, ExitFacts DEF ServeInv, ServeTypeOK
<1>4. InOrder(p)' /\ \A s \in Sels : Accounted(p, s)'
  BY <1>1, <1>2, ExitFacts, EmptyQueue DEF InOrder, Accounted, Took
<1>5. ASSUME NEW q \in Servers \ {p}
      PROVE  Counted(q)' /\ InOrder(q)' /\ \A t \in Sels : Accounted(q, t)'
  BY <1>1, <1>2, ExitFacts, Untouched
<1> QED
  BY <1>1, <1>2, <1>3, <1>4, <1>5, ExitFacts DEF ServeInv

-----------------------------------------------------------------------------
\* No step breaks the invariant, whoever takes it.
LEMMA InvStep == ServeInv /\ [ServeNext]_serveVars => ServeInv'
<1> SUFFICES ASSUME ServeInv, [ServeNext]_serveVars
             PROVE  ServeInv'
  OBVIOUS
<1>1. CASE XClients
  BY <1>1, AppOwnsStep, AskStep DEF XClients
<1>2. ASSUME NEW p \in Servers, NEW h \in Hashes \union {NoHash}, Launch(p, h)
      PROVE  ServeInv'
  BY <1>2, LaunchStep
<1>3. ASSUME NEW p \in Servers,
             NEW c \in {"none", "empty", "partial", "whole"}, Fetch(p, c)
      PROVE  ServeInv'
  BY <1>3, FetchStep
<1>4. ASSUME NEW p \in Servers, ServeStep(p)
      PROVE  ServeInv'
  BY <1>4, TakeStep, CheckStep, RequestStep, ClearStep, FatalStep, CloseStep,
     UnmapStep DEF ServeStep
<1>5. CASE UNCHANGED serveVars
  <2>1. ServeTypeOK'
    BY <1>5 DEF ServeInv, ServeTypeOK, serveVars, serverVars
  <2>2. ASSUME NEW p \in Servers
        PROVE  /\ Counted(p)' /\ InOrder(p)'
               /\ \A s \in Sels : Accounted(p, s)'
    BY <1>5, Untouched DEF serveVars, serverVars
  <2> QED
    BY <2>1, <2>2 DEF ServeInv
<1> QED
  BY <1>1, <1>2, <1>3, <1>4, <1>5 DEF ServeNext

\* The invariant says what ServesUntilLost says.
LEMMA InvServes == ServeInv => ServesUntilLost
BY Finished DEF ServesUntilLost

(***************************************************************************)
(* serve_clipboard() keeps what its comment says, for any number of        *)
(* clipserve processes that take the selections from each other: its loop  *)
(* ends only when it owns nothing, has no request left to answer, and has  *)
(* counted each selection once.                                            *)
(***************************************************************************)
THEOREM ServersServeUntilLost ==
  ServeSpec => [](ServeTypeOK /\ ServesUntilLost)
<1>1. ServeInit => ServeInv
  BY InvInit
<1>2. ServeInv /\ [ServeNext]_serveVars => ServeInv'
  BY InvStep
<1>3. ServeInv => ServeTypeOK /\ ServesUntilLost
  BY InvServes DEF ServeInv
<1> QED
  BY <1>1, <1>2, <1>3, PTL DEF ServeSpec
=============================================================================
