-------------------------- MODULE ClipStoreProofs ---------------------------
(***************************************************************************)
(* Proofs about the clip store, for any number of clipdel processes, clips *)
(* and hashes and any length of the store.                                 *)
(***************************************************************************)
EXTENDS ClipStore, FiniteSetTheorems, SequenceTheorems, WellFoundedInduction,
        TLAPS

\* Where the calls pass.
InRemoval == Removing \union {"scan", "doom", "compact", "shrink"}

PlacesOf(o) ==
  CASE o = "none"    -> {"idle"}
    [] o = "add"     -> Adding \union
                          {"wait", "grow", "fill", "unlock", "fail"}
    [] o = "replace" -> Adding \union Removing \union
                          {"wait", "range", "update", "unlock", "fail"}
    [] OTHER         -> InRemoval \union {"wait", "unlock", "fail"}

\* Whether p holds the flock, by where it is.
Locked(p) ==
  \/ pc[p] \in InRemoval \union {"grow", "fill", "update", "range", "unlock"}
  \/ op[p] # "add" /\ pc[p] \in Adding \union {"fail"}

\* Which calls a process makes, and where they take it.
Control(p) ==
  /\ pc[p] \in PlacesOf(op[p])
  /\ op[p] \in {"add", "replace", "trim"} => p = Daemon
  /\ op[p] \in {"add", "replace"} => me[p].text \in Texts
  /\ lock = p <=> Locked(p)
  /\ pc[p] = "idle" => me[p] = AtRest

\* What is left to do, at each place.
Work(p) ==
  /\ me[p].todo \subseteq DOMAIN snips
  /\ ~Locked(p) => me[p].todo = {}
  /\ pc[p] \in Removing \union {"doom", "update"} => me[p].todo # {}
  /\ pc[p] \in Adding \union {"grow", "fill", "compact", "shrink", "unlock",
                              "range"} => me[p].todo = {}
  /\ op[p] = "replace" => me[p].todo \subseteq {Len(snips)}

\* What a compaction has done.
Progress(p) ==
  /\ pc[p] \notin {"compact", "shrink", "unlock"} =>
       me[p].slot = 1 /\ me[p].gap = 0
  /\ me[p].gap < me[p].slot
  /\ pc[p] = "compact" => me[p].slot <= Len(snips) + 1
  /\ pc[p] = "shrink" => me[p].slot = Len(snips) + 1

\* There is room for the snip, and then it is there.
Room(p) ==
  /\ op[p] = "add" /\ pc[p] \in Adding \union {"wait", "grow"} =>
       Len(snips) < MaxLen
  /\ pc[p] = "fill" => snips # <<>> /\ snips[Len(snips)] = Fresh(Zero)

CallInv(p) == Control(p) /\ Work(p) /\ Progress(p) /\ Room(p)

LinksFinite == \A h \in Hashes \union {NoHash} : IsFiniteSet(content[h].links)

StoreInv == TypeOK /\ LinksFinite /\ \A p \in Procs : CallInv(p)

-----------------------------------------------------------------------------
(***************************************************************************)
(* The least and the greatest element of what is left to do.               *)
(***************************************************************************)
\* A nonempty set of naturals has a least element.
LEMMA LeastElement ==
  ASSUME NEW S, S \subseteq Nat, S # {}
  PROVE  Min(S) \in S /\ \A i \in S : Min(S) <= i
<1>1. PICK x \in S : \A y \in S : ~(<<y, x>> \in OpToRel(<, Nat))
  BY NatLessThanWellFounded, WFMin
<1>2. \A y \in Nat : y < x => <<y, x>> \in OpToRel(<, Nat)
  BY DEF OpToRel
<1>3. \A y \in S : ~(y < x)
  BY <1>1, <1>2, Zenon
<1>4. \E z \in S : \A y \in S : z <= y
  BY <1>3
<1> QED
  BY <1>4, Zenon DEF Min

\* A nonempty set of naturals with a bound has a greatest element.
LEMMA GreatestElement ==
  ASSUME NEW n \in Nat, NEW S, S \subseteq 1 .. n, S # {}
  PROVE  Max(S) \in S /\ \A i \in S : i <= Max(S)
<1> DEFINE T == {k \in Nat : \A i \in S : i <= k}
<1>1. n \in T
  OBVIOUS
<1>2. Min(T) \in T /\ \A k \in T : Min(T) <= k
  BY <1>1, LeastElement
<1>3. \A i \in S : i <= Min(T)
  BY <1>2
<1>4. Min(T) \in S
  <2>1. SUFFICES ASSUME Min(T) \notin S
                 PROVE  FALSE
    OBVIOUS
  <2>2. \A i \in S : i \in Nat /\ i >= 1 /\ i <= Min(T) - 1
    BY <1>2, <1>3, <2>1
  <2>3. Min(T) - 1 \in Nat
    <3>1. PICK i \in S : i \in Nat /\ i >= 1 /\ i <= Min(T) - 1
      BY <2>2
    <3> QED
      BY <1>2, <3>1
  <2>4. Min(T) - 1 \in T
    BY <2>2, <2>3
  <2> QED
    BY <1>2, <2>3, <2>4
<1>5. \E z \in S : \A y \in S : z >= y
  BY <1>2, <1>3, <1>4
<1>6. Max(S) \in S /\ \A y \in S : Max(S) >= y
  BY <1>5, Zenon DEF Max
<1> QED
  BY <1>2, <1>6

\* What a snip and the sequence of the snips are.
Snip == [text : Texts \union {Zero}, doomed : BOOLEAN]

LEMMA SnipsTyped ==
  ASSUME StoreInv
  PROVE  /\ snips \in Seq(Snip) /\ Len(snips) \in 0 .. MaxLen
         /\ DOMAIN snips = 1 .. Len(snips)
         /\ \A i \in DOMAIN snips : snips[i] \in Snip
<1>1. snips \in Seq(Snip) /\ Len(snips) <= MaxLen
  BY DEF StoreInv, TypeOK, Snip
<1>2. \A i \in 1 .. Len(snips) : snips[i] \in Snip
  BY <1>1, ElementOfSeq
<1> QED
  BY <1>1, <1>2, LenProperties, BoundAssumption

\* The snip cs_remove() comes to next is one of those it has to remove.
LEMMA VictimIsLeft ==
  ASSUME StoreInv, NEW p \in Procs, me[p].todo # {}
  PROVE  Victim(p) \in me[p].todo /\ Victim(p) \in DOMAIN snips
<1>1. me[p].todo \subseteq 1 .. Len(snips) /\ Len(snips) \in Nat
  BY DEF StoreInv, TypeOK, CallInv, Work
<1>2. Min(me[p].todo) \in me[p].todo
  BY <1>1, LeastElement
<1>3. Max(me[p].todo) \in me[p].todo
  BY <1>1, GreatestElement
<1> QED
  BY <1>1, <1>2, <1>3 DEF Victim, StoreInv, TypeOK

-----------------------------------------------------------------------------
(***************************************************************************)
(* A step of one process, and what it leaves to the others.                *)
(***************************************************************************)
\* Only p moves, it takes or gives back the flock or leaves it alone, and
\* only who holds the flock touches the snips.
StepOf(p) ==
  /\ \A q \in Procs : q # p => /\ pc'[q] = pc[q] /\ op'[q] = op[q]
                               /\ me'[q] = me[q]
  /\ \/ lock' = lock
     \/ lock = NoProc /\ lock' = p
     \/ lock = p /\ lock' = NoProc
  /\ snips' = snips \/ lock = p
  /\ Len(snips') <= Len(snips) \/ p = Daemon

\* What is known of a call stays true when another process moves.
LEMMA OthersKeep ==
  ASSUME StoreInv, NEW p \in Procs, StepOf(p), TypeOK',
         NEW q \in Procs, q # p
  PROVE  CallInv(q)'
<1> USE DEF StepOf
<1>1. CallInv(q) /\ (snips' = snips \/ ~Locked(q))
  BY DEF StoreInv, CallInv, Control
<1>2. pc'[q] = pc[q] /\ op'[q] = op[q] /\ me'[q] = me[q]
  OBVIOUS
<1>3. Locked(q)' <=> Locked(q)
  BY <1>2 DEF Locked
<1>4. p # NoProc /\ q # NoProc
  BY ProcAssumption
<1>5. Control(q)'
  BY <1>1, <1>2, <1>3, <1>4 DEF CallInv, Control
<1>6. Work(q)'
  BY <1>1, <1>2, <1>3 DEF CallInv, Work
<1>7. Progress(q)'
  BY <1>1, <1>2 DEF CallInv, Progress, Locked, InRemoval
<1>8. Room(q)'
  <2>1. Len(snips') \in Nat /\ Len(snips) \in Nat
    BY DEF StoreInv, TypeOK
  <2>2. op[q] = "add" => Len(snips') <= Len(snips)
    BY <1>1 DEF CallInv, Control
  <2> QED
    BY <1>1, <1>2, <2>1, <2>2, BoundAssumption
       DEF CallInv, Room, Locked, InRemoval
<1> QED
  BY <1>5, <1>6, <1>7, <1>8 DEF CallInv

\* So it is enough to look at the process that moves.
LEMMA OneMoves ==
  ASSUME StoreInv, NEW p \in Procs, StepOf(p), TypeOK', LinksFinite',
         CallInv(p)'
  PROVE  StoreInv'
BY OthersKeep DEF StoreInv

\* What a step remembers, kills apart.
Booked == nrKills' = nrKills /\ raced' \in BOOLEAN

LEMMA Books ==
  /\ Remember => raced' \in BOOLEAN
  /\ UNCHANGED nrKills /\ Remember => Booked
BY DEF Remember, Booked

\* A process that is done, or ends.
LEMMA CallEnds ==
  ASSUME StoreInv, NEW p \in Procs,
         UNCHANGED <<snips, content>>, nrKills' \in 0 .. MaxKills,
         raced' \in BOOLEAN,
         pc' = [pc EXCEPT ![p] = "idle"],
         op' = [op EXCEPT ![p] = "none"],
         me' = [me EXCEPT ![p] = AtRest],
         lock' = IF lock = p THEN NoProc ELSE lock
  PROVE  StoreInv'
<1> USE DEF StoreInv
<1>1. AtRest \in Local
  BY BoundAssumption DEF AtRest, Local
<1>2. TypeOK'
  BY <1>1 DEF TypeOK, PCs, Ops
<1>3. LinksFinite'
  BY DEF LinksFinite
<1>4. pc'[p] = "idle" /\ op'[p] = "none" /\ me'[p] = AtRest
  BY DEF TypeOK
<1>5. ~Locked(p)'
  BY <1>4 DEF Locked, InRemoval, Removing, Adding
<1>6. Control(p)'
  BY <1>4, <1>5, ProcAssumption DEF Control, PlacesOf
<1>a. AtRest.todo = {} /\ AtRest.slot = 1 /\ AtRest.gap = 0
  BY DEF AtRest
<1>7. Work(p)'
  BY <1>4, <1>a DEF Work, Removing, Adding
<1>8. Progress(p)'
  BY <1>4, <1>a DEF Progress
<1>b. Room(p)'
  BY <1>4, <1>a DEF Room
<1>9. StepOf(p)
  BY DEF StepOf, TypeOK
<1> QED
  BY <1>2, <1>3, <1>6, <1>7, <1>8, <1>9, <1>b, OneMoves DEF CallInv

\* Where a call goes from inside cs_content_add(), from inside
\* cs_content_remove() and from the loop around the latter.
Onward(p, l) ==
  \/ op[p] = "add" /\ pc[p] \in Adding /\ l \in Adding \union {"wait", "fail"}
  \/ /\ op[p] = "replace" /\ pc[p] \in Adding
     /\ l \in Adding \union {"unlock", "fail"}
  \/ /\ op[p] = "replace" /\ pc[p] \in Removing
     /\ l \in Removing \union {"update", "fail"}
  \/ /\ op[p] \in {"trim", "remove"} /\ pc[p] \in Removing
     /\ l \in Removing \union {"doom", "fail"}
  \/ /\ op[p] \in {"trim", "remove"} /\ pc[p] = "scan"
     /\ l = IF me[p].todo = {} THEN "compact" ELSE "stat"

ContentType == [Hashes \union {NoHash} ->
                  [dir : BOOLEAN, links : SUBSET (Nat \ {0}),
                   data : {Empty, Partial} \union Texts]]

\* A step of these, which leaves the snips alone.
LEMMA ContentStep ==
  ASSUME StoreInv, NEW p \in Procs, NEW l, NEW n \in Nat,
         UNCHANGED <<snips, lock, op>>, Booked,
         pc' = [pc EXCEPT ![p] = l], Onward(p, l),
         me' = me \/ me' = [me EXCEPT ![p].nlink = n],
         content' \in ContentType, LinksFinite'
  PROVE  StoreInv'
<1> USE DEF StoreInv
<1>1. /\ pc'[p] = l /\ op'[p] = op[p] /\ snips' = snips /\ lock' = lock
      /\ me'[p].text = me[p].text /\ me'[p].todo = me[p].todo
      /\ me'[p].slot = me[p].slot /\ me'[p].gap = me[p].gap
  BY DEF TypeOK, Local
<1>2. l \in PCs
  BY DEF Onward, PCs, Adding, Removing
<1>3. me' \in [Procs -> Local]
  <2>1. me \in [Procs -> Local] /\ me[p] \in Local
    BY DEF TypeOK
  <2>2. [me[p] EXCEPT !.nlink = n] \in Local
    BY <2>1 DEF Local
  <2>3. [me EXCEPT ![p] = [me[p] EXCEPT !.nlink = n]] \in [Procs -> Local]
    BY <2>1, <2>2
  <2>4. [me EXCEPT ![p].nlink = n] = [me EXCEPT ![p] = [me[p] EXCEPT !.nlink = n]]
    BY <2>1
  <2> QED
    BY <2>1, <2>3, <2>4
<1>4. TypeOK'
  BY <1>2, <1>3 DEF TypeOK, ContentType, Booked
<1>5. Control(p) /\ Work(p) /\ Progress(p) /\ Room(p)
  BY DEF CallInv
<1>6. pc[p] # "idle" /\ l # "idle"
  BY DEF Onward, Adding, Removing
<1>7. Locked(p)' <=> Locked(p)
  BY <1>1 DEF Locked, Onward, InRemoval, Removing, Adding
<1>8. Control(p)'
  <2>1. l \in PlacesOf(op[p])
    BY <1>5 DEF Onward, Control, PlacesOf, InRemoval, Removing, Adding
  <2> QED
    BY <1>1, <1>5, <1>6, <1>7, <2>1 DEF Control
<1>9. Work(p)'
  <2>1. l \in Removing \union {"doom", "update"} => me[p].todo # {}
    BY <1>5 DEF Onward, Work, Removing, Adding
  <2>2. l \in Adding \union {"grow", "fill", "compact", "shrink", "unlock",
                             "range"} => me[p].todo = {}
    BY <1>5 DEF Onward, Work, Removing, Adding
  <2> QED
    BY <1>1, <1>5, <1>7, <2>1, <2>2 DEF Work
<1>a. Progress(p)'
  <2>1. me[p].slot = 1 /\ me[p].gap = 0
    BY <1>5 DEF Onward, Progress, Removing, Adding
  <2>2. l # "shrink"
    BY DEF Onward, Removing, Adding
  <2>3. Len(snips) \in Nat
    BY DEF TypeOK
  <2> QED
    BY <1>1, <2>1, <2>2, <2>3 DEF Progress
<1>b. Room(p)'
  <2>1. l \notin {"fill", "grow"} /\ (op[p] = "add" => pc[p] \in Adding)
    BY DEF Onward, Removing, Adding
  <2> QED
    BY <1>1, <1>5, <2>1 DEF Room
<1>c. StepOf(p)
  BY <1>1 DEF StepOf, TypeOK
<1> QED
  BY <1>4, <1>8, <1>9, <1>a, <1>b, <1>c, OneMoves DEF CallInv

\* The content of a hash is typed, and so is what one field of it becomes.
LEMMA ContentChange ==
  ASSUME StoreInv, NEW h \in Hashes \union {NoHash}, NEW c,
         c \in [dir : BOOLEAN, links : SUBSET (Nat \ {0}),
                data : {Empty, Partial} \union Texts],
         IsFiniteSet(c.links), content' = [content EXCEPT ![h] = c]
  PROVE  content' \in ContentType /\ LinksFinite'
<1>1. content \in ContentType
  BY DEF StoreInv, TypeOK, ContentType
<1>2. content' \in ContentType
  BY <1>1 DEF ContentType
<1>3. ASSUME NEW g \in Hashes \union {NoHash}
      PROVE  IsFiniteSet(content'[g].links)
  <2>1. content'[g] = IF g = h THEN c ELSE content[g]
    BY <1>1 DEF ContentType
  <2> QED
    BY <2>1 DEF StoreInv, LinksFinite
<1> QED
  BY <1>2, <1>3 DEF LinksFinite

\* The hash of a text and of a snip is one.
LEMMA HashesAre ==
  ASSUME StoreInv
  PROVE  /\ \A t \in Texts \union {Zero} : HashOf(t) \in Hashes \union {NoHash}
         /\ \A p \in Procs : NewHash(p) \in Hashes \union {NoHash}
         /\ \A i \in DOMAIN snips :
              HashOf(snips[i].text) \in Hashes \union {NoHash}
         /\ \A p \in Procs : me[p].todo # {} =>
              VictimHash(p) \in Hashes \union {NoHash}
<1>1. \A t \in Texts \union {Zero} : HashOf(t) \in Hashes \union {NoHash}
  BY TextAssumption DEF HashOf
<1>2. ASSUME NEW p \in Procs
      PROVE  me[p].text \in Texts \union {Zero}
  BY DEF StoreInv, TypeOK, Local
<1>3. ASSUME NEW i \in DOMAIN snips
      PROVE  snips[i].text \in Texts \union {Zero}
  BY SnipsTyped DEF Snip
<1> QED
  BY <1>1, <1>2, <1>3, VictimIsLeft DEF NewHash, VictimHash

\* The steps of cs_content_add().
LEMMA AddSteps ==
  ASSUME StoreInv, NEW p \in Procs, Booked,
         Mkdir(p) \/ StatDupe(p) \/ Link(p) \/ Create(p) \/ Write(p)
  PROVE  StoreInv'
<1> DEFINE h == NewHash(p)
           C == [dir : BOOLEAN, links : SUBSET (Nat \ {0}),
                 data : {Empty, Partial} \union Texts]
<1>1. /\ h \in Hashes \union {NoHash} /\ content[h] \in C
      /\ content \in [Hashes \union {NoHash} -> C]
      /\ content \in ContentType /\ LinksFinite
      /\ IsFiniteSet(content[h].links)
  BY HashesAre DEF StoreInv, TypeOK, LinksFinite, ContentType
<1>2. Control(p) /\ (UNCHANGED content => content' \in ContentType)
  BY <1>1 DEF StoreInv, CallInv
<1>3. (UNCHANGED content => LinksFinite') /\ me[p].nlink \in Nat
  BY <1>1 DEF LinksFinite, StoreInv, TypeOK, Local
<1>4. Cardinality(content[h].links) \in Nat
  BY <1>1, FS_CardinalityType
<1>5. ASSUME pc[p] \in Adding, NEW l,
             \/ l \in Adding \/ l = "fail" \/ l = AfterAdd(p)
      PROVE  Onward(p, l)
  BY <1>2, <1>5
     DEF Onward, AfterAdd, Control, PlacesOf, Adding, Removing, InRemoval
<1> HIDE DEF h, C
<1>6. CASE Mkdir(p)
  <2> DEFINE c == [content[h] EXCEPT !.dir = TRUE]
             l == IF content[h].dir THEN "stat_dupe" ELSE "create"
  <2>1. c \in C /\ IsFiniteSet(c.links)
    BY <1>1 DEF C
  <2>2. content' = [content EXCEPT ![h] = c]
    BY <1>6, <1>1 DEF Mkdir, h, C
  <2>3. content' \in ContentType /\ LinksFinite'
    BY <1>1, <2>1, <2>2, ContentChange DEF C
  <2>4. Onward(p, l)
    BY <1>5, <1>6 DEF Mkdir, Adding
  <2>5. pc' = [pc EXCEPT ![p] = l] /\ UNCHANGED <<snips, lock, op, me>>
    BY <1>6 DEF Mkdir, Goto, h
  <2> QED
    BY <2>3, <2>4, <2>5, ContentStep
<1>7. CASE StatDupe(p)
  <2> DEFINE l == IF 1 \in content[h].links THEN "link" ELSE "fail"
             n == Cardinality(content[h].links)
  <2>1. Onward(p, l)
    BY <1>5, <1>7 DEF StatDupe, Adding
  <2>2. /\ pc' = [pc EXCEPT ![p] = l] /\ UNCHANGED <<snips, content, lock, op>>
        /\ me' = [me EXCEPT ![p].nlink = n]
    BY <1>7 DEF StatDupe, Goto, h
  <2>3. n \in Nat
    BY <1>4
  <2> QED
    BY <1>2, <1>3, <2>1, <2>2, <2>3, ContentStep
<1>8. CASE Link(p)
  <2> DEFINE c == [content[h] EXCEPT !.links = @ \union {NewLink(p)}]
  <2>1. c \in C
    BY <1>1, <1>3 DEF C, NewLink
  <2>a. IsFiniteSet(content[h].links \union {NewLink(p)})
    BY <1>1, FS_AddElement
  <2>b. c.links = content[h].links \union {NewLink(p)}
    BY <1>1 DEF C
  <2>2. UNCHANGED <<snips, lock, op, me>>
    BY <1>8 DEF Link
  <2>3. CASE 1 \in content[h].links /\ NewLink(p) \notin content[h].links
    <3>1. content' = [content EXCEPT ![h] = c]
      BY <1>8, <1>1, <2>3 DEF Link, h, C
    <3>2. content' \in ContentType /\ LinksFinite'
      BY <1>1, <2>1, <2>a, <2>b, <3>1, ContentChange DEF C
    <3>3. pc' = [pc EXCEPT ![p] = AfterAdd(p)]
      BY <1>8, <2>3 DEF Link, Goto, h
    <3>4. Onward(p, AfterAdd(p))
      BY <1>5, <1>8 DEF Link, Adding
    <3> QED
      BY <2>2, <3>2, <3>3, <3>4, ContentStep
  <2>4. CASE ~(1 \in content[h].links /\ NewLink(p) \notin content[h].links)
    <3>1. content' = content /\ pc' = [pc EXCEPT ![p] = "fail"]
      BY <1>8, <2>4 DEF Link, Goto, h
    <3>2. Onward(p, "fail")
      BY <1>5, <1>8 DEF Link, Adding
    <3> QED
      BY <1>2, <1>3, <2>2, <3>1, <3>2, ContentStep
  <2> QED
    BY <2>3, <2>4
<1>9. CASE Create(p)
  <2> DEFINE c == [content[h] EXCEPT !.links = @ \union {1}, !.data = Empty]
  <2>1. c \in C
    <3>1. content[h].links \union {1} \in SUBSET (Nat \ {0})
      BY <1>1 DEF C
    <3>2. content[h] = [dir |-> content[h].dir, links |-> content[h].links,
                        data |-> content[h].data]
      BY <1>1 DEF C
    <3> QED
      BY <1>1, <3>1, <3>2, Zenon DEF C
  <2>a. IsFiniteSet(content[h].links \union {1})
    BY <1>1, FS_AddElement
  <2>b. c.links = content[h].links \union {1}
    BY <1>1 DEF C
  <2>2. UNCHANGED <<snips, lock, op, me>>
    BY <1>9 DEF Create
  <2>3. CASE content[h].dir /\ 1 \notin content[h].links
    <3>1. content' = [content EXCEPT ![h] = c]
      BY <1>9, <1>1, <2>3 DEF Create, h, C
    <3>2. content' \in ContentType /\ LinksFinite'
      BY <1>1, <2>1, <2>a, <2>b, <3>1, ContentChange DEF C
    <3>3. pc' = [pc EXCEPT ![p] = "write"]
      BY <1>9, <2>3 DEF Create, Goto, h
    <3>4. Onward(p, "write")
      BY <1>5, <1>9 DEF Create, Adding
    <3> QED
      BY <2>2, <3>2, <3>3, <3>4, ContentStep
  <2>4. CASE ~(content[h].dir /\ 1 \notin content[h].links)
    <3>1. content' = content /\ pc' = [pc EXCEPT ![p] = "fail"]
      BY <1>9, <2>4 DEF Create, Goto, h
    <3>2. Onward(p, "fail")
      BY <1>5, <1>9 DEF Create, Adding
    <3> QED
      BY <1>2, <1>3, <2>2, <3>1, <3>2, ContentStep
  <2> QED
    BY <2>3, <2>4
<1>a. CASE Write(p)
  <2>1. PICK d \in {Partial, me[p].text} :
          /\ content' = IF 1 \in content[h].links
                        THEN [content EXCEPT ![h].data = d] ELSE content
          /\ pc' = [pc EXCEPT ![p] =
                      IF d = Partial THEN "write" ELSE AfterAdd(p)]
    BY <1>a DEF Write, Goto, h
  <2>2. pc[p] = "write" /\ UNCHANGED <<snips, lock, op, me>>
    BY <1>a DEF Write
  <2>3. me[p].text \in Texts
    BY <1>2, <2>2 DEF Control, PlacesOf, Removing, InRemoval
  <2> DEFINE c == [content[h] EXCEPT !.data = d]
             l == IF d = Partial THEN "write" ELSE AfterAdd(p)
  <2>4. c \in C /\ IsFiniteSet(c.links)
    BY <1>1, <2>3 DEF C
  <2>5. UNCHANGED content \/ content' = [content EXCEPT ![h] = c]
    BY <1>1, <2>1 DEF C
  <2>6. content' \in ContentType /\ LinksFinite'
    BY <1>1, <1>2, <1>3, <2>4, <2>5, ContentChange DEF C
  <2>7. Onward(p, l)
    BY <1>5, <2>2 DEF Adding
  <2> QED
    BY <2>1, <2>2, <2>6, <2>7, ContentStep
<1> QED
  BY <1>6, <1>7, <1>8, <1>9, <1>a

\* The steps of cs_content_remove(), and its call in the loop of cs_remove().
LEMMA RemoveSteps ==
  ASSUME StoreInv, NEW p \in Procs, Booked,
         Stat(p) \/ Unlink(p) \/ Rmdir(p) \/ Scan(p)
  PROVE  StoreInv'
<1> DEFINE h == VictimHash(p)
           C == [dir : BOOLEAN, links : SUBSET (Nat \ {0}),
                 data : {Empty, Partial} \union Texts]
<1>1. /\ content \in ContentType /\ LinksFinite /\ me[p].nlink \in Nat
      /\ Control(p) /\ Work(p) /\ op[p] \in Ops
      /\ content \in [Hashes \union {NoHash} -> C]
  BY DEF StoreInv, TypeOK, CallInv, ContentType, Local
<1>2. UNCHANGED content => content' \in ContentType /\ LinksFinite'
  BY <1>1 DEF LinksFinite
<1>3. ASSUME pc[p] \in Removing,
             NEW l, l \in Removing \/ l = "fail" \/ l = AfterRemove(p)
      PROVE  /\ Onward(p, l) /\ h \in Hashes \union {NoHash}
             /\ content[h] \in C /\ IsFiniteSet(content[h].links)
  <2>1. me[p].todo # {}
    BY <1>1, <1>3 DEF Work
  <2>2. h \in Hashes \union {NoHash}
    BY <2>1, HashesAre
  <2>3. Onward(p, l)
    BY <1>1, <1>3
       DEF Onward, AfterRemove, Control, PlacesOf, Adding, Removing, InRemoval,
           Ops
  <2> QED
    BY <1>1, <2>2, <2>3 DEF LinksFinite
<1> HIDE DEF h, C
<1>4. CASE Stat(p)
  <2> DEFINE n == Cardinality(content[h].links)
             l == IF content[h].dir /\ 1 \in content[h].links
                  THEN "unlink" ELSE "fail"
  <2>1. pc[p] \in Removing
    BY <1>4 DEF Stat, Removing
  <2>2. /\ pc' = [pc EXCEPT ![p] = l] /\ UNCHANGED <<snips, content, lock, op>>
        /\ me' = [me EXCEPT ![p].nlink = n]
    BY <1>4 DEF Stat, Goto, h
  <2>3. n \in Nat
    BY <1>3, <2>1, FS_CardinalityType DEF Removing
  <2>4. Onward(p, l)
    BY <1>3, <2>1 DEF Removing
  <2> QED
    BY <1>2, <2>2, <2>3, <2>4, ContentStep
<1>5. CASE Unlink(p)
  <2> DEFINE c == [content[h] EXCEPT !.links = @ \ {LastLink(p)}]
             l == IF me[p].nlink = 1 THEN "rmdir" ELSE AfterRemove(p)
  <2>1. pc[p] \in Removing /\ UNCHANGED <<snips, lock, op, me>>
    BY <1>5 DEF Unlink, Removing
  <2>2. Onward(p, l) /\ Onward(p, "fail")
    BY <1>3, <2>1 DEF Removing
  <2>3. h \in Hashes \union {NoHash} /\ content[h] \in C
    BY <1>3, <2>1
  <2>4. CASE LastLink(p) \in content[h].links
    <3>1. c \in C /\ c.links = content[h].links \ {LastLink(p)}
      BY <2>3 DEF C
    <3>2. IsFiniteSet(content[h].links \ {LastLink(p)})
      BY <1>3, <2>1, FS_RemoveElement
    <3>3. content' = [content EXCEPT ![h] = c]
      BY <1>5, <1>1, <2>3, <2>4 DEF Unlink, h, C
    <3>4. content' \in ContentType /\ LinksFinite'
      BY <2>3, <3>1, <3>2, <3>3, ContentChange DEF C
    <3>5. pc' = [pc EXCEPT ![p] = l]
      BY <1>5, <2>4 DEF Unlink, Goto, h
    <3> QED
      BY <2>1, <2>2, <3>4, <3>5, ContentStep
  <2>5. CASE LastLink(p) \notin content[h].links
    <3>1. content' = content /\ pc' = [pc EXCEPT ![p] = "fail"]
      BY <1>5, <2>5 DEF Unlink, Goto, h
    <3> QED
      BY <1>1, <1>2, <2>1, <2>2, <3>1, ContentStep
  <2> QED
    BY <2>4, <2>5
<1>6. CASE Rmdir(p)
  <2>1. pc[p] \in Removing /\ UNCHANGED <<snips, lock, op, me>>
    BY <1>6 DEF Rmdir, Removing
  <2>2. Onward(p, AfterRemove(p)) /\ Onward(p, "fail")
    BY <1>3, <2>1 DEF Removing
  <2>3. h \in Hashes \union {NoHash}
    BY <1>3, <2>1
  <2>4. CASE content[h].links = {}
    <3>1. content' = [content EXCEPT ![h] = NoContent]
      BY <1>6, <2>4 DEF Rmdir, h
    <3>2. NoContent \in C /\ IsFiniteSet(NoContent.links)
      BY FS_EmptySet DEF NoContent, C
    <3>3. content' \in ContentType /\ LinksFinite'
      BY <2>3, <3>1, <3>2, ContentChange DEF C
    <3>4. pc' = [pc EXCEPT ![p] = AfterRemove(p)]
      BY <1>6, <2>4 DEF Rmdir, Goto, h
    <3> QED
      BY <1>1, <2>1, <2>2, <3>3, <3>4, ContentStep
  <2>5. CASE content[h].links # {}
    <3>1. content' = content /\ pc' = [pc EXCEPT ![p] = "fail"]
      BY <1>6, <2>5 DEF Rmdir, Goto, h
    <3> QED
      BY <1>1, <1>2, <2>1, <2>2, <3>1, ContentStep
  <2> QED
    BY <2>4, <2>5
<1>7. CASE Scan(p)
  <2> DEFINE l == IF me[p].todo = {} THEN "compact" ELSE "stat"
  <2>1. /\ pc' = [pc EXCEPT ![p] = l]
        /\ UNCHANGED <<snips, content, lock, op, me>>
    BY <1>7 DEF Scan, Goto
  <2>2. Onward(p, l)
    <3>1. op[p] \in {"trim", "remove"} /\ pc[p] = "scan"
      BY <1>1, <1>7
         DEF Scan, Control, PlacesOf, InRemoval, Adding, Removing, StoreInv,
             TypeOK, Ops
    <3> QED
      BY <3>1 DEF Onward
  <2> QED
    BY <1>1, <1>2, <2>1, <2>2, ContentStep
<1> QED
  BY <1>4, <1>5, <1>6, <1>7

\* A step on the snips, which leaves the content alone.
LEMMA SnipsStep ==
  ASSUME StoreInv, NEW p \in Procs, lock = p, NEW l \in PCs, NEW m \in Local,
         UNCHANGED <<content, lock, op>>, Booked,
         pc' = [pc EXCEPT ![p] = l], me' = [me EXCEPT ![p] = m],
         snips' \in Seq(Snip), Len(snips') <= MaxLen,
         Len(snips') <= Len(snips) \/ p = Daemon,
         CallInv(p)'
  PROVE  StoreInv'
<1> USE DEF StoreInv
<1>1. TypeOK'
  BY DEF TypeOK, Snip, Booked
<1>2. LinksFinite'
  BY DEF LinksFinite
<1>3. StepOf(p)
  BY DEF StepOf, TypeOK
<1> QED
  BY <1>1, <1>2, <1>3, OneMoves

\* The steps on the snips.
LEMMA SnipsSteps ==
  ASSUME StoreInv, NEW p \in Procs, Booked,
         \/ Grow(p) \/ Fill(p) \/ Update(p)
         \/ Doom(p) \/ Compact(p) \/ Compacted(p) \/ Shrink(p)
  PROVE  StoreInv'
<1>1. /\ snips \in Seq(Snip) /\ Len(snips) \in 0 .. MaxLen
      /\ DOMAIN snips = 1 .. Len(snips) /\ MaxLen \in Nat
      /\ \A i \in DOMAIN snips : snips[i] \in Snip
  BY SnipsTyped, BoundAssumption
<1>2. /\ me[p] \in Local /\ me \in [Procs -> Local] /\ op[p] \in Ops
      /\ pc \in [Procs -> PCs] /\ op \in [Procs -> Ops]
      /\ Control(p) /\ Work(p) /\ Progress(p) /\ Room(p)
  BY DEF StoreInv, TypeOK, CallInv
<1>3. /\ pc[p] \in {"grow", "fill", "update", "doom", "compact", "shrink"}
      /\ UNCHANGED <<content, lock, op>>
  BY DEF Grow, Fill, Update, Doom, Compact, Compacted, Shrink
<1>4. /\ lock = p /\ op[p] # "none" /\ op'[p] = op[p] /\ lock' = p
      /\ pc[p] \in {"grow", "fill"} => op[p] = "add"
      /\ pc[p] = "update" => op[p] = "replace"
      /\ pc[p] \in {"doom", "compact", "shrink"} =>
           op[p] \in {"trim", "remove"}
  BY <1>2, <1>3
     DEF Control, Locked, InRemoval, PlacesOf, Adding, Removing, Ops
<1>5. pc[p] \in {"doom", "update"} =>
        /\ Victim(p) \in me[p].todo /\ Victim(p) \in 1 .. Len(snips)
  BY <1>1, <1>2, VictimIsLeft DEF Work
<1>a. {"fill", "unlock", "mkdir", "scan", "compact", "shrink"} \subseteq PCs
  BY DEF PCs, Adding
<1>b. ASSUME Control(p)', Work(p)', Progress(p)', Room(p)'
      PROVE  CallInv(p)'
  BY <1>b DEF CallInv
<1>c. me = [me EXCEPT ![p] = me[p]]
  BY <1>2
<1>6. CASE Grow(p)
  <2>1. /\ snips' = Append(snips, Fresh(Zero)) /\ UNCHANGED me
        /\ pc' = [pc EXCEPT ![p] = "fill"] /\ pc[p] = "grow"
    BY <1>6 DEF Grow, Goto
  <2>2. Fresh(Zero) \in Snip
    BY DEF Fresh, Snip
  <2>3. /\ snips' \in Seq(Snip) /\ Len(snips') = Len(snips) + 1
        /\ snips'[Len(snips')] = Fresh(Zero)
    BY <1>1, <2>1, <2>2, AppendProperties
  <2>4. Len(snips) < MaxLen /\ op[p] = "add" /\ me[p].todo = {}
    BY <1>2, <1>4, <2>1 DEF Room, Work
  <2>5. pc'[p] = "fill" /\ me'[p] = me[p]
    BY <1>2, <2>1
  <2>6. Control(p)'
    BY <1>2, <1>4, <2>4, <2>5 DEF Control, PlacesOf, Locked
  <2>7. Work(p)'
    BY <2>4, <2>5 DEF Work, Removing
  <2>8. Progress(p)'
    BY <1>2, <2>1, <2>5 DEF Progress
  <2>9. Room(p)'
    <3>1. snips' # <<>>
      BY <1>1, <2>3
    <3> QED
      BY <2>3, <2>5, <3>1 DEF Room, Adding, Fresh
  <2> QED
    <3>1. p = Daemon
      BY <1>2, <2>4 DEF Control
    <3>2. CallInv(p)'
      BY <1>b, <2>6, <2>7, <2>8, <2>9
    <3>3. Len(snips') <= MaxLen
      BY <1>1, <2>3, <2>4
    <3> QED
      BY <1>2, <1>3, <1>4, <1>a, <1>c, <2>1, <2>3, <3>1, <3>2, <3>3, SnipsStep
<1>7. CASE Fill(p)
  <2>1. /\ snips' = [snips EXCEPT ![Len(snips)] = Fresh(me[p].text)]
        /\ pc' = [pc EXCEPT ![p] = "unlock"] /\ pc[p] = "fill"
        /\ UNCHANGED me
    BY <1>7 DEF Fill, Goto
  <2>2. Fresh(me[p].text) \in Snip
    BY <1>2 DEF Fresh, Snip, Local
  <2>3. Len(snips) \in 1 .. Len(snips)
    BY <1>1, <1>2, <2>1 DEF Room
  <2>4. snips' \in Seq(Snip) /\ Len(snips') = Len(snips)
    BY <1>1, <2>1, <2>2, <2>3, ExceptSeq
  <2>5. pc'[p] = "unlock" /\ me'[p] = me[p] /\ me[p].todo = {}
    BY <1>2, <2>1 DEF Work
  <2>6. Control(p)'
    BY <1>2, <1>4, <2>1, <2>5 DEF Control, PlacesOf, Locked
  <2>7. Work(p)'
    BY <2>5 DEF Work, Removing
  <2>8. Progress(p)'
    BY <1>2, <2>1, <2>5 DEF Progress
  <2>9. Room(p)'
    BY <2>5 DEF Room, Adding
  <2> QED
    <3>1. CallInv(p)'
      BY <1>b, <2>6, <2>7, <2>8, <2>9
    <3>2. Len(snips') <= MaxLen /\ Len(snips') <= Len(snips)
      BY <1>1, <2>4
    <3> QED
      BY <1>2, <1>3, <1>4, <1>a, <1>c, <2>1, <2>4, <3>1, <3>2,
         SnipsStep
<1>8. CASE Update(p)
  <2> DEFINE m == [me[p] EXCEPT !.todo = {}]
  <2>1. /\ snips' = [snips EXCEPT ![Victim(p)] = Fresh(me[p].text)]
        /\ pc' = [pc EXCEPT ![p] = "mkdir"] /\ pc[p] = "update"
        /\ me' = [me EXCEPT ![p].todo = {}]
    BY <1>8 DEF Update, Goto
  <2>2. Fresh(me[p].text) \in Snip
    BY <1>2 DEF Fresh, Snip, Local
  <2>3. snips' \in Seq(Snip) /\ Len(snips') = Len(snips)
    BY <1>1, <1>5, <2>1, <2>2, ExceptSeq
  <2>4. /\ m \in Local /\ m.todo = {} /\ m.text = me[p].text
        /\ m.slot = me[p].slot /\ m.gap = me[p].gap
    BY <1>2 DEF Local
  <2>5. pc'[p] = "mkdir" /\ me'[p] = m /\ me' = [me EXCEPT ![p] = m]
    BY <1>2, <2>1
  <2> HIDE DEF m
  <2>6. Control(p)'
    BY <1>2, <1>4, <2>1, <2>4, <2>5 DEF Control, PlacesOf, Locked, Adding
  <2>7. Work(p)'
    BY <2>4, <2>5 DEF Work, Removing
  <2>8. Progress(p)'
    BY <1>2, <2>1, <2>4, <2>5 DEF Progress
  <2>9. Room(p)'
    BY <1>4, <2>1, <2>5 DEF Room
  <2> QED
    <3>1. CallInv(p)'
      BY <1>b, <2>6, <2>7, <2>8, <2>9
    <3>2. Len(snips') <= MaxLen /\ Len(snips') <= Len(snips)
      BY <1>1, <2>3
    <3> QED
      BY <1>2, <1>3, <1>4, <1>a, <2>1, <2>3, <2>4, <2>5, <3>1, <3>2,
         SnipsStep
<1>9. CASE Doom(p)
  <2> DEFINE m == [me[p] EXCEPT !.todo = @ \ {Victim(p)}]
             s == [snips[Victim(p)] EXCEPT !.doomed = TRUE]
  <2>1. /\ snips' = [snips EXCEPT ![Victim(p)].doomed = TRUE]
        /\ pc' = [pc EXCEPT ![p] = "scan"] /\ pc[p] = "doom"
        /\ me' = [me EXCEPT ![p].todo = @ \ {Victim(p)}]
    BY <1>9 DEF Doom, Goto
  <2>2. s \in Snip
    BY <1>1, <1>5, <2>1 DEF Snip
  <2>3. snips' = [snips EXCEPT ![Victim(p)] = s]
    BY <1>1, <1>5, <2>1
  <2>4. snips' \in Seq(Snip) /\ Len(snips') = Len(snips)
    BY <1>1, <1>5, <2>1, <2>2, <2>3, ExceptSeq
  <2>5. /\ m \in Local /\ m.todo = me[p].todo \ {Victim(p)}
        /\ m.text = me[p].text /\ m.slot = me[p].slot /\ m.gap = me[p].gap
    BY <1>2 DEF Local
  <2>6. pc'[p] = "scan" /\ me'[p] = m /\ me' = [me EXCEPT ![p] = m]
    BY <1>2, <2>1
  <2> HIDE DEF m, s
  <2>7. Control(p)'
    BY <1>2, <1>4, <2>1, <2>5, <2>6
       DEF Control, PlacesOf, Locked, InRemoval
  <2>8. Work(p)'
    <3>1. DOMAIN snips' = DOMAIN snips
      BY <1>1, <2>4, LenProperties
    <3> QED
      BY <1>2, <1>4, <2>1, <2>5, <2>6, <3>1
         DEF Work, Removing, Adding, Locked, InRemoval
  <2>9. Progress(p)'
    BY <1>2, <2>1, <2>5, <2>6 DEF Progress
  <2>10. Room(p)'
    BY <1>4, <2>1, <2>6 DEF Room
  <2> QED
    <3>1. CallInv(p)'
      BY <1>b, <2>7, <2>8, <2>9, <2>10
    <3>2. Len(snips') <= MaxLen /\ Len(snips') <= Len(snips)
      BY <1>1, <2>4
    <3> QED
      BY <1>2, <1>3, <1>4, <1>a, <2>1, <2>4, <2>5, <2>6, <3>1, <3>2,
         SnipsStep
<1>10. CASE Compact(p)
  <2> DEFINE s == me[p].slot
             g == IF snips[s].doomed THEN me[p].gap + 1 ELSE me[p].gap
             m == [me[p] EXCEPT !.slot = s + 1, !.gap = g]
  <2>1. /\ pc[p] = "compact" /\ s <= Len(snips) /\ UNCHANGED pc
        /\ me' = [me EXCEPT ![p] = m]
        /\ snips' = IF snips[s].doomed THEN snips
                    ELSE [snips EXCEPT ![MoveTo(p)] = snips[s]]
    BY <1>10, <1>2 DEF Compact, Local
  <2>2. s \in 1 .. Len(snips) /\ me[p].gap \in Nat /\ me[p].gap < s
    BY <1>1, <1>2, <2>1 DEF Local, Progress
  <2>3. MoveTo(p) \in 1 .. Len(snips) /\ snips[s] \in Snip
    BY <1>1, <2>2 DEF MoveTo
  <2>4. snips' \in Seq(Snip) /\ Len(snips') = Len(snips)
    BY <1>1, <2>1, <2>3, ExceptSeq
  <2>5. g \in Nat /\ g < s + 1
    BY <2>2
  <2>6. /\ m \in Local /\ m.todo = me[p].todo /\ m.text = me[p].text
        /\ m.slot = s + 1 /\ m.gap = g
    <3>1. s + 1 \in 1 .. MaxLen + 1 /\ g \in 0 .. MaxLen
      BY <1>1, <2>2, <2>5
    <3> HIDE DEF s, g
    <3> QED
      BY <1>2, <3>1 DEF Local
  <2>7. pc'[p] = "compact" /\ me'[p] = m /\ pc' = [pc EXCEPT ![p] = "compact"]
    BY <1>2, <2>1
  <2>8. DOMAIN snips' = DOMAIN snips
    BY <1>1, <2>4, LenProperties
  <2> HIDE DEF m, g, s
  <2>9. Control(p)'
    BY <1>2, <1>4, <2>1, <2>6, <2>7
       DEF Control, PlacesOf, Locked, InRemoval
  <2>10. Work(p)'
    BY <1>2, <1>4, <2>1, <2>6, <2>7, <2>8 DEF Work, Removing
  <2>11. Progress(p)'
    BY <1>1, <2>2, <2>4, <2>5, <2>6, <2>7 DEF Progress
  <2>12. Room(p)'
    BY <1>4, <2>1, <2>7 DEF Room
  <2> QED
    <3>1. CallInv(p)'
      BY <1>b, <2>9, <2>10, <2>11, <2>12
    <3>2. Len(snips') <= MaxLen /\ Len(snips') <= Len(snips)
      BY <1>1, <2>4
    <3> QED
      BY <1>2, <1>3, <1>4, <1>a, <2>1, <2>4, <2>6, <2>7, <3>1, <3>2,
         SnipsStep
<1>11. CASE Compacted(p)
  <2>1. /\ pc[p] = "compact" /\ me[p].slot > Len(snips)
        /\ pc' = [pc EXCEPT ![p] = "shrink"] /\ UNCHANGED <<snips, me>>
    BY <1>11 DEF Compacted, Goto
  <2>2. pc'[p] = "shrink" /\ me'[p] = me[p] /\ me' = [me EXCEPT ![p] = me[p]]
    BY <1>2, <2>1
  <2>3. Control(p)'
    BY <1>2, <1>4, <2>1, <2>2 DEF Control, PlacesOf, Locked, InRemoval
  <2>4. Work(p)'
    BY <1>2, <1>4, <2>1, <2>2 DEF Work, Removing
  <2>5. Progress(p)'
    BY <1>1, <1>2, <2>1, <2>2 DEF Progress, Local
  <2>6. Room(p)'
    BY <1>4, <2>1, <2>2 DEF Room
  <2> QED
    <3>1. CallInv(p)'
      BY <1>b, <2>3, <2>4, <2>5, <2>6
    <3>2. Len(snips') <= MaxLen /\ Len(snips') <= Len(snips)
      BY <1>1, <2>1
    <3> QED
      BY <1>1, <1>2, <1>3, <1>4, <1>a, <2>1, <2>2, <3>1, <3>2,
         SnipsStep
<1>12. CASE Shrink(p)
  <2> DEFINE n == Len(snips) - me[p].gap
  <2>1. /\ pc[p] = "shrink" /\ snips' = SubSeq(snips, 1, n)
        /\ pc' = [pc EXCEPT ![p] = "unlock"] /\ UNCHANGED me
    BY <1>12 DEF Shrink, Goto
  <2>2. n \in 0 .. Len(snips)
    BY <1>1, <1>2, <2>1 DEF Local, Progress
  <2>3. snips' \in Seq(Snip) /\ Len(snips') = n
    BY <1>1, <2>1, <2>2, SubSeqProperties
  <2>4. /\ pc'[p] = "unlock" /\ me'[p] = me[p]
        /\ me' = [me EXCEPT ![p] = me[p]]
    BY <1>2, <2>1
  <2> HIDE DEF n
  <2>5. Control(p)'
    BY <1>2, <1>4, <2>1, <2>4 DEF Control, PlacesOf, Locked, InRemoval
  <2>6. Work(p)'
    BY <1>2, <1>4, <2>1, <2>4 DEF Work, Removing
  <2>7. Progress(p)'
    BY <1>1, <1>2, <2>1, <2>4 DEF Progress, Local
  <2>8. Room(p)'
    BY <1>4, <2>1, <2>4 DEF Room
  <2> QED
    <3>1. CallInv(p)'
      BY <1>b, <2>5, <2>6, <2>7, <2>8
    <3>2. Len(snips') <= MaxLen /\ Len(snips') <= Len(snips)
      BY <1>1, <2>2, <2>3
    <3> QED
      BY <1>2, <1>3, <1>4, <1>a, <2>1, <2>3, <2>4, <3>1, <3>2,
         SnipsStep
<1> QED
  BY <1>6, <1>7, <1>8, <1>9, <1>10, <1>11, <1>12

\* A call is made, or ends: the flock is free or stays where it is, and the
\* snips and the contents are left alone.
LEMMA CallStep ==
  ASSUME StoreInv, NEW p \in Procs, NEW l \in PCs, NEW o \in Ops,
         NEW m \in Local,
         UNCHANGED <<snips, content>>, Booked,
         lock' = lock \/ (lock = NoProc /\ lock' = p),
         pc' = [pc EXCEPT ![p] = l], op' = [op EXCEPT ![p] = o],
         me' = [me EXCEPT ![p] = m],
         CallInv(p)'
  PROVE  StoreInv'
<1> USE DEF StoreInv
<1>1. TypeOK'
  BY DEF TypeOK, Booked
<1>2. LinksFinite'
  BY DEF LinksFinite
<1>3. StepOf(p)
  BY DEF StepOf, TypeOK
<1> QED
  BY <1>1, <1>2, <1>3, OneMoves

\* The calls.
LEMMA Calls ==
  ASSUME StoreInv, Calling
  PROVE  StoreInv'
<1>1. /\ snips \in Seq(Snip) /\ Len(snips) \in 0 .. MaxLen /\ MaxLen \in Nat
      /\ me \in [Procs -> Local] /\ Daemon \in Procs
      /\ pc \in [Procs -> PCs] /\ op \in [Procs -> Ops]
      /\ \A p \in Procs : Control(p) /\ Work(p) /\ Progress(p) /\ Room(p)
  BY SnipsTyped, BoundAssumption DEF StoreInv, TypeOK, CallInv, Procs
<1>2. /\ AtRest \in Local /\ AtRest.todo = {} /\ AtRest.slot = 1
      /\ AtRest.gap = 0
  BY <1>1 DEF AtRest, Local
<1>3. ASSUME NEW p \in Procs, pc[p] = "idle"
      PROVE  me[p] = AtRest /\ ~Locked(p) /\ lock # p
  <2>1. op[p] = "none"
    BY <1>1, <1>3 DEF Control, PlacesOf, Adding, Removing, InRemoval, Ops
  <2> QED
    BY <1>1, <1>3, <2>1 DEF Control, Locked, InRemoval, Adding, Removing
<1>4. ASSUME Control(Daemon)', Work(Daemon)', Progress(Daemon)', Room(Daemon)'
      PROVE  CallInv(Daemon)'
  BY <1>4 DEF CallInv
<1>5. "mkdir" \in PCs /\ "wait" \in PCs
      /\ {"add", "replace", "trim", "remove"} \subseteq Ops
  BY DEF PCs, Adding, Ops
<1>6. ASSUME NEW t \in Texts, CallAdd(t) \/ CallReplace(t), Booked
      PROVE  StoreInv'
  <2> DEFINE m == [AtRest EXCEPT !.text = t]
             o == IF pc'[Daemon] = "mkdir" THEN "add" ELSE "replace"
             l == pc'[Daemon]
  <2>1. pc[Daemon] = "idle" /\ UNCHANGED <<snips, content, lock>>
    BY <1>6 DEF CallAdd, CallReplace
  <2>2. /\ pc' = [pc EXCEPT ![Daemon] = l] /\ pc'[Daemon] = l
        /\ op' = [op EXCEPT ![Daemon] = o] /\ op'[Daemon] = o
        /\ l \in {"mkdir", "wait"}
        /\ o = IF l = "mkdir" THEN "add" ELSE "replace"
        /\ l = "mkdir" => Len(snips) < MaxLen
    BY <1>1, <1>6 DEF CallAdd, CallReplace, Goto
  <2>3. /\ m \in Local /\ m.todo = {} /\ m.text = t /\ m.slot = 1 /\ m.gap = 0
        /\ me' = [me EXCEPT ![Daemon] = m] /\ me'[Daemon] = m
    <3>1. me[Daemon] = AtRest
      BY <1>1, <1>3, <2>1
    <3>2. me' = [me EXCEPT ![Daemon].text = t]
      BY <1>6 DEF CallAdd, CallReplace
    <3> QED
      BY <1>1, <1>2, <3>1, <3>2 DEF Local
  <2> HIDE DEF m, o, l
  <2>4. ~Locked(Daemon)' /\ lock' # Daemon
    BY <1>1, <1>3, <2>1, <2>2 DEF Locked, InRemoval, Removing, Adding
  <2>5. Control(Daemon)'
    BY <1>1, <2>2, <2>3, <2>4 DEF Control, PlacesOf, Adding
  <2>6. Work(Daemon)'
    BY <2>2, <2>3 DEF Work, Removing
  <2>7. Progress(Daemon)'
    BY <2>2, <2>3 DEF Progress
  <2>8. Room(Daemon)'
    BY <2>1, <2>2, <2>3 DEF Room
  <2>9. CallInv(Daemon)'
    BY <1>4, <2>5, <2>6, <2>7, <2>8
  <2>10. l \in PCs /\ o \in Ops
    BY <1>5, <2>2
  <2> QED
    BY <1>1, <1>6, <2>1, <2>2, <2>3, <2>9, <2>10, CallStep
<1>7. ASSUME NEW n \in 0 .. MaxLen, CallTrim(n), Booked
      PROVE  StoreInv'
  <2> DEFINE m == [AtRest EXCEPT !.keep = n]
  <2>1. /\ pc[Daemon] = "idle" /\ UNCHANGED <<snips, content, lock>>
        /\ pc' = [pc EXCEPT ![Daemon] = "wait"] /\ pc'[Daemon] = "wait"
        /\ op' = [op EXCEPT ![Daemon] = "trim"] /\ op'[Daemon] = "trim"
    BY <1>1, <1>7 DEF CallTrim, Goto
  <2>2. /\ m \in Local /\ m.todo = {} /\ m.slot = 1 /\ m.gap = 0
        /\ me' = [me EXCEPT ![Daemon] = m] /\ me'[Daemon] = m
    <3>1. me[Daemon] = AtRest
      BY <1>1, <1>3, <2>1
    <3>2. me' = [me EXCEPT ![Daemon].keep = n]
      BY <1>7 DEF CallTrim
    <3> QED
      BY <1>1, <1>2, <3>1, <3>2 DEF Local
  <2> HIDE DEF m
  <2>3. ~Locked(Daemon)' /\ lock' # Daemon
    BY <1>1, <1>3, <2>1 DEF Locked, InRemoval, Removing, Adding
  <2>4. Control(Daemon)'
    BY <1>1, <2>1, <2>2, <2>3 DEF Control, PlacesOf
  <2>5. Work(Daemon)'
    BY <2>1, <2>2 DEF Work, Removing
  <2>6. Progress(Daemon)'
    BY <2>1, <2>2 DEF Progress
  <2>7. Room(Daemon)'
    BY <2>1 DEF Room
  <2>8. CallInv(Daemon)'
    BY <1>4, <2>4, <2>5, <2>6, <2>7
  <2> QED
    BY <1>1, <1>5, <1>7, <2>1, <2>2, <2>8, CallStep
<1>8. ASSUME NEW p \in Deleters, CallRemove(p), Booked
      PROVE  StoreInv'
  <2>1. p \in Procs
    BY DEF Procs
  <2>2. /\ pc[p] = "idle" /\ UNCHANGED <<snips, content, lock, me>>
        /\ pc' = [pc EXCEPT ![p] = "wait"] /\ pc'[p] = "wait"
        /\ op' = [op EXCEPT ![p] = "remove"] /\ op'[p] = "remove"
        /\ me'[p] = AtRest /\ me' = [me EXCEPT ![p] = AtRest]
    BY <1>1, <1>3, <1>8, <2>1 DEF CallRemove, Goto
  <2>3. ~Locked(p)' /\ lock' # p
    BY <1>1, <1>3, <2>1, <2>2 DEF Locked, InRemoval, Removing, Adding
  <2>4. Control(p)'
    BY <1>1, <2>2, <2>3 DEF Control, PlacesOf
  <2>5. Work(p)'
    BY <1>2, <2>2 DEF Work, Removing
  <2>6. Progress(p)'
    BY <1>2, <2>2 DEF Progress
  <2>7. Room(p)'
    BY <2>2 DEF Room
  <2>8. CallInv(p)'
    BY <2>4, <2>5, <2>6, <2>7 DEF CallInv
  <2> QED
    BY <1>1, <1>2, <1>5, <1>8, <2>1, <2>2, <2>8, CallStep
<1> QED
  BY <1>6, <1>7, <1>8, Books DEF Calling

\* The flock is taken.
LEMMA Locks ==
  ASSUME StoreInv, NEW p \in Procs, Locking(p)
  PROVE  StoreInv'
<1>1. /\ snips \in Seq(Snip) /\ Len(snips) \in 0 .. MaxLen /\ MaxLen \in Nat
      /\ me \in [Procs -> Local] /\ DOMAIN snips = 1 .. Len(snips)
      /\ pc \in [Procs -> PCs] /\ op \in [Procs -> Ops]
      /\ Control(p) /\ Work(p) /\ Progress(p) /\ Room(p)
  BY SnipsTyped, BoundAssumption DEF StoreInv, TypeOK, CallInv
<1>2. /\ pc[p] = "wait" /\ lock = NoProc /\ lock' = p
      /\ UNCHANGED <<snips, content, op>> /\ Booked
  BY Books DEF Locking, LockAdd, LockReplace, LockTrim, LockRemove, LockFor
<1>3. me[p].slot = 1 /\ me[p].gap = 0 /\ me[p].todo = {}
  BY <1>1, <1>2
     DEF Progress, Work, Locked, InRemoval, Removing, Adding
<1>4. op' = [op EXCEPT ![p] = op[p]] /\ op'[p] = op[p]
  BY <1>1, <1>2
<1>5. CASE LockAdd(p)
  <2>1. /\ op[p] = "add" /\ me' = me /\ me'[p] = me[p]
        /\ pc' = [pc EXCEPT ![p] = "grow"] /\ pc'[p] = "grow"
        /\ me' = [me EXCEPT ![p] = me[p]]
    BY <1>1, <1>5 DEF LockAdd, Goto
  <2>2. Control(p)'
    BY <1>1, <1>2, <1>4, <2>1 DEF Control, PlacesOf, Locked
  <2>3. Work(p)'
    BY <1>2, <1>3, <1>4, <2>1 DEF Work, Removing
  <2>4. Progress(p)'
    BY <1>3, <2>1 DEF Progress
  <2>5. Room(p)'
    BY <1>1, <1>2, <1>4, <2>1 DEF Room
  <2>6. CallInv(p)'
    BY <2>2, <2>3, <2>4, <2>5 DEF CallInv
  <2>7. "grow" \in PCs
    BY DEF PCs
  <2> QED
    BY <1>1, <1>2, <1>4, <2>1, <2>6, <2>7, CallStep
<1>6. ASSUME NEW victims \in SUBSET (1 .. Len(snips)), LockFor(p, victims),
             NEW l, Goto(p, l), op[p] \in {"replace", "trim", "remove"},
             \/ l = "range" /\ op[p] = "replace" /\ victims = {}
             \/ l = "unlock" /\ op[p] # "replace" /\ victims = {}
             \/ l = "scan" /\ op[p] # "replace"
             \/ l = "stat" /\ op[p] = "replace" /\ victims = {Len(snips)}
      PROVE  StoreInv'
  <2> DEFINE m == [me[p] EXCEPT !.todo = victims]
  <2>1. /\ m \in Local /\ m.todo = victims /\ m.slot = 1 /\ m.gap = 0
        /\ m.text = me[p].text
        /\ me' = [me EXCEPT ![p] = m] /\ me'[p] = m
    <3>1. victims \in SUBSET (1 .. MaxLen)
      BY <1>1
    <3>2. me' = [me EXCEPT ![p].todo = victims]
      BY <1>6 DEF LockFor
    <3> QED
      BY <1>1, <1>3, <3>1, <3>2 DEF Local
  <2>2. pc' = [pc EXCEPT ![p] = l] /\ pc'[p] = l
    BY <1>1, <1>6 DEF Goto
  <2> HIDE DEF m
  <2>3. l \in {"range", "unlock", "scan", "stat"}
    BY <1>6
  <2>4. Locked(p)'
    BY <2>2, <2>3 DEF Locked, InRemoval, Removing
  <2>5. Control(p)'
    BY <1>1, <1>2, <1>4, <1>6, <2>1, <2>2, <2>4
       DEF Control, PlacesOf, InRemoval, Removing
  <2>6. Work(p)'
    <3>1. /\ l = "stat" => victims # {}
          /\ l \in {"range", "unlock"} => victims = {}
          /\ op[p] = "replace" => victims \subseteq {Len(snips)}
      BY <1>6
    <3> QED
      BY <1>1, <1>2, <1>4, <2>1, <2>2, <2>3, <2>4, <3>1
         DEF Work, Removing, Adding
  <2>7. Progress(p)'
    BY <2>1, <2>2, <2>3 DEF Progress
  <2>8. Room(p)'
    BY <1>4, <1>6, <2>2, <2>3 DEF Room
  <2>9. CallInv(p)'
    BY <2>5, <2>6, <2>7, <2>8 DEF CallInv
  <2>10. l \in PCs
    BY <2>3 DEF PCs, Removing
  <2> QED
    BY <1>1, <1>2, <1>4, <2>1, <2>2, <2>9, <2>10, CallStep
<1>7. CASE LockReplace(p)
  <2>1. CASE snips = <<>>
    BY <1>6, <1>7, <2>1 DEF LockReplace
  <2>2. CASE snips # <<>>
    <3>1. {Len(snips)} \in SUBSET (1 .. Len(snips))
      BY <1>1, <2>2
    <3> QED
      BY <1>6, <1>7, <2>2, <3>1 DEF LockReplace
  <2> QED
    BY <2>1, <2>2
<1>8. CASE LockTrim(p)
  <2> DEFINE victims == {i \in DOMAIN snips : i + me[p].keep <= Len(snips)}
             l == IF Len(snips) <= me[p].keep THEN "unlock" ELSE "scan"
  <2>1. LockFor(p, victims) /\ Goto(p, l) /\ op[p] = "trim"
    BY <1>8 DEF LockTrim
  <2>2. victims \in SUBSET (1 .. Len(snips))
    BY <1>1
  <2>3. Len(snips) <= me[p].keep => victims = {}
    BY <1>1 DEF Local
  <2> HIDE DEF victims
  <2> QED
    BY <1>6, <2>1, <2>2, <2>3
<1>9. CASE LockRemove(p)
  <2>1. PICK lines \in SUBSET (Texts \union {Zero}) :
          LET victims == {i \in DOMAIN snips : snips[i].text \in lines}
          IN  /\ LockFor(p, victims)
              /\ Goto(p, IF victims = {} THEN "unlock" ELSE "scan")
    BY <1>9 DEF LockRemove
  <2> DEFINE victims == {i \in DOMAIN snips : snips[i].text \in lines}
  <2>2. victims \in SUBSET (1 .. Len(snips)) /\ op[p] = "remove"
    BY <1>1, <1>9 DEF LockRemove
  <2>3. /\ LockFor(p, victims)
        /\ Goto(p, IF victims = {} THEN "unlock" ELSE "scan")
    BY <2>1
  <2> HIDE DEF victims
  <2> QED
    BY <1>6, <2>2, <2>3
<1> QED
  BY <1>5, <1>7, <1>8, <1>9 DEF Locking

\* A call returns, or its process ends.
LEMMA Ends ==
  ASSUME StoreInv, NEW p \in Procs,
         \/ (Unlock(p) \/ Abort(p)) /\ Booked
         \/ Kill(p)
  PROVE  StoreInv'
<1>1. nrKills \in 0 .. MaxKills /\ MaxKills \in Nat /\ Control(p)
  BY BoundAssumption DEF StoreInv, TypeOK, CallInv
<1>2. nrKills' \in 0 .. MaxKills /\ raced' \in BOOLEAN
  BY <1>1, Books DEF Kill, Booked
<1>3. Unlock(p) => lock = p
  BY <1>1 DEF Unlock, Control, Locked
<1> QED
  BY <1>2, <1>3, CallEnds DEF Unlock, Abort, Kill, Vanish, Goto

LEMMA StoreInit == Init => StoreInv
<1> SUFFICES ASSUME Init
             PROVE  StoreInv
  OBVIOUS
<1> USE DEF Init
<1>1. AtRest \in Local
  BY BoundAssumption DEF AtRest, Local
<1>2. TypeOK
  <2>1. content \in ContentType
    BY DEF ContentType, NoContent
  <2>2. /\ lock \in Procs \union {NoProc} /\ pc \in [Procs -> PCs]
        /\ op \in [Procs -> Ops] /\ me \in [Procs -> Local]
    BY <1>1 DEF PCs, Ops
  <2>3. raced \in BOOLEAN
    OBVIOUS
  <2> QED
    BY <2>1, <2>2, <2>3, BoundAssumption DEF TypeOK, ContentType
<1>3. LinksFinite
  BY FS_EmptySet DEF LinksFinite, NoContent
<1>4. ASSUME NEW p \in Procs
      PROVE  CallInv(p)
  <2>1. /\ pc[p] = "idle" /\ op[p] = "none" /\ me[p] = AtRest /\ lock # p
        /\ AtRest.todo = {} /\ AtRest.slot = 1 /\ AtRest.gap = 0
    BY ProcAssumption DEF AtRest
  <2>2. Control(p)
    BY <2>1 DEF Control, PlacesOf, Locked, InRemoval, Removing, Adding
  <2>3. Work(p)
    BY <2>1 DEF Work, Removing
  <2>4. Progress(p)
    BY <2>1 DEF Progress
  <2>5. Room(p)
    BY <2>1 DEF Room
  <2> QED
    BY <2>2, <2>3, <2>4, <2>5 DEF CallInv
<1> QED
  BY <1>2, <1>3, <1>4 DEF StoreInv

LEMMA StoreNext ==
  ASSUME StoreInv, [Next]_vars
  PROVE  StoreInv'
<1>1. CASE UNCHANGED vars
  BY <1>1
     DEF vars, StoreInv, TypeOK, LinksFinite, CallInv, Control, Work, Progress,
         Room, Locked
<1>2. CASE Calling
  BY <1>2, Calls
<1>3. ASSUME NEW p \in Procs, Locking(p)
      PROVE  StoreInv'
  BY <1>3, Locks
<1>4. ASSUME NEW p \in Procs, Step(p)
      PROVE  StoreInv'
  BY <1>4, AddSteps, RemoveSteps, SnipsSteps, Ends, Books DEF Step
<1>5. ASSUME NEW p \in Procs, Kill(p)
      PROVE  StoreInv'
  BY <1>5, Ends
<1> QED
  BY <1>1, <1>2, <1>3, <1>4, <1>5 DEF Next

LEMMA StoreInvariant == Spec => []StoreInv
BY StoreInit, StoreNext, PTL DEF Spec

(***************************************************************************)
(* The variables keep their types and bounds, whoever is killed wherever,  *)
(* and whoever adds what is being removed: the victim is always one of the *)
(* snips, a compaction never reads or writes beyond them, and there is     *)
(* room for the snip that is added.                                        *)
(***************************************************************************)
THEOREM StoreTypes == Spec => []TypeOK
<1>1. StoreInv => TypeOK
  BY DEF StoreInv
<1> QED
  BY <1>1, StoreInvariant, PTL

-----------------------------------------------------------------------------
(***************************************************************************)
(* KeepsOthers: no clip is lost but those that are to be removed.          *)
(***************************************************************************)
OnSnips(p) ==
  Grow(p) \/ Fill(p) \/ Update(p) \/ Doom(p) \/ Compact(p) \/ Shrink(p)

\* A step is one of a process p; the others, and the snips unless p works on
\* them, stay as they are.
LEMMA EachStep ==
  ASSUME StoreInv, Next
  PROVE  \E p \in Procs :
           /\ \A q \in Procs \ {p} : /\ pc'[q] = pc[q] /\ op'[q] = op[q]
                                     /\ me'[q] = me[q]
           /\ snips' = snips \/ (OnSnips(p) /\ Step(p))
           /\ pc'[p] \in {"compact", "shrink"} =>
                Scan(p) \/ Compact(p) \/ Compacted(p)
<1> USE DEF StoreInv, TypeOK
<1>1. CASE Calling
  <2>1. CASE \E t \in Texts : CallAdd(t) \/ CallReplace(t)
    BY <2>1 DEF CallAdd, CallReplace, Goto, Procs
  <2>2. CASE \E n \in 0 .. MaxLen : CallTrim(n)
    BY <2>2 DEF CallTrim, Goto, Procs
  <2>3. CASE \E p \in Deleters : CallRemove(p)
    BY <2>3 DEF CallRemove, Goto, Procs
  <2> QED
    BY <1>1, <2>1, <2>2, <2>3 DEF Calling
<1>2. ASSUME NEW p \in Procs, Locking(p)
      PROVE  /\ \A q \in Procs \ {p} : /\ pc'[q] = pc[q] /\ op'[q] = op[q]
                                       /\ me'[q] = me[q]
             /\ snips' = snips
             /\ pc'[p] \notin {"compact", "shrink"}
  BY <1>2
     DEF Locking, LockAdd, LockReplace, LockTrim, LockRemove, LockFor, Goto
<1>3. ASSUME NEW p \in Procs, Step(p)
      PROVE  /\ \A q \in Procs \ {p} : /\ pc'[q] = pc[q] /\ op'[q] = op[q]
                                       /\ me'[q] = me[q]
             /\ snips' = snips \/ (OnSnips(p) /\ Step(p))
             /\ pc'[p] \in {"compact", "shrink"} =>
                  Scan(p) \/ Compact(p) \/ Compacted(p)
  <2>1. CASE Mkdir(p) \/ StatDupe(p) \/ Link(p) \/ Create(p) \/ Write(p)
    BY <2>1 DEF Mkdir, StatDupe, Link, Create, Write, AfterAdd, Goto
  <2>2. CASE Stat(p) \/ Unlink(p) \/ Rmdir(p) \/ Scan(p) \/ Compacted(p)
    BY <2>2 DEF Stat, Unlink, Rmdir, Scan, Compacted, AfterRemove, Goto
  <2>3. CASE Grow(p) \/ Fill(p) \/ Update(p)
    BY <1>3, <2>3 DEF Grow, Fill, Update, Goto, OnSnips
  <2>4. CASE Doom(p) \/ Compact(p) \/ Shrink(p)
    BY <1>3, <2>4 DEF Doom, Compact, Shrink, Goto, OnSnips
  <2>5. CASE Unlock(p) \/ Abort(p)
    BY <2>5 DEF Unlock, Abort, Vanish, Goto
  <2> QED
    BY <1>3, <2>1, <2>2, <2>3, <2>4, <2>5 DEF Step
<1>4. ASSUME NEW p \in Procs, Kill(p)
      PROVE  /\ \A q \in Procs \ {p} : /\ pc'[q] = pc[q] /\ op'[q] = op[q]
                                       /\ me'[q] = me[q]
             /\ snips' = snips
             /\ pc'[p] \notin {"compact", "shrink"}
  BY <1>4 DEF Kill, Vanish, Goto
<1> QED
  BY <1>1, <1>2, <1>3, <1>4 DEF Next

\* In a compaction of p, what lies before the gap stays, and in the gap there
\* is nothing to lose: a snip there is doomed, or one before the gap has its
\* text.
GapEmpty(p) ==
  pc[p] \in {"compact", "shrink"} =>
    LET first == me[p].slot - me[p].gap
    IN  /\ \A i \in 1 .. first - 1 : ~snips[i].doomed
        /\ \A i \in first .. me[p].slot - 1 :
             \/ snips[i].doomed
             \/ \E j \in 1 .. first - 1 : snips[j].text = snips[i].text

GapInv == \A p \in Procs : GapEmpty(p)

\* One round of a compaction: the snip that is overwritten was in the gap.
LEMMA CompactKeeps ==
  ASSUME StoreInv, NEW p \in Procs, GapEmpty(p), Compact(p)
  PROVE  GapEmpty(p)' /\ \A t \in Texts : Live(t) => Live(t)'
<1> DEFINE s == me[p].slot
           d == me[p].gap
<1>1. /\ snips \in Seq(Snip) /\ Len(snips) \in Nat
      /\ DOMAIN snips = 1 .. Len(snips)
      /\ \A i \in DOMAIN snips : snips[i] \in Snip
  BY SnipsTyped
<1>2. /\ pc[p] = "compact" /\ UNCHANGED pc
      /\ me[p] \in Local /\ me \in [Procs -> Local] /\ Progress(p)
  BY DEF Compact, StoreInv, TypeOK, CallInv
<1>3. s \in 1 .. Len(snips) /\ d \in Nat /\ d < s
  BY <1>1, <1>2 DEF Compact, Local, Progress
<1>4. /\ \A i \in 1 .. s - d - 1 : ~snips[i].doomed
      /\ \A i \in s - d .. s - 1 :
           \/ snips[i].doomed
           \/ \E j \in 1 .. s - d - 1 : snips[j].text = snips[i].text
  BY <1>2 DEF GapEmpty
<1>5. CASE snips[s].doomed
  <2>1. snips' = snips /\ me'[p].slot = s + 1 /\ me'[p].gap = d + 1
    BY <1>2, <1>5 DEF Compact, Local
  <2>2. me'[p].slot - me'[p].gap = s - d /\ me'[p].slot - 1 = s
    BY <1>3, <2>1
  <2> HIDE DEF s, d
  <2>3. \A i \in s - d .. s :
          \/ snips[i].doomed
          \/ \E j \in 1 .. s - d - 1 : snips[j].text = snips[i].text
    BY <1>3, <1>4, <1>5
  <2>4. GapEmpty(p)'
    BY <1>4, <2>1, <2>2, <2>3, Zenon DEF GapEmpty
  <2> QED
    BY <2>1, <2>4 DEF Live
<1>6. CASE ~snips[s].doomed
  <2>1. /\ snips' = [snips EXCEPT ![s - d] = snips[s]]
        /\ me'[p].slot = s + 1 /\ me'[p].gap = d
    BY <1>2, <1>6 DEF Compact, Local, MoveTo
  <2> HIDE DEF s, d
  <2>2. s - d \in 1 .. Len(snips) /\ snips[s] \in Snip
    BY <1>1, <1>3
  <2>3. /\ DOMAIN snips' = 1 .. Len(snips)
        /\ \A i \in 1 .. Len(snips) :
             snips'[i] = IF i = s - d THEN snips[s] ELSE snips[i]
    BY <1>1, <2>1, <2>2
  <2>4. \A i \in 1 .. s - d : ~snips'[i].doomed
    <3> SUFFICES ASSUME NEW i \in 1 .. s - d
                 PROVE  ~snips'[i].doomed
      OBVIOUS
    <3>1. i \in 1 .. Len(snips)
      BY <1>3
    <3>2. i # s - d => i \in 1 .. s - d - 1
      BY <1>3
    <3> QED
      BY <1>4, <1>6, <2>3, <3>1, <3>2
  <2>5. ASSUME NEW i \in s + 1 - d .. s
        PROVE  \/ snips'[i].doomed
               \/ \E j \in 1 .. s - d : snips'[j].text = snips'[i].text
    <3>1. i \in 1 .. Len(snips) /\ s - d \in 1 .. s - d
      BY <1>3, <2>2
    <3>2. CASE i = s
      BY <2>2, <2>3, <3>1, <3>2
    <3>3. CASE i # s
      <4>1. i \in s - d .. s - 1 /\ snips'[i] = snips[i]
        BY <1>3, <2>3, <3>1, <3>3
      <4>2. \A j \in 1 .. s - d - 1 : snips'[j] = snips[j]
        BY <1>3, <2>3
      <4> QED
        BY <1>3, <1>4, <4>1, <4>2
    <3> QED
      BY <3>2, <3>3
  <2>6. GapEmpty(p)'
    <3>1. /\ me'[p].slot - me'[p].gap = s + 1 - d
          /\ me'[p].slot - me'[p].gap - 1 = s - d /\ me'[p].slot - 1 = s
      BY <1>3, <2>1
    <3> QED
      BY <2>4, <2>5, <3>1, Zenon DEF GapEmpty
  <2>7. ASSUME NEW t \in Texts, Live(t)
        PROVE  Live(t)'
    <3>1. PICK i \in 1 .. Len(snips) : snips[i].text = t /\ ~snips[i].doomed
      BY <1>1, <2>7 DEF Live
    <3>2. CASE i # s - d
      BY <2>3, <3>1, <3>2 DEF Live
    <3>3. CASE i = s - d
      <4>1. CASE d = 0
        BY <1>3, <2>3, <3>1, <3>3, <4>1 DEF Live
      <4>2. CASE d # 0
        <5>1. PICK j \in 1 .. s - d - 1 : snips[j].text = t
          BY <1>3, <1>4, <3>1, <3>3, <4>2
        <5>2. snips'[j].text = t /\ ~snips'[j].doomed /\ j \in DOMAIN snips'
          BY <1>3, <1>4, <2>3, <5>1
        <5> QED
          BY <5>2 DEF Live
      <4> QED
        BY <4>1, <4>2
    <3> QED
      BY <3>2, <3>3
  <2> QED
    BY <2>6, <2>7
<1> QED
  BY <1>5, <1>6

\* The cut takes the gap away.
LEMMA ShrinkKeeps ==
  ASSUME StoreInv, NEW p \in Procs, GapEmpty(p), Shrink(p),
         NEW t \in Texts, Live(t)
  PROVE  Live(t)'
<1> DEFINE s == me[p].slot
           d == me[p].gap
<1>1. /\ snips \in Seq(Snip) /\ Len(snips) \in Nat
      /\ DOMAIN snips = 1 .. Len(snips)
      /\ \A i \in 1 .. Len(snips) : snips[i] \in Snip
  BY SnipsTyped
<1>2. /\ pc[p] = "shrink" /\ snips' = SubSeq(snips, 1, Len(snips) - d)
      /\ me[p] \in Local /\ Progress(p)
  BY DEF Shrink, StoreInv, TypeOK, CallInv
<1>3. s = Len(snips) + 1 /\ d \in Nat /\ d < s
  BY <1>2 DEF Local, Progress
<1>4. /\ \A i \in 1 .. s - d - 1 : ~snips[i].doomed
      /\ \A i \in s - d .. s - 1 :
           \/ snips[i].doomed
           \/ \E j \in 1 .. s - d - 1 : snips[j].text = snips[i].text
  BY <1>2 DEF GapEmpty
<1> HIDE DEF s, d
<1>5. Len(snips) - d = s - d - 1 /\ s - d - 1 \in 0 .. Len(snips)
  BY <1>1, <1>3
<1>6. /\ snips' \in Seq(Snip) /\ Len(snips') = s - d - 1
      /\ \A i \in 1 .. s - d - 1 : snips'[i] = snips[i]
  BY <1>1, <1>2, <1>5, SubSeqProperties
<1>7. DOMAIN snips' = 1 .. s - d - 1
  BY <1>6, LenProperties
<1>8. PICK i \in 1 .. Len(snips) : snips[i].text = t /\ ~snips[i].doomed
  BY <1>1 DEF Live
<1>9. \E j \in 1 .. s - d - 1 : snips[j].text = t
  <2>1. CASE i \in 1 .. s - d - 1
    BY <2>1, <1>8
  <2>2. CASE i \notin 1 .. s - d - 1
    <3>1. i \in s - d .. s - 1
      BY <2>2, <1>1, <1>3, <1>5, <1>8
    <3> QED
      BY <3>1, <1>4, <1>8
  <2> QED
    BY <2>1, <2>2
<1> QED
  BY <1>4, <1>6, <1>7, <1>9 DEF Live

LEMMA GapInit == Init => GapInv
BY DEF Init, GapInv, GapEmpty

LEMMA GapNext ==
  ASSUME StoreInv, GapInv, [Next]_vars
  PROVE  GapInv'
<1>1. CASE UNCHANGED vars
  BY <1>1 DEF vars, GapInv, GapEmpty
<1>2. CASE Next
  <2>1. PICK p \in Procs :
          /\ \A q \in Procs \ {p} : pc'[q] = pc[q] /\ me'[q] = me[q]
          /\ snips' = snips \/ (OnSnips(p) /\ Step(p))
          /\ pc'[p] \in {"compact", "shrink"} =>
               Scan(p) \/ Compact(p) \/ Compacted(p)
    BY <1>2, EachStep
  <2>2. ASSUME NEW q \in Procs, q # p
        PROVE  GapEmpty(q)'
    <3>1. pc'[q] = pc[q] /\ me'[q] = me[q] /\ GapEmpty(q)
      BY <2>1, <2>2 DEF GapInv
    <3>2. CASE snips' = snips
      BY <3>1, <3>2 DEF GapEmpty
    <3>3. CASE OnSnips(p)
      <4>1. pc[p] \in {"grow", "fill", "update", "doom", "compact", "shrink"}
        BY <3>3 DEF OnSnips, Grow, Fill, Update, Doom, Compact, Shrink
      <4>2. lock = p /\ (lock = q <=> Locked(q))
        BY <4>1 DEF StoreInv, CallInv, Control, Locked, InRemoval
      <4>3. pc[q] \notin {"compact", "shrink"}
        BY <2>2, <4>2 DEF Locked, InRemoval
      <4> QED
        BY <3>1, <4>3 DEF GapEmpty
    <3> QED
      BY <2>1, <3>2, <3>3
  <2>3. GapEmpty(p)'
    <3>1. pc \in [Procs -> PCs] /\ Progress(p) /\ me[p] \in Local
      BY DEF StoreInv, TypeOK, CallInv
    <3>2. CASE Scan(p)
      <4>1. me[p].slot = 1 /\ me[p].gap = 0 /\ me' = me
        BY <3>1, <3>2 DEF Scan, Progress
      <4> QED
        BY <4>1 DEF GapEmpty
    <3>3. CASE Compact(p)
      BY <3>3, CompactKeeps DEF GapInv
    <3>4. CASE Compacted(p)
      <4>1. pc[p] = "compact" /\ UNCHANGED <<snips, me>>
        BY <3>4 DEF Compacted
      <4> QED
        BY <4>1 DEF GapInv, GapEmpty
    <3>5. CASE pc'[p] \notin {"compact", "shrink"}
      BY <3>5 DEF GapEmpty
    <3> QED
      BY <2>1, <3>2, <3>3, <3>4, <3>5
  <2> QED
    BY <2>2, <2>3 DEF GapInv
<1> QED
  BY <1>1, <1>2

\* What KeepsOthers says of a step.
KeepsStep ==
  \A t \in Texts :
    Live(t) => \/ Live(t)'
               \/ \E p \in Procs : /\ pc[p] \in {"doom", "update"}
                                    /\ snips[Victim(p)].text = t

LEMMA StepsKeepOthers ==
  ASSUME StoreInv, GapInv, [Next]_vars
  PROVE  [KeepsStep]_vars
<1> SUFFICES ASSUME Next, NEW t \in Texts, Live(t),
                    \A p \in Procs : pc[p] \in {"doom", "update"} =>
                                       snips[Victim(p)].text # t
             PROVE  Live(t)'
  BY Zenon DEF KeepsStep
<1>1. /\ snips \in Seq(Snip) /\ Len(snips) \in Nat
      /\ DOMAIN snips = 1 .. Len(snips)
      /\ \A i \in 1 .. Len(snips) : snips[i] \in Snip
  BY SnipsTyped
<1>2. PICK p \in Procs : snips' = snips \/ OnSnips(p)
  BY EachStep
<1>3. CASE snips' = snips
  BY <1>3 DEF Live
<1>4. PICK i \in 1 .. Len(snips) : snips[i].text = t /\ ~snips[i].doomed
  BY <1>1 DEF Live
<1>5. Room(p) /\ Work(p) /\ me[p] \in Local
  BY DEF StoreInv, CallInv, TypeOK
<1>6. t # Zero
  BY TextAssumption
<1>7. CASE Grow(p)
  <2>1. snips' = Append(snips, Fresh(Zero)) /\ Fresh(Zero) \in Snip
    BY <1>7 DEF Grow, Fresh, Snip
  <2>2. /\ snips' \in Seq(Snip) /\ Len(snips') = Len(snips) + 1
        /\ \A j \in 1 .. Len(snips) : snips'[j] = snips[j]
    BY <1>1, <2>1, AppendProperties
  <2>3. i \in DOMAIN snips'
    BY <1>1, <2>2, LenProperties
  <2> QED
    BY <1>4, <2>2, <2>3 DEF Live
<1>8. CASE Fill(p)
  <2>1. snips[Len(snips)].text = Zero
    BY <1>5, <1>8 DEF Fill, Room, Fresh
  <2>2. i # Len(snips)
    BY <1>4, <1>6, <2>1
  <2>3. snips' = [snips EXCEPT ![Len(snips)] = Fresh(me[p].text)]
    BY <1>8 DEF Fill
  <2>4. i \in DOMAIN snips' /\ snips'[i] = snips[i]
    BY <1>1, <2>2, <2>3
  <2> QED
    BY <1>4, <2>4 DEF Live
<1>9. CASE Update(p)
  <2>1. /\ pc[p] = "update"
        /\ snips' = [snips EXCEPT ![Victim(p)] = Fresh(me[p].text)]
    BY <1>9 DEF Update
  <2>2. i # Victim(p)
    BY <1>4, <2>1
  <2>3. i \in DOMAIN snips' /\ snips'[i] = snips[i]
    BY <1>1, <2>1, <2>2
  <2> QED
    BY <1>4, <2>3 DEF Live
<1>10. CASE Doom(p)
  <2>1. pc[p] = "doom" /\ snips' = [snips EXCEPT ![Victim(p)].doomed = TRUE]
    BY <1>10 DEF Doom
  <2>2. i # Victim(p)
    BY <1>4, <2>1
  <2>3. i \in DOMAIN snips' /\ snips'[i] = snips[i]
    BY <1>1, <2>1, <2>2
  <2> QED
    BY <1>4, <2>3 DEF Live
<1>11. CASE Compact(p)
  BY <1>11, CompactKeeps DEF GapInv
<1>12. CASE Shrink(p)
  BY <1>12, ShrinkKeeps DEF GapInv
<1> QED
  BY <1>2, <1>3, <1>7, <1>8, <1>9, <1>10, <1>11, <1>12 DEF OnSnips

(***************************************************************************)
(* KeepsOthers, of any number of processes, killed at any number of        *)
(* points: cs_remove() takes no clip away but those it was asked to, for   *)
(* in the gap that it closes there is at any moment nothing but doomed     *)
(* snips and snips that have been copied.                                  *)
(***************************************************************************)
THEOREM OthersAreKept == Spec => KeepsOthers
<1>1. StoreInv /\ GapInv /\ [Next]_vars => [KeepsStep]_vars
  BY StepsKeepOthers
<1>2. Init => StoreInv /\ GapInv
  BY StoreInit, GapInit
<1>3. StoreInv /\ GapInv /\ [Next]_vars => StoreInv' /\ GapInv'
  BY StoreNext, GapNext
<1> QED
  BY <1>1, <1>2, <1>3, PTL DEF Spec, KeepsOthers, KeepsStep

-----------------------------------------------------------------------------
(***************************************************************************)
(* ImplementsLog: with nobody killed, the store is a log.                  *)
(***************************************************************************)
LEMMA PlacesFinite ==
  ASSUME NEW n \in Nat, NEW S \in SUBSET (1 .. n)
  PROVE  /\ IsFiniteSet(S) /\ Cardinality(S) \in 0 .. n
         /\ Cardinality(1 .. n) = n /\ (Cardinality(S) = n => S = 1 .. n)
<1>1. 1 \in Int /\ n \in Int
  OBVIOUS
<1>2. IsFiniteSet(1 .. n) /\ Cardinality(1 .. n) = n
  BY <1>1, FS_Interval
<1>3. /\ IsFiniteSet(S) /\ Cardinality(S) <= n
      /\ Cardinality(S) = n => S = 1 .. n
  BY <1>2, FS_Subset
<1>4. Cardinality(S) \in Nat
  BY <1>3, FS_CardinalityType
<1> QED
  BY <1>2, <1>3, <1>4

\* A set of places has one enumeration in increasing order.
LEMMA OrderExists ==
  ASSUME NEW n \in Nat, NEW S \in SUBSET (1 .. n)
  PROVE  \E f \in [1 .. Cardinality(S) -> S] : Increasing(f)
<1> DEFINE Ordered(m) == \A T \in SUBSET (1 .. m) :
                           \E f \in [1 .. Cardinality(T) -> T] : Increasing(f)
           B == {m \in Nat : ~Ordered(m)}
<1>1. SUFFICES ASSUME B # {}
               PROVE  FALSE
  OBVIOUS
<1>2. PICK b \in B : \A m \in B : b <= m
  BY <1>1, LeastElement
<1>3. b \in Nat /\ ~Ordered(b)
  OBVIOUS
<1>4. PICK T \in SUBSET (1 .. b) :
        ~ \E f \in [1 .. Cardinality(T) -> T] : Increasing(f)
  BY <1>3
<1> HIDE DEF B
<1>5. IsFiniteSet(T) /\ Cardinality(T) \in Nat
  BY <1>3, PlacesFinite
<1>6. CASE b \notin T
  <2>1. CASE b = 0
    <3>1. T = {} /\ Cardinality(T) = 0
      <4>1. 1 .. b = {}
        BY <2>1
      <4>2. T = {}
        BY <1>4, <4>1
      <4> QED
        BY <4>2, FS_EmptySet
    <3>2. 1 .. Cardinality(T) = {}
      BY <3>1
    <3>3. [x \in {} |-> x] \in [1 .. Cardinality(T) -> T]
      BY <3>1, <3>2
    <3>4. Increasing([x \in {} |-> x])
      BY DEF Increasing
    <3> QED
      BY <1>4, <3>3, <3>4
  <2>2. CASE b # 0
    <3>1. b - 1 \in Nat /\ b - 1 \notin B
      BY <1>2, <1>3, <2>2
    <3>2. T \in SUBSET (1 .. b - 1)
      BY <1>3, <1>6
    <3>3. Ordered(b - 1)
      BY <3>1 DEF B
    <3> QED
      BY <1>4, <3>2, <3>3
  <2> QED
    BY <2>1, <2>2
<1>7. CASE b \in T
  <2> DEFINE R == T \ {b}
             k == Cardinality(R)
  <2>1. b - 1 \in Nat /\ b - 1 \notin B
    BY <1>2, <1>3, <1>7
  <2>2. R \in SUBSET (1 .. b - 1)
    BY <1>3
  <2>3. Ordered(b - 1)
    BY <2>1 DEF B
  <2>4. PICK f \in [1 .. k -> R] : Increasing(f)
    BY <2>2, <2>3
  <2>5. k \in Nat /\ Cardinality(T) = k + 1
    <3>1. IsFiniteSet(R) /\ Cardinality(R) = Cardinality(T) - 1
      BY <1>5, <1>7, FS_RemoveElement
    <3> QED
      BY <1>5, <3>1, FS_CardinalityType
  <2> DEFINE g == [i \in 1 .. k + 1 |-> IF i = k + 1 THEN b ELSE f[i]]
  <2> HIDE DEF k, R
  <2>6. \A i \in 1 .. k : f[i] \in T /\ f[i] < b /\ f[i] \in Nat
    <3>1. \A x \in R : x \in T /\ x < b /\ x \in Nat
      BY <1>3, <2>2 DEF R
    <3> QED
      BY <2>4, <3>1
  <2>7. g \in [1 .. k + 1 -> T]
    BY <1>7, <2>5, <2>6
  <2>8. Increasing(g)
    BY <1>3, <2>4, <2>5, <2>6 DEF Increasing
  <2> HIDE DEF g
  <2> QED
    BY <1>4, <2>5, <2>7, <2>8
<1> QED
  BY <1>6, <1>7

LEMMA OrderLower ==
  ASSUME NEW n \in Nat, NEW S \in SUBSET (1 .. n),
         NEW f \in [1 .. Cardinality(S) -> S], Increasing(f),
         NEW g \in [1 .. Cardinality(S) -> S], Increasing(g),
         NEW i \in 1 .. Cardinality(S),
         \A j \in 1 .. Cardinality(S) : j < i => f[j] = g[j]
  PROVE  ~(f[i] < g[i])
<1>0. \A x \in S : x \in Nat
  OBVIOUS
<1>1. IsFiniteSet(S) /\ Cardinality(S) \in Nat
  BY PlacesFinite
<1>2. PICK k \in Nat : k = Cardinality(S)
  BY <1>1
<1>3. Cardinality(1 .. k) = k
  <2>1. 1 \in Int /\ k \in Int
    BY <1>2
  <2> QED
    BY <1>2, <2>1, FS_Interval
<1>4. \A x, y \in 1 .. k : g[x] = g[y] => x = y
  <2>1. \A x, y \in 1 .. k : x < y => g[x] < g[y]
    BY <1>2 DEF Increasing
  <2>2. \A x \in 1 .. k : g[x] \in Nat
    BY <1>0, <1>2
  <2> QED
    BY <1>2, <2>1, <2>2
<1>5. g \in Injection(1 .. k, S)
  BY <1>2, <1>4 DEF Injection, IsInjective
<1>6. g \in Surjection(1 .. k, S)
  BY <1>1, <1>2, <1>3, <1>5, FS_Injection
<1>7. SUFFICES ASSUME f[i] < g[i]
               PROVE  FALSE
  OBVIOUS
<1>8. PICK j \in 1 .. k : g[j] = f[i]
  BY <1>2, <1>6 DEF Surjection
<1>9. i \in 1 .. k /\ f[i] \in Nat /\ g[i] \in Nat /\ g[j] \in Nat
  BY <1>0, <1>2
<1>10. j < i
  <2>1. i < j => g[i] < g[j]
    BY <1>2, <1>9 DEF Increasing
  <2> QED
    BY <1>2, <1>7, <1>8, <1>9, <2>1
<1>11. f[j] < f[i]
  BY <1>2, <1>9, <1>10 DEF Increasing
<1> QED
  BY <1>2, <1>8, <1>9, <1>10, <1>11

LEMMA OneOrder ==
  ASSUME NEW n \in Nat, NEW S \in SUBSET (1 .. n),
         NEW f \in [1 .. Cardinality(S) -> S], Increasing(f)
  PROVE  InOrder(S) = f
<1> DEFINE g == InOrder(S)
           k == Cardinality(S)
           D == {i \in 1 .. k : f[i] # g[i]}
<1>0. k \in Nat
  BY PlacesFinite
<1>1. f \in [1 .. k -> S] /\ g \in [1 .. k -> S] /\ Increasing(g)
  BY DEF InOrder
<1> HIDE DEF g
<1>2. SUFFICES ASSUME D # {}
               PROVE  FALSE
  <2>1. ASSUME D = {}
        PROVE  f = g
    <3>1. \A i \in 1 .. k : f[i] = g[i]
      BY <2>1
    <3> QED
      BY <1>0, <1>1, <3>1
  <2> QED
    BY <2>1 DEF g
<1>3. PICK i \in D : \A j \in D : i <= j
  <2>1. D \subseteq Nat
    OBVIOUS
  <2> HIDE DEF D
  <2>2. Min(D) \in D /\ \A j \in D : Min(D) <= j
    BY <1>2, <2>1, LeastElement
  <2> QED
    BY <2>2
<1>4. i \in 1 .. k /\ f[i] # g[i] /\ \A j \in 1 .. k : j < i => f[j] = g[j]
  <2>1. \A j \in 1 .. k : j < i => j \notin D
    BY <1>3
  <2> QED
    BY <2>1
<1>5. ~(f[i] < g[i]) /\ ~(g[i] < f[i])
  BY <1>1, <1>4, OrderLower
<1>6. f[i] \in Nat /\ g[i] \in Nat
  <2>1. \A x \in S : x \in Nat
    OBVIOUS
  <2> QED
    BY <1>1, <1>4, <2>1
<1> QED
  BY <1>4, <1>5, <1>6

\* The enumeration, in the usual case.
LEMMA InOrderOf ==
  ASSUME NEW n \in Nat, NEW S \in SUBSET (1 .. n)
  PROVE  InOrder(S) \in [1 .. Cardinality(S) -> S] /\ Increasing(InOrder(S))
BY OrderExists DEF InOrder

LEMMA InOrderOfAll ==
  ASSUME NEW n \in Nat
  PROVE  InOrder(1 .. n) = [i \in 1 .. n |-> i]
<1>1. Cardinality(1 .. n) = n
  <2>1. 1 \in Int /\ n \in Int
    OBVIOUS
  <2> QED
    BY <2>1, FS_Interval
<1>2. [i \in 1 .. n |-> i] \in [1 .. Cardinality(1 .. n) -> 1 .. n]
  BY <1>1
<1>3. Increasing([i \in 1 .. n |-> i])
  BY DEF Increasing
<1> QED
  BY <1>2, <1>3, OneOrder

\* Where the log is not simply all of the snips.
Halfway == {"fill", "compact", "shrink"}

StaysOf(p) == {i \in DOMAIN snips : \/ i < me[p].slot - me[p].gap
                                    \/ i >= me[p].slot /\ ~snips[i].doomed}

\* The log, by where who holds the flock is.
LogSeen ==
  /\ \A p \in Procs :
       /\ pc[p] = "fill" =>
            Committed = [i \in 1 .. Len(snips) - 1 |-> snips[i].text]
       /\ pc[p] \in {"compact", "shrink"} =>
            Committed = TextsAt(InOrder(StaysOf(p)))
       /\ lock = p /\ pc[p] \notin Halfway =>
            Committed = [i \in DOMAIN snips |-> snips[i].text]
  /\ (\A p \in Procs : pc[p] \notin Halfway) =>
       Committed = [i \in DOMAIN snips |-> snips[i].text]

LEMMA LogView == StoreInv => LogSeen
<1> SUFFICES ASSUME StoreInv
             PROVE  LogSeen
  OBVIOUS
<1>1. \A p \in Procs : pc[p] \in Halfway => lock = p
  BY DEF StoreInv, CallInv, Control, Locked, InRemoval, Halfway
<1>2. ASSUME NEW p \in Procs, pc[p] = "fill"
      PROVE  Committed = [i \in 1 .. Len(snips) - 1 |-> snips[i].text]
  <2>1. Filling /\ ~Compacting
    BY <1>1, <1>2 DEF Filling, Compacting, Halfway
  <2> QED
    BY <2>1 DEF Committed
<1>3. ASSUME NEW p \in Procs, pc[p] \in {"compact", "shrink"}
      PROVE  Committed = TextsAt(InOrder(StaysOf(p)))
  <2>1. lock = p
    BY <1>1, <1>3 DEF Halfway
  <2>2. Compacting /\ ~Filling
    BY <1>1, <1>3, <2>1 DEF Compacting, Filling, Halfway
  <2>3. Staying = StaysOf(p)
    BY <2>1, <2>2 DEF Staying, StaysOf
  <2> QED
    BY <2>2, <2>3 DEF Committed
<1>4. (\A p \in Procs : pc[p] \notin Halfway) =>
        Committed = [i \in DOMAIN snips |-> snips[i].text]
  <2>1. SUFFICES ASSUME \A p \in Procs : pc[p] \notin Halfway
                 PROVE  Committed = [i \in DOMAIN snips |-> snips[i].text]
    OBVIOUS
  <2>2. ~Filling /\ ~Compacting
    BY <2>1 DEF Filling, Compacting, Halfway
  <2> QED
    BY <2>2 DEF Committed
<1> QED
  BY <1>1, <1>2, <1>3, <1>4 DEF LogSeen

LEMMA LogViewNext == StoreInv' => LogSeen'
BY LogView, PTL

\* A step that leaves the snips alone, and is not in the middle of them.
LEMMA QuietStep ==
  ASSUME StoreInv, StoreInv', NEW p \in Procs, snips' = snips,
         \A q \in Procs : q # p => pc'[q] = pc[q] /\ me'[q] = me[q],
         pc[p] \notin Halfway, pc'[p] \notin Halfway
  PROVE  Committed' = Committed
<1>1. LogSeen /\ LogSeen'
  BY LogView, LogViewNext
<1>2. CASE \A q \in Procs : pc[q] \notin Halfway
  <2>1. \A q \in Procs : pc'[q] \notin Halfway
    BY <1>2
  <2> QED
    BY <1>1, <1>2, <2>1, Zenon DEF LogSeen
<1>3. ASSUME NEW q \in Procs, pc[q] \in Halfway
      PROVE  Committed' = Committed
  <2>1. q # p /\ pc'[q] = pc[q] /\ me'[q] = me[q]
    BY <1>3
  <2>2. CASE pc[q] = "fill"
    BY <1>1, <2>1, <2>2 DEF LogSeen
  <2>3. CASE pc[q] \in {"compact", "shrink"}
    <3>1. StaysOf(q)' = StaysOf(q)
      BY <2>1 DEF StaysOf
    <3>2. Committed' = TextsAt(InOrder(StaysOf(q)))'
      BY <1>1, <2>1, <2>3 DEF LogSeen
    <3>3. Committed = TextsAt(InOrder(StaysOf(q)))
      BY <1>1, <2>3 DEF LogSeen
    <3> QED
      BY <3>1, <3>2, <3>3 DEF TextsAt
  <2> QED
    BY <1>3, <2>2, <2>3 DEF Halfway
<1> QED
  BY <1>2, <1>3

\* cs_remove() takes effect when it starts to close the gaps.
LEMMA ScanIsRemove ==
  ASSUME StoreInv, StoreInv', NEW p \in Procs, Scan(p), pc'[p] = "compact"
  PROVE  Abstract!Remove \/ Committed' = Committed
<1>1. /\ pc[p] = "scan" /\ UNCHANGED <<snips, me>> /\ lock = p
      /\ me[p].slot = 1 /\ me[p].gap = 0
  BY DEF Scan, StoreInv, CallInv, Control, Locked, InRemoval, Progress
<1>2. PICK n \in Nat : n = Len(snips) /\ DOMAIN snips = 1 .. n
  <2>1. Len(snips) \in Nat /\ DOMAIN snips = 1 .. Len(snips)
    BY SnipsTyped
  <2> QED
    BY <2>1
<1> DEFINE S == {i \in 1 .. n : ~snips[i].doomed}
           f == InOrder(S)
<1>3. Committed = [i \in 1 .. n |-> snips[i].text]
  BY <1>1, <1>2, LogView DEF LogSeen, Halfway
<1>4. Committed' = [k \in DOMAIN f |-> snips[f[k]].text]
  <2>1. \A i \in 1 .. n : (\/ i < me'[p].slot - me'[p].gap
                           \/ i >= me'[p].slot /\ ~snips'[i].doomed)
                            <=> ~snips[i].doomed
    BY <1>1
  <2>2. StaysOf(p)' = S
    BY <1>1, <1>2, <2>1 DEF StaysOf
  <2>3. Committed' = TextsAt(InOrder(StaysOf(p)))'
    BY LogViewNext DEF LogSeen
  <2> QED
    BY <1>1, <2>2, <2>3 DEF TextsAt
<1> HIDE DEF f
<1>5. /\ Cardinality(S) \in 0 .. n /\ (Cardinality(S) = n => S = 1 .. n)
      /\ f \in [1 .. Cardinality(S) -> S] /\ Increasing(f)
  <2>1. S \in SUBSET (1 .. n)
    OBVIOUS
  <2> HIDE DEF S
  <2> QED
    BY <2>1, PlacesFinite, InOrderOf DEF f
<1> HIDE DEF S
<1>6. CASE S = 1 .. n
  <2>1. f = [i \in 1 .. n |-> i]
    BY <1>6, InOrderOfAll DEF f
  <2> QED
    BY <1>3, <1>4, <2>1
<1>7. CASE S # 1 .. n
  <2>1. PICK m \in 0 .. n : m = Cardinality(S) /\ m < n
    BY <1>5, <1>7
  <2>2. Len(Committed) = n /\ DOMAIN Committed = 1 .. n
    BY <1>3
  <2>3. f \in [1 .. m -> DOMAIN Committed] /\ Abstract!Increasing(f)
    <3>1. S \subseteq DOMAIN Committed
      BY <2>2 DEF S
    <3>2. f \in [1 .. m -> DOMAIN Committed]
      BY <1>5, <2>1, <3>1
    <3> QED
      BY <1>5, <3>2 DEF Increasing, Abstract!Increasing
  <2>4. Committed' = [i \in 1 .. m |-> Committed[f[i]]]
    <3>1. \A i \in 1 .. m : f[i] \in 1 .. n
      BY <2>2, <2>3
    <3>2. DOMAIN f = 1 .. m
      BY <2>3
    <3> QED
      BY <1>3, <1>4, <3>1, <3>2
  <2> QED
    BY <2>1, <2>2, <2>3, <2>4 DEF Abstract!Remove
<1> QED
  BY <1>6, <1>7

\* Closing a gap moves a snip without passing another.
LEMMA CompactIsQuiet ==
  ASSUME StoreInv, StoreInv', NEW p \in Procs, Compact(p)
  PROVE  Committed' = Committed
<1>1. PICK n \in Nat : n = Len(snips) /\ DOMAIN snips = 1 .. n
  <2>1. Len(snips) \in Nat /\ DOMAIN snips = 1 .. Len(snips)
    BY SnipsTyped
  <2> QED
    BY <2>1
<1>2. /\ pc[p] = "compact" /\ UNCHANGED pc /\ me[p] \in Local
      /\ me \in [Procs -> Local] /\ Progress(p)
  BY DEF Compact, StoreInv, TypeOK, CallInv
<1>3. PICK s \in 1 .. n, d \in Nat : s = me[p].slot /\ d = me[p].gap /\ d < s
  <2>1. me[p].slot \in 1 .. n /\ me[p].gap \in Nat /\ me[p].gap < me[p].slot
    BY <1>1, <1>2 DEF Compact, Local, Progress
  <2> QED
    BY <2>1
<1>4. s - d \in 1 .. n
  BY <1>3
<1>5. /\ me'[p].slot = s + 1
      /\ me'[p].gap = (IF snips[s].doomed THEN d + 1 ELSE d)
      /\ snips' = IF snips[s].doomed
                  THEN snips ELSE [snips EXCEPT ![s - d] = snips[s]]
  BY <1>2, <1>3 DEF Compact, Local, MoveTo
<1>6. /\ DOMAIN snips' = 1 .. n
      /\ snips[s].doomed => snips' = snips
      /\ ~snips[s].doomed =>
           \A i \in 1 .. n :
             snips'[i] = IF i = s - d THEN snips[s] ELSE snips[i]
  BY <1>1, <1>4, <1>5
<1> DEFINE S == {i \in 1 .. n : i < s - d \/ (i >= s /\ ~snips[i].doomed)}
           T == {i \in 1 .. n : \/ i < s + 1 - me'[p].gap
                                \/ i >= s + 1 /\ ~snips'[i].doomed}
           f == InOrder(S)
           g == InOrder(T)
<1>7. Committed = [k \in DOMAIN f |-> snips[f[k]].text]
  <2>1. StaysOf(p) = S
    BY <1>1, <1>3 DEF StaysOf
  <2> QED
    BY <1>2, <2>1, LogView DEF LogSeen, TextsAt
<1>8. Committed' = [k \in DOMAIN g |-> snips'[g[k]].text]
  <2>1. StaysOf(p)' = T
    BY <1>5, <1>6 DEF StaysOf
  <2>2. Committed' = TextsAt(InOrder(StaysOf(p)))'
    BY <1>2, LogViewNext DEF LogSeen
  <2> QED
    BY <2>1, <2>2 DEF TextsAt
<1>9. f \in [1 .. Cardinality(S) -> S] /\ Increasing(f)
  <2>1. S \in SUBSET (1 .. n)
    OBVIOUS
  <2> HIDE DEF S
  <2> QED
    BY <2>1, InOrderOf DEF f
<1>10. CASE snips[s].doomed
  <2>1. T = S
    BY <1>3, <1>5, <1>6, <1>10
  <2> QED
    BY <1>6, <1>7, <1>8, <1>10, <2>1
<1>11. CASE ~snips[s].doomed
  <2>1. \A i : i \in T <=> \/ i \in S /\ i # s
                           \/ i = s - d
    <3>1. \A i \in 1 .. n : i >= s + 1 => snips'[i] = snips[i]
      BY <1>3, <1>6, <1>11
    <3>2. T = {i \in 1 .. n : \/ i < s + 1 - d
                              \/ i >= s + 1 /\ ~snips[i].doomed}
      BY <1>5, <1>11, <3>1
    <3> HIDE DEF T
    <3> QED
      BY <1>3, <1>4, <3>2
  <2>2. T = (S \ {s}) \union {s - d}
    BY <2>1
  <2>3. s \in S /\ (s - d \in S => d = 0)
    BY <1>3, <1>11
  <2>4. S \in SUBSET (1 .. n) /\ \A i \in S : i < s - d \/ i >= s
    OBVIOUS
  <2> DEFINE e == [k \in 1 .. Cardinality(S) |->
                     IF f[k] = s THEN s - d ELSE f[k]]
  <2> HIDE DEF S, T, f, g
  <2>5. Cardinality(S) \in Nat /\ T \in SUBSET (1 .. n)
    BY <1>4, <2>2, <2>4, PlacesFinite
  <2>6. Cardinality(T) = Cardinality(S)
    <3>1. CASE d = 0
      <4>1. T = S
        BY <2>2, <2>3, <3>1
      <4> QED
        BY <4>1
    <3>2. CASE d # 0
      <4>1. IsFiniteSet(S)
        BY <2>4, PlacesFinite
      <4>2. /\ IsFiniteSet(S \ {s})
            /\ Cardinality(S \ {s}) = Cardinality(S) - 1
        BY <2>3, <4>1, FS_RemoveElement
      <4>3. Cardinality((S \ {s}) \union {s - d}) = Cardinality(S \ {s}) + 1
        BY <2>3, <3>2, <4>2, FS_AddElement
      <4> QED
        BY <2>2, <2>5, <4>2, <4>3
    <3> QED
      BY <3>1, <3>2
  <2>7. e \in [1 .. Cardinality(T) -> T]
    BY <1>9, <2>1, <2>6
  <2>8. Increasing(e)
    <3>1. SUFFICES ASSUME NEW i \in 1 .. Cardinality(S),
                          NEW j \in 1 .. Cardinality(S), i < j
                   PROVE  e[i] < e[j]
      BY DEF Increasing
    <3>2. f[i] < f[j] /\ f[i] \in S /\ f[j] \in S
      BY <1>9, <3>1 DEF Increasing
    <3>3. f[i] \in 1 .. n /\ f[j] \in 1 .. n
      BY <2>4, <3>2
    <3>4. f[j] = s => f[i] < s - d
      BY <2>4, <3>2, <3>3
    <3>5. e[i] = (IF f[i] = s THEN s - d ELSE f[i])
      OBVIOUS
    <3>6. e[j] = (IF f[j] = s THEN s - d ELSE f[j])
      OBVIOUS
    <3> HIDE DEF e
    <3> QED
      BY <1>3, <3>2, <3>3, <3>4, <3>5, <3>6
  <2>9. g = e
    <3> HIDE DEF e
    <3> QED
      BY <2>5, <2>7, <2>8, OneOrder DEF g
  <2>10. DOMAIN f = 1 .. Cardinality(S) /\ DOMAIN g = 1 .. Cardinality(S)
    BY <1>9, <2>9
  <2>11. ASSUME NEW k \in 1 .. Cardinality(S)
         PROVE  snips'[g[k]].text = snips[f[k]].text
    <3>1. f[k] \in S /\ f[k] \in 1 .. n
      BY <1>9, <2>4
    <3>2. g[k] = IF f[k] = s THEN s - d ELSE f[k]
      BY <2>9
    <3>3. CASE f[k] = s
      BY <1>4, <1>6, <1>11, <3>2, <3>3
    <3>4. CASE f[k] # s
      <4>1. snips'[f[k]] = IF f[k] = s - d THEN snips[s] ELSE snips[f[k]]
        BY <1>6, <1>11, <3>1
      <4>2. f[k] # s - d
        BY <1>3, <2>3, <3>1, <3>4
      <4> QED
        BY <3>2, <3>4, <4>1, <4>2
    <3> QED
      BY <3>3, <3>4
  <2> QED
    BY <1>7, <1>8, <2>10, <2>11
<1> QED
  BY <1>10, <1>11

\* Only the gap is cut off.
LEMMA ShrinkIsQuiet ==
  ASSUME StoreInv, StoreInv', NEW p \in Procs, Shrink(p)
  PROVE  Committed' = Committed
<1>1. /\ pc[p] = "shrink" /\ me[p] \in Local /\ Control(p) /\ Progress(p)
      /\ pc'[p] = "unlock" /\ lock' = p
  BY DEF Shrink, Goto, StoreInv, TypeOK, CallInv, Control, Locked, InRemoval
<1>2. PICK m \in Nat :
        /\ m <= Len(snips) /\ Len(snips) \in Nat
        /\ DOMAIN snips' = 1 .. m /\ DOMAIN snips = 1 .. Len(snips)
        /\ \A i \in 1 .. m : snips'[i] = snips[i]
        /\ me[p].slot - me[p].gap = m + 1 /\ me[p].slot = Len(snips) + 1
  <2>1. /\ snips \in Seq(Snip) /\ Len(snips) \in Nat
        /\ DOMAIN snips = 1 .. Len(snips)
    BY SnipsTyped
  <2>2. /\ me[p].slot = Len(snips) + 1 /\ me[p].gap \in Nat
        /\ me[p].gap < me[p].slot
    BY <1>1 DEF Local, Progress
  <2>3. snips' = SubSeq(snips, 1, Len(snips) - me[p].gap)
    BY DEF Shrink
  <2>4. Len(snips) - me[p].gap \in 0 .. Len(snips)
    BY <2>1, <2>2
  <2>5. /\ snips' \in Seq(Snip) /\ Len(snips') = Len(snips) - me[p].gap
        /\ \A i \in 1 .. Len(snips) - me[p].gap : snips'[i] = snips[i]
    BY <2>1, <2>3, <2>4, SubSeqProperties
  <2>6. DOMAIN snips' = 1 .. Len(snips) - me[p].gap
    BY <2>5, LenProperties
  <2>7. me[p].slot - me[p].gap = Len(snips) - me[p].gap + 1
    BY <2>1, <2>2
  <2> QED
    BY <2>1, <2>2, <2>4, <2>5, <2>6, <2>7
<1>3. StaysOf(p) = 1 .. m
  BY <1>2 DEF StaysOf
<1>4. Committed = [i \in 1 .. m |-> snips[i].text]
  <2>1. Committed = TextsAt([i \in 1 .. m |-> i])
    BY <1>1, <1>2, <1>3, InOrderOfAll, LogView DEF LogSeen
  <2> QED
    BY <2>1 DEF TextsAt
<1>5. Committed' = [i \in 1 .. m |-> snips'[i].text]
  BY <1>1, <1>2, LogViewNext DEF LogSeen, Halfway
<1> QED
  BY <1>2, <1>4, <1>5

\* cs_add() takes effect when the snip gets its text.
LEMMA GrowIsQuiet ==
  ASSUME StoreInv, StoreInv', NEW p \in Procs, Grow(p)
  PROVE  Committed' = Committed
<1>1. /\ pc[p] = "grow" /\ pc'[p] = "fill" /\ lock = p
      /\ snips' = Append(snips, Fresh(Zero))
  BY DEF Grow, Goto, StoreInv, TypeOK, CallInv, Control, Locked
<1>2. /\ snips \in Seq(Snip) /\ Len(snips) \in Nat
      /\ DOMAIN snips = 1 .. Len(snips) /\ Fresh(Zero) \in Snip
  BY SnipsTyped DEF Fresh, Snip
<1>3. /\ Len(snips') - 1 = Len(snips)
      /\ \A i \in 1 .. Len(snips) : snips'[i] = snips[i]
  BY <1>1, <1>2, AppendProperties
<1>4. Committed = [i \in 1 .. Len(snips) |-> snips[i].text]
  BY <1>1, <1>2, LogView DEF LogSeen, Halfway
<1>5. Committed' = [i \in 1 .. Len(snips) |-> snips'[i].text]
  BY <1>1, <1>3, LogViewNext DEF LogSeen
<1> QED
  BY <1>2, <1>3, <1>4, <1>5

LEMMA FillIsAdd ==
  ASSUME StoreInv, StoreInv', NEW p \in Procs, Fill(p)
  PROVE  \E t \in Texts : Abstract!Add(t)
<1>1. /\ pc[p] = "fill" /\ pc'[p] = "unlock" /\ lock' = p /\ Control(p)
      /\ snips' = [snips EXCEPT ![Len(snips)] = Fresh(me[p].text)]
      /\ op[p] \in Ops /\ snips # <<>>
  BY DEF Fill, Goto, StoreInv, TypeOK, CallInv, Control, Locked, Room
<1>2. me[p].text \in Texts
  BY <1>1 DEF Control, PlacesOf, Ops, InRemoval, Adding, Removing
<1>3. PICK n \in Nat : n = Len(snips) /\ DOMAIN snips = 1 .. n /\ n > 0
  <2>1. snips \in Seq(Snip) /\ DOMAIN snips = 1 .. Len(snips)
    BY SnipsTyped
  <2>2. Len(snips) \in Nat \ {0}
    BY <1>1, <2>1, EmptySeq
  <2>3. Len(snips) \in Nat /\ Len(snips) > 0
    BY <2>2
  <2> QED
    BY <2>1, <2>3
<1>4. Committed = [i \in 1 .. n - 1 |-> snips[i].text]
  BY <1>1, <1>3, LogView DEF LogSeen
<1>5. Committed' = [i \in 1 .. n |-> snips'[i].text]
  <2>1. DOMAIN snips' = 1 .. n
    BY <1>1, <1>3
  <2> QED
    BY <1>1, <2>1, LogViewNext DEF LogSeen, Halfway
<1>6. /\ \A i \in 1 .. n - 1 : snips'[i].text = snips[i].text
      /\ snips'[n].text = me[p].text
  BY <1>1, <1>3 DEF Fresh
<1>7. Committed' = Append(Committed, me[p].text)
  <2>1. n - 1 \in Nat /\ Len(Committed) = n - 1
    BY <1>3, <1>4
  <2>2. Append(Committed, me[p].text) =
          [i \in 1 .. n |-> IF i = n THEN me[p].text ELSE Committed[i]]
    BY <1>3, <1>4, <2>1
  <2>3. \A i \in 1 .. n : snips'[i].text =
          IF i = n THEN me[p].text ELSE Committed[i]
    BY <1>3, <1>4, <1>6
  <2> QED
    BY <1>5, <2>2, <2>3
<1> QED
  BY <1>2, <1>7 DEF Abstract!Add

\* cs_replace() takes effect when the snip is overwritten.
LEMMA UpdateIsReplace ==
  ASSUME StoreInv, StoreInv', NEW p \in Procs, Update(p)
  PROVE  \E t \in Texts :
           Committed # <<>> /\ Abstract!Replace(Len(Committed), t)
<1>1. /\ pc[p] = "update" /\ pc'[p] = "mkdir" /\ lock = p /\ lock' = p
      /\ Control(p) /\ Work(p) /\ op[p] \in Ops
      /\ snips' = [snips EXCEPT ![Victim(p)] = Fresh(me[p].text)]
  BY DEF Update, Goto, StoreInv, TypeOK, CallInv, Control, Locked
<1>2. op[p] = "replace" /\ me[p].text \in Texts
  BY <1>1 DEF Control, PlacesOf, Ops, InRemoval, Adding, Removing
<1>3. PICK n \in Nat : n = Len(snips) /\ DOMAIN snips = 1 .. n
  <2>1. Len(snips) \in Nat /\ DOMAIN snips = 1 .. Len(snips)
    BY SnipsTyped
  <2> QED
    BY <2>1
<1>4. Victim(p) = n /\ n \in 1 .. n
  <2>1. me[p].todo # {}
    BY <1>1 DEF Work
  <2>2. Victim(p) \in me[p].todo /\ Victim(p) \in DOMAIN snips
    BY <2>1, VictimIsLeft
  <2> QED
    BY <1>1, <1>2, <1>3, <2>2 DEF Work
<1>5. Committed = [i \in 1 .. n |-> snips[i].text]
  BY <1>1, <1>3, LogView DEF LogSeen, Halfway
<1>6. Committed' = [i \in 1 .. n |-> snips'[i].text]
  <2>1. DOMAIN snips' = 1 .. n
    BY <1>1, <1>3
  <2> QED
    BY <1>1, <2>1, LogViewNext DEF LogSeen, Halfway
<1>7. \A i \in 1 .. n : snips'[i].text = IF i = n THEN me[p].text
                                         ELSE snips[i].text
  BY <1>1, <1>3, <1>4 DEF Fresh
<1>8. Committed' = [Committed EXCEPT ![n] = me[p].text]
  BY <1>4, <1>5, <1>6, <1>7
<1>9. Len(Committed) = n /\ Committed # <<>>
  <2>1. Len(Committed) = n /\ n # 0
    BY <1>4, <1>5
  <2> QED
    BY <2>1
<1> QED
  BY <1>2, <1>8, <1>9 DEF Abstract!Replace

\* A doomed snip stays until the gaps are closed.
LEMMA DoomIsQuiet ==
  ASSUME StoreInv, StoreInv', NEW p \in Procs, Doom(p)
  PROVE  Committed' = Committed
<1>1. /\ pc[p] = "doom" /\ pc'[p] = "scan" /\ lock = p /\ lock' = p
      /\ snips' = [snips EXCEPT ![Victim(p)].doomed = TRUE]
  BY DEF Doom, Goto, StoreInv, TypeOK, CallInv, Control, Locked, InRemoval
<1>2. \A i \in DOMAIN snips : snips[i] \in Snip
  BY SnipsTyped
<1>3. /\ DOMAIN snips' = DOMAIN snips
      /\ \A i \in DOMAIN snips : snips'[i].text = snips[i].text
  BY <1>1, <1>2 DEF Snip
<1>4. Committed = [i \in DOMAIN snips |-> snips[i].text]
  BY <1>1, LogView DEF LogSeen, Halfway
<1>5. Committed' = [i \in DOMAIN snips' |-> snips'[i].text]
  BY <1>1, LogViewNext DEF LogSeen, Halfway
<1> QED
  BY <1>3, <1>4, <1>5

LEMMA CompactedIsQuiet ==
  ASSUME StoreInv, StoreInv', NEW p \in Procs, Compacted(p)
  PROVE  Committed' = Committed
<1>1. /\ pc[p] = "compact" /\ pc'[p] = "shrink" /\ UNCHANGED <<snips, me>>
  BY DEF Compacted, Goto, StoreInv, TypeOK
<1>2. Committed = TextsAt(InOrder(StaysOf(p)))
  BY <1>1, LogView DEF LogSeen
<1>3. Committed' = TextsAt(InOrder(StaysOf(p)))'
  BY <1>1, LogViewNext DEF LogSeen
<1>4. StaysOf(p)' = StaysOf(p)
  BY <1>1 DEF StaysOf
<1> QED
  BY <1>1, <1>2, <1>3, <1>4 DEF TextsAt

\* The steps, by what they do to the log.
LEMMA CallsOrWorks ==
  ASSUME MaxKills = 0, StoreInv, Next
  PROVE  \E p \in Procs :
           /\ \A q \in Procs : q # p => pc'[q] = pc[q] /\ me'[q] = me[q]
           /\ \/ Scan(p) /\ pc'[p] = "compact"
              \/ Compact(p) \/ Compacted(p) \/ Shrink(p)
              \/ Grow(p) \/ Fill(p) \/ Update(p) \/ Doom(p)
              \/ /\ snips' = snips
                 /\ pc[p] \notin Halfway /\ pc'[p] \notin Halfway
<1>1. /\ pc \in [Procs -> PCs] /\ me \in [Procs -> Local]
      /\ op \in [Procs -> Ops]
  BY DEF StoreInv, TypeOK
<1>2. CASE Calling
  <2>1. CASE \E t \in Texts : CallAdd(t) \/ CallReplace(t)
    BY <1>1, <2>1 DEF CallAdd, CallReplace, Goto, Procs, Halfway
  <2>2. CASE \E n \in 0 .. MaxLen : CallTrim(n)
    BY <1>1, <2>2 DEF CallTrim, Goto, Procs, Halfway
  <2>3. CASE \E p \in Deleters : CallRemove(p)
    BY <1>1, <2>3 DEF CallRemove, Goto, Procs, Halfway
  <2> QED
    BY <1>2, <2>1, <2>2, <2>3 DEF Calling
<1>3. ASSUME NEW p \in Procs, Locking(p)
      PROVE  /\ \A q \in Procs : q # p => pc'[q] = pc[q] /\ me'[q] = me[q]
             /\ snips' = snips
             /\ pc[p] \notin Halfway /\ pc'[p] \notin Halfway
  BY <1>1, <1>3
     DEF Locking, LockAdd, LockReplace, LockTrim, LockRemove, LockFor, Goto,
         Halfway
<1>4. ASSUME NEW p \in Procs, Step(p)
      PROVE  /\ \A q \in Procs : q # p => pc'[q] = pc[q] /\ me'[q] = me[q]
             /\ \/ Scan(p) /\ pc'[p] = "compact"
                \/ Compact(p) \/ Compacted(p) \/ Shrink(p)
                \/ Grow(p) \/ Fill(p) \/ Update(p) \/ Doom(p)
                \/ /\ snips' = snips
                   /\ pc[p] \notin Halfway /\ pc'[p] \notin Halfway
  <2>1. CASE Mkdir(p) \/ StatDupe(p) \/ Link(p) \/ Create(p) \/ Write(p)
    BY <1>1, <2>1
       DEF Mkdir, StatDupe, Link, Create, Write, AfterAdd, Goto, Halfway
  <2>2. CASE Stat(p) \/ Unlink(p) \/ Rmdir(p) \/ Scan(p) \/ Compacted(p)
    BY <1>1, <2>2
       DEF Stat, Unlink, Rmdir, Scan, Compacted, AfterRemove, Goto, Halfway
  <2>3. CASE \/ Grow(p) \/ Fill(p) \/ Update(p)
             \/ Doom(p) \/ Compact(p) \/ Shrink(p)
    BY <1>1, <2>3 DEF Grow, Fill, Update, Doom, Compact, Shrink, Goto
  <2>4. CASE Unlock(p) \/ Abort(p)
    BY <1>1, <2>4 DEF Unlock, Abort, Vanish, Goto, Halfway
  <2> QED
    BY <1>4, <2>1, <2>2, <2>3, <2>4 DEF Step
<1>5. ASSUME NEW p \in Procs, Kill(p)
      PROVE  FALSE
  BY <1>5 DEF Kill, StoreInv, TypeOK
<1> QED
  BY <1>2, <1>3, <1>4, <1>5 DEF Next

LEMMA LogInit == Init => Abstract!Init
<1> SUFFICES ASSUME Init
             PROVE  Committed = <<>>
  BY DEF Abstract!Init
<1>1. snips = <<>> /\ \A p \in Procs : pc[p] \notin Halfway
  BY DEF Init, Halfway
<1>2. Committed = [i \in DOMAIN snips |-> snips[i].text]
  BY <1>1, StoreInit, LogView DEF LogSeen
<1> QED
  BY <1>1, <1>2

LEMMA LogNext ==
  ASSUME MaxKills = 0, StoreInv, StoreInv', [Next]_vars
  PROVE  [Abstract!Next]_Committed
<1>1. CASE UNCHANGED vars
  <2>1. Committed' = Committed
    BY <1>1 DEF vars, Committed, Filling, Compacting, Staying, TextsAt
  <2> QED
    BY <2>1
<1>2. CASE Next
  <2>1. PICK p \in Procs :
          /\ \A q \in Procs : q # p => pc'[q] = pc[q] /\ me'[q] = me[q]
          /\ \/ Scan(p) /\ pc'[p] = "compact"
             \/ Compact(p) \/ Compacted(p) \/ Shrink(p)
             \/ Grow(p) \/ Fill(p) \/ Update(p) \/ Doom(p)
             \/ snips' = snips /\ pc[p] \notin Halfway /\ pc'[p] \notin Halfway
    BY <1>2, CallsOrWorks
  <2>2. CASE Scan(p) /\ pc'[p] = "compact"
    BY <2>2, ScanIsRemove DEF Abstract!Next
  <2>3. CASE Compact(p) \/ Compacted(p) \/ Shrink(p) \/ Grow(p) \/ Doom(p)
    BY <2>3, CompactIsQuiet, CompactedIsQuiet, ShrinkIsQuiet, GrowIsQuiet,
       DoomIsQuiet
  <2>4. CASE Fill(p)
    BY <2>4, FillIsAdd DEF Abstract!Next
  <2>5. CASE Update(p)
    BY <2>5, UpdateIsReplace DEF Abstract!Next
  <2>6. CASE snips' = snips /\ pc[p] \notin Halfway /\ pc'[p] \notin Halfway
    BY <2>1, <2>6, QuietStep
  <2> QED
    BY <2>1, <2>2, <2>3, <2>4, <2>5, <2>6
<1> QED
  BY <1>1, <1>2

(***************************************************************************)
(* As long as nobody is killed, what the calls do to the snips, step by    *)
(* step, is what ClipLog does to a log at one instant each: an addition    *)
(* when the snip gets its text, a replacement when it is overwritten, a    *)
(* removal when the gaps begin to be closed.                               *)
(***************************************************************************)
THEOREM StoreIsALog ==
  ASSUME MaxKills = 0
  PROVE  Spec => ImplementsLog
<1>1. Init => Abstract!Init
  BY LogInit
<1>2. StoreInv /\ StoreInv' /\ [Next]_vars => [Abstract!Next]_Committed
  BY LogNext
<1> QED
  BY <1>1, <1>2, StoreInvariant, PTL DEF Spec, ImplementsLog, Abstract!Spec

-----------------------------------------------------------------------------
(***************************************************************************)
(* CallsShorten: no call goes on for ever.                                 *)
(***************************************************************************)
\* What is left to do can be counted, and is no more than the store holds.
LEMMA TodoCounted ==
  ASSUME NEW l \in Local
  PROVE  /\ IsFiniteSet(l.todo) /\ MaxLen \in Nat
         /\ Cardinality(l.todo) \in 0 .. MaxLen
<1>1. l.todo \in SUBSET (1 .. MaxLen) /\ MaxLen \in Nat
  BY BoundAssumption DEF Local
<1>2. IsFiniteSet(1 .. MaxLen) /\ Cardinality(1 .. MaxLen) = MaxLen
  BY <1>1, FS_Interval
<1>3. IsFiniteSet(l.todo) /\ Cardinality(l.todo) <= MaxLen
  BY <1>1, <1>2, FS_Subset
<1>4. Cardinality(l.todo) \in Nat
  BY <1>3, FS_CardinalityType
<1> QED
  BY <1>1, <1>3, <1>4

\* How many steps are left, place by place.
LeftAs(p) ==
  /\ pc[p] = "idle" => StepsLeft(p) = 0
  /\ pc[p] \in {"unlock", "fail", "range"} => StepsLeft(p) = 1
  /\ pc[p] \in {"fill", "shrink"} => StepsLeft(p) = 2
  /\ pc[p] = "grow" => StepsLeft(p) = 3
  /\ pc[p] = "compact" => StepsLeft(p) = 3 + (MaxLen + 1 - me[p].slot)
  /\ pc[p] = "wait" =>
       /\ op[p] = "add" => StepsLeft(p) = 4
       /\ op[p] = "replace" => StepsLeft(p) = 13
       /\ op[p] \notin {"add", "replace"} => StepsLeft(p) = 6 * MaxLen + 5
  /\ pc[p] = "link" => StepsLeft(p) = 5
  /\ pc[p] = "write" =>
       StepsLeft(p) = IF WrittenInPart(NewHash(p)) THEN 5 ELSE 6
  /\ pc[p] = "stat_dupe" => StepsLeft(p) = 6
  /\ pc[p] = "create" => StepsLeft(p) = 7
  /\ pc[p] = "mkdir" => StepsLeft(p) = 8
  /\ pc[p] \in {"update", "doom"} => StepsLeft(p) = AfterVictim(p)
  /\ pc[p] = "rmdir" => StepsLeft(p) = AfterVictim(p) + 1
  /\ pc[p] = "unlink" => StepsLeft(p) = AfterVictim(p) + 2
  /\ pc[p] = "stat" => StepsLeft(p) = AfterVictim(p) + 3
  /\ pc[p] = "scan" => StepsLeft(p) = AfterVictim(p) + 4

EachLeft == \A p \in Procs : LeftAs(p)

LEMMA LeftNow == EachLeft
<1> SUFFICES ASSUME NEW p \in Procs
             PROVE  LeftAs(p)
  BY DEF EachLeft
<1>1. /\ pc[p] = "idle" => StepsLeft(p) = 0
      /\ pc[p] \in {"unlock", "fail", "range"} => StepsLeft(p) = 1
      /\ pc[p] \in {"fill", "shrink"} => StepsLeft(p) = 2
      /\ pc[p] = "grow" => StepsLeft(p) = 3
      /\ pc[p] = "compact" => StepsLeft(p) = 3 + (MaxLen + 1 - me[p].slot)
  BY DEF StepsLeft
<1>2. /\ pc[p] = "wait" =>
           /\ op[p] = "add" => StepsLeft(p) = 4
           /\ op[p] = "replace" => StepsLeft(p) = 13
           /\ op[p] \notin {"add", "replace"} => StepsLeft(p) = 6 * MaxLen + 5
  BY DEF StepsLeft
<1>3. /\ pc[p] = "link" => StepsLeft(p) = 5
      /\ pc[p] = "write" =>
           StepsLeft(p) = IF WrittenInPart(NewHash(p)) THEN 5 ELSE 6
  BY DEF StepsLeft
<1>4. /\ pc[p] = "stat_dupe" => StepsLeft(p) = 6
      /\ pc[p] = "create" => StepsLeft(p) = 7
      /\ pc[p] = "mkdir" => StepsLeft(p) = 8
  BY DEF StepsLeft
<1>5. /\ pc[p] \in {"update", "doom"} => StepsLeft(p) = AfterVictim(p)
      /\ pc[p] = "rmdir" => StepsLeft(p) = AfterVictim(p) + 1
      /\ pc[p] = "unlink" => StepsLeft(p) = AfterVictim(p) + 2
      /\ pc[p] = "stat" => StepsLeft(p) = AfterVictim(p) + 3
      /\ pc[p] = "scan" => StepsLeft(p) = AfterVictim(p) + 4
  BY DEF StepsLeft
<1> QED
  BY <1>1, <1>2, <1>3, <1>4, <1>5 DEF LeftAs

LEMMA LeftNext == EachLeft'
BY LeftNow, PTL

\* How many steps are left is a natural number, so that it cannot fall for
\* ever.
LeftNatural == \A p \in Procs : StepsLeft(p) \in Nat

LEMMA StepsLeftNatural == StoreInv => LeftNatural
<1> SUFFICES ASSUME StoreInv, NEW p \in Procs
             PROVE  StepsLeft(p) \in Nat
  BY DEF LeftNatural
<1>1. pc[p] \in PCs /\ me[p].slot \in Nat
  BY DEF StoreInv, TypeOK, Local
<1>2. pc[p] = "compact" => me[p].slot <= MaxLen + 1
  BY BoundAssumption DEF StoreInv, TypeOK, Local
<1>3. MaxLen \in Nat /\ AfterVictim(p) \in Nat
  BY TodoCounted DEF AfterVictim, StoreInv, TypeOK
<1>4. LeftAs(p)
  BY LeftNow DEF EachLeft
<1>5. op[p] \in Ops
  BY DEF StoreInv, TypeOK
<1> QED
  BY <1>1, <1>2, <1>3, <1>4, <1>5
     DEF LeftAs, PCs, Adding, Removing

LEMMA StepsLeftNaturalNext == StoreInv' => LeftNatural'
BY StepsLeftNatural, PTL

\* A call that takes the flock has less to do than it may have had.
LEMMA LockingShortens ==
  ASSUME StoreInv, NEW p \in Procs, Locking(p), StoreInv'
  PROVE  StepsLeft(p)' < StepsLeft(p)
<1>0. LeftAs(p) /\ LeftAs(p)'
  BY LeftNow, LeftNext DEF EachLeft
<1>1. me'[p] \in Local /\ pc \in [Procs -> PCs]
  BY DEF StoreInv, TypeOK
<1>a. MaxLen \in Nat /\ Cardinality(me'[p].todo) \in 0 .. MaxLen
  BY <1>1, TodoCounted
<1>2. op'[p] = op[p] /\ pc[p] = "wait"
  BY DEF Locking, LockAdd, LockReplace, LockTrim, LockRemove, LockFor
<1>3. CASE LockAdd(p)
  BY <1>0, <1>1, <1>2, <1>3 DEF LockAdd, Goto, LeftAs
<1>4. CASE LockReplace(p)
  <2>1. op[p] = "replace" /\ pc'[p] \in {"range", "stat"}
    BY <1>1, <1>4 DEF LockReplace, Goto
  <2> QED
    BY <1>0, <1>2, <2>1 DEF LeftAs, AfterVictim
<1>5. CASE LockTrim(p) \/ LockRemove(p)
  <2>1. op[p] \in {"trim", "remove"} /\ pc'[p] \in {"unlock", "scan"}
    BY <1>1, <1>5 DEF LockTrim, LockRemove, Goto
  <2> QED
    BY <1>0, <1>a, <1>2, <2>1 DEF LeftAs, AfterVictim
<1> QED
  BY <1>3, <1>4, <1>5 DEF Locking

\* What overlaps has been remembered.
RacedSeen == Overlap => raced

LEMMA RacedIsSeen == Spec => []RacedSeen
<1>1. Init => RacedSeen
  BY DEF Init, RacedSeen, Overlap, BeingAdded
<1>2. RacedSeen /\ [Next]_vars => RacedSeen'
  <2>1. Next => Remember
    BY DEF Next, Calling, Locking, Step, Kill
  <2>2. Remember => RacedSeen'
    BY DEF Remember, RacedSeen
  <2>3. RacedSeen /\ UNCHANGED vars => RacedSeen'
    BY DEF vars, RacedSeen, Overlap, BeingAdded, BeingRemoved, NewHash,
           VictimHash, Victim, HashOf
  <2> QED
    BY <2>1, <2>2, <2>3
<1> QED
  BY <1>1, <1>2, PTL DEF Spec

\* So has one that goes on; a write() that changes nothing is no step.
LEMMA StepShortens ==
  ASSUME StoreInv, RacedSeen, NEW p \in Procs, Step(p), vars' # vars
  PROVE  StepsLeft(p)' < StepsLeft(p)
<1>0. LeftAs(p) /\ LeftAs(p)'
  BY LeftNow, LeftNext DEF EachLeft
<1>1. /\ pc \in [Procs -> PCs] /\ op \in [Procs -> Ops]
      /\ me \in [Procs -> Local] /\ content \in ContentType
      /\ Control(p) /\ Work(p) /\ Progress(p)
  BY DEF StoreInv, TypeOK, CallInv, ContentType
<1>a. me[p].slot \in 1 .. MaxLen + 1 /\ MaxLen \in Nat
  BY <1>1, BoundAssumption DEF Local
<1>2. /\ MaxLen \in Nat /\ IsFiniteSet(me[p].todo)
      /\ Cardinality(me[p].todo) \in 0 .. MaxLen
  BY <1>1, TodoCounted
<1>3. CASE Mkdir(p) \/ StatDupe(p) \/ Link(p) \/ Create(p)
  BY <1>0, <1>1, <1>3
     DEF Mkdir, StatDupe, Link, Create, Goto, AfterAdd, LeftAs
<1>4. CASE Write(p)
  <2> DEFINE h == NewHash(p)
  <2>1. h \in Hashes \union {NoHash} /\ op'[p] = op[p] /\ h' = h
    BY <1>4, HashesAre DEF Write, NewHash
  <2>2. PICK d \in {Partial, me[p].text} :
          /\ content[h].data = Partial => d = me[p].text
          /\ content' = IF 1 \in content[h].links
                        THEN [content EXCEPT ![h].data = d] ELSE content
          /\ Goto(p, IF d = Partial THEN "write" ELSE AfterAdd(p))
    BY <1>4 DEF Write
  <2>3. pc[p] = "write" /\ UNCHANGED <<snips, lock, op, me, nrKills>>
    BY <1>4 DEF Write, Step
  <2>4. CASE d # Partial
    BY <1>0, <1>1, <2>1, <2>2, <2>3, <2>4 DEF Goto, AfterAdd, LeftAs
  <2>5. CASE d = Partial
    <3>1. pc' = pc
      BY <1>1, <2>2, <2>3, <2>5 DEF Goto
    <3>2. 1 \in content[h].links
      <4>1. SUFFICES ASSUME content' = content
                     PROVE  FALSE
        BY <2>2
      <4>2. Overlap' = Overlap
        BY <2>3, <3>1, <4>1
           DEF Overlap, BeingAdded, BeingRemoved, NewHash, VictimHash, Victim,
               HashOf
      <4>3. raced' = raced
        BY <4>2 DEF Step, Remember, RacedSeen, StoreInv, TypeOK
      <4> QED
        BY <2>3, <3>1, <4>1, <4>3 DEF vars
    <3>3. content' = [content EXCEPT ![h].data = Partial]
      BY <2>2, <2>5, <3>2
    <3>4. content'[h].data = Partial
      BY <1>1, <2>1, <3>3 DEF ContentType
    <3>5. content[h].data # Partial
      BY <1>1, <2>2, <2>3, <2>5, TextAssumption
         DEF Control, PlacesOf, Adding, Removing, InRemoval, Ops
    <3>6. ~WrittenInPart(NewHash(p)) /\ WrittenInPart(NewHash(p))'
      BY <2>1, <3>2, <3>4, <3>5 DEF WrittenInPart
    <3> QED
      BY <1>0, <2>3, <3>1, <3>6 DEF LeftAs
  <2> QED
    BY <2>4, <2>5
<1>5. CASE Stat(p) \/ Unlink(p) \/ Rmdir(p)
  <2>1. op'[p] = op[p] /\ me'[p].todo = me[p].todo
    <3>1. CASE Stat(p)
      BY <1>1, <3>1 DEF Stat, Local
    <3> QED
      BY <1>1, <1>5, <3>1 DEF Unlink, Rmdir
  <2>2. AfterVictim(p)' = AfterVictim(p) /\ AfterVictim(p) \in Nat
    BY <1>2, <2>1 DEF AfterVictim
  <2>3. pc[p] \in Removing
    BY <1>5 DEF Stat, Unlink, Rmdir, Removing
  <2>4. Cardinality(me[p].todo) # 0
    BY <1>1, <1>2, <2>3, FS_EmptySet DEF Work
  <2>5. AfterVictim(p) > 0
    BY <1>2, <2>4 DEF AfterVictim
  <2>6. \/ pc[p] = "stat" /\ pc'[p] \in {"unlink", "fail"}
        \/ pc[p] = "unlink" /\ pc'[p] \in {"rmdir", "update", "doom", "fail"}
        \/ pc[p] = "rmdir" /\ pc'[p] \in {"update", "doom", "fail"}
    BY <1>1, <1>5 DEF Stat, Unlink, Rmdir, Goto, AfterRemove
  <2> QED
    BY <1>0, <2>2, <2>5, <2>6 DEF LeftAs
<1>6. CASE Grow(p) \/ Fill(p) \/ Shrink(p) \/ Unlock(p) \/ Abort(p)
  BY <1>0, <1>1, <1>6
     DEF Grow, Fill, Shrink, Unlock, Abort, Vanish, Goto, LeftAs
<1>7. CASE Update(p)
  <2>1. op[p] = "replace"
    BY <1>1, <1>7
       DEF Update, Control, PlacesOf, Adding, Removing, InRemoval, Ops
  <2> QED
    BY <1>0, <1>1, <1>7, <2>1 DEF Update, Goto, LeftAs, AfterVictim
<1>8. CASE Scan(p) \/ Compact(p) \/ Compacted(p)
  <2>1. op[p] # "replace" /\ op'[p] = op[p]
    BY <1>1, <1>8
       DEF Scan, Compact, Compacted, Control, PlacesOf, Adding, Removing,
           InRemoval, Ops
  <2>2. CASE Scan(p)
    BY <1>0, <1>1, <1>2, <2>1, <2>2
       DEF Scan, Goto, LeftAs, AfterVictim, Progress
  <2>3. CASE Compact(p)
    <3>1. me'[p].slot = me[p].slot + 1 /\ pc[p] = "compact" /\ pc' = pc
      BY <1>1, <2>3 DEF Compact, Local
    <3> QED
      BY <1>0, <1>a, <3>1 DEF LeftAs
  <2>4. CASE Compacted(p)
    BY <1>0, <1>1, <1>a, <2>4 DEF Compacted, Goto, LeftAs
  <2> QED
    BY <1>8, <2>2, <2>3, <2>4
<1>9. CASE Doom(p)
  <2>1. op[p] # "replace" /\ op'[p] = op[p] /\ me[p].todo # {}
    BY <1>1, <1>9
       DEF Doom, Control, PlacesOf, Adding, Removing, InRemoval, Ops, Work
  <2>2. Victim(p) \in me[p].todo /\ me'[p].todo = me[p].todo \ {Victim(p)}
    BY <1>1, <1>9, <2>1, VictimIsLeft DEF Doom
  <2>3. Cardinality(me'[p].todo) = Cardinality(me[p].todo) - 1
    BY <1>2, <2>2, FS_RemoveElement
  <2>4. pc[p] = "doom" /\ pc'[p] = "scan"
    BY <1>1, <1>9 DEF Doom, Goto
  <2> QED
    BY <1>0, <1>2, <2>1, <2>3, <2>4 DEF LeftAs, AfterVictim
<1> QED
  BY <1>3, <1>4, <1>5, <1>6, <1>7, <1>8, <1>9 DEF Step

\* A step of p leaves the other calls where they are.
LEMMA OthersWait ==
  ASSUME StoreInv, NEW p \in Procs, Locking(p) \/ Step(p) \/ Kill(p),
         NEW q \in Procs, q # p
  PROVE  pc'[q] = pc[q] /\ op'[q] = op[q] /\ me'[q] = me[q]
<1> USE DEF StoreInv, TypeOK
<1>1. CASE Locking(p)
  BY <1>1
     DEF Locking, LockAdd, LockReplace, LockTrim, LockRemove, LockFor, Goto
<1>2. CASE Kill(p)
  BY <1>2 DEF Kill, Vanish, Goto
<1>3. CASE Step(p)
  <2>1. CASE Mkdir(p) \/ StatDupe(p) \/ Link(p) \/ Create(p) \/ Write(p)
    BY <2>1 DEF Mkdir, StatDupe, Link, Create, Write, Goto
  <2>2. CASE Stat(p) \/ Unlink(p) \/ Rmdir(p) \/ Scan(p) \/ Compacted(p)
    BY <2>2 DEF Stat, Unlink, Rmdir, Scan, Compacted, Goto
  <2>3. CASE \/ Grow(p) \/ Fill(p) \/ Update(p)
             \/ Doom(p) \/ Compact(p) \/ Shrink(p)
    BY <2>3 DEF Grow, Fill, Update, Doom, Compact, Shrink, Goto
  <2>4. CASE Unlock(p) \/ Abort(p)
    BY <2>4 DEF Unlock, Abort, Vanish, Goto
  <2> QED
    BY <1>3, <2>1, <2>2, <2>3, <2>4 DEF Step
<1> QED
  BY <1>1, <1>2, <1>3

\* Only the Daemon makes links and writes: other processes take links away,
\* and what a link leads to stays what it is.
OnlyFewer ==
  \A h \in Hashes \union {NoHash} :
    1 \in content'[h].links => /\ 1 \in content[h].links
                               /\ content'[h].data = content[h].data

LEMMA OthersOnlyRemove ==
  ASSUME StoreInv, NEW p \in Procs, p # Daemon,
         Locking(p) \/ Step(p) \/ Kill(p)
  PROVE  OnlyFewer
<1>1. content \in ContentType /\ Control(p) /\ Work(p) /\ op[p] \in Ops
  BY DEF StoreInv, CallInv, TypeOK, ContentType
<1>2. pc[p] \notin Adding
  BY <1>1 DEF Control, PlacesOf, Adding, Removing, InRemoval, Ops
<1>3. CASE content' = content
  BY <1>3 DEF OnlyFewer
<1>4. CASE Unlink(p) \/ Rmdir(p)
  <2> DEFINE h == VictimHash(p)
  <2>1. me[p].todo # {}
    BY <1>1, <1>4 DEF Unlink, Rmdir, Work, Removing
  <2>2. h \in Hashes \union {NoHash}
    BY <2>1, VictimIsLeft, HashesAre
  <2>3. CASE Unlink(p) /\ content' # content
    <3>1. content' = [content EXCEPT ![h].links = @ \ {LastLink(p)}]
      BY <2>3 DEF Unlink
    <3> QED
      BY <1>1, <2>2, <3>1 DEF OnlyFewer, ContentType
  <2>4. CASE Rmdir(p) /\ content' # content
    <3>1. content' = [content EXCEPT ![h] = NoContent]
      BY <2>4 DEF Rmdir
    <3> QED
      BY <1>1, <2>2, <3>1 DEF OnlyFewer, ContentType, NoContent
  <2> QED
    BY <1>3, <1>4, <2>3, <2>4
<1>5. ASSUME Step(p), ~Unlink(p), ~Rmdir(p)
      PROVE  content' = content
  <2>1. ~Mkdir(p) /\ ~StatDupe(p) /\ ~Link(p) /\ ~Create(p) /\ ~Write(p)
    BY <1>2 DEF Mkdir, StatDupe, Link, Create, Write, Adding
  <2> QED
    BY <1>5, <2>1
       DEF Step, Grow, Fill, Stat, Update, Scan, Doom, Compact, Compacted,
           Shrink, Unlock, Abort, Vanish
<1>6. Locking(p) \/ Kill(p) => content' = content
  BY DEF Locking, LockAdd, LockReplace, LockTrim, LockRemove, LockFor, Kill,
         Vanish
<1> QED
  BY <1>3, <1>4, <1>5, <1>6

\* So the others come no nearer to their end, but are not taken back either:
\* only the addition of content looks at what is there.
LEMMA OthersStay ==
  ASSUME StoreInv, NEW p \in Procs, Locking(p) \/ Step(p) \/ Kill(p),
         NEW q \in Procs, q # p
  PROVE  StepsLeft(q)' <= StepsLeft(q)
<1>1. pc'[q] = pc[q] /\ op'[q] = op[q] /\ me'[q] = me[q]
  BY OthersWait
<1>2. LeftAs(q) /\ LeftAs(q)'
  BY LeftNow, LeftNext DEF EachLeft
<1>3. pc[q] \in PCs /\ StepsLeft(q) \in Nat /\ op[q] \in Ops
  BY StepsLeftNatural DEF LeftNatural, StoreInv, TypeOK
<1>4. CASE pc[q] = "write"
  <2>1. q = Daemon
    BY <1>3, <1>4
       DEF StoreInv, CallInv, Control, PlacesOf, Adding, Removing, InRemoval,
           Ops
  <2>2. OnlyFewer
    BY <2>1, OthersOnlyRemove
  <2>3. NewHash(q) \in Hashes \union {NoHash} /\ NewHash(q)' = NewHash(q)
    BY <1>1, HashesAre DEF NewHash
  <2>4. WrittenInPart(NewHash(q)) => WrittenInPart(NewHash(q))'
    BY <2>2, <2>3 DEF WrittenInPart, OnlyFewer
  <2> QED
    BY <1>1, <1>2, <1>4, <2>4 DEF LeftAs
<1>5. CASE pc[q] # "write"
  <2>1. AfterVictim(q)' = AfterVictim(q)
    BY <1>1 DEF AfterVictim
  <2>2. StepsLeft(q)' = StepsLeft(q)
    BY <1>1, <1>2, <1>3, <1>5, <2>1
       DEF LeftAs, PCs, Adding, Removing, Ops
  <2> QED
    BY <1>3, <2>2
<1> QED
  BY <1>4, <1>5

\* A call that begins is one of a process without another one.
LEMMA CallsStay ==
  ASSUME StoreInv, Calling, NEW q \in Procs, pc[q] # "idle"
  PROVE  StepsLeft(q)' <= StepsLeft(q)
<1>1. /\ pc'[q] = pc[q] /\ op'[q] = op[q] /\ me'[q] = me[q]
      /\ content' = content
  BY DEF Calling, CallAdd, CallReplace, CallTrim, CallRemove, Goto, StoreInv,
         TypeOK
<1>2. StepsLeft(q)' = StepsLeft(q)
  BY <1>1 DEF StepsLeft, AfterVictim, WrittenInPart, NewHash, HashOf
<1>3. StepsLeft(q) \in Nat
  BY StepsLeftNatural DEF LeftNatural
<1> QED
  BY <1>2, <1>3

\* What CallsShorten says of a step.
ShortenStep ==
  \A p \in Procs : pc[p] # "idle" =>
    /\ StepsLeft(p)' <= StepsLeft(p)
    /\ Locking(p) \/ Step(p) => StepsLeft(p)' < StepsLeft(p)

LEMMA StepsShorten ==
  ASSUME StoreInv, StoreInv', RacedSeen, [Next]_vars
  PROVE  [ShortenStep]_vars
<1> SUFFICES ASSUME Next, vars' # vars, NEW q \in Procs, pc[q] # "idle"
             PROVE  /\ StepsLeft(q)' <= StepsLeft(q)
                    /\ Locking(q) \/ Step(q) => StepsLeft(q)' < StepsLeft(q)
  BY Zenon DEF ShortenStep
<1>1. StepsLeft(q) \in Nat /\ StepsLeft(q)' \in Nat
  BY StepsLeftNatural, StepsLeftNaturalNext DEF LeftNatural
<1>2. Locking(q) \/ Step(q) => StepsLeft(q)' < StepsLeft(q)
  BY LockingShortens, StepShortens
<1>3. Kill(q) => StepsLeft(q)' = 0
  BY LeftNext DEF EachLeft, LeftAs, Kill, Vanish, Goto, StoreInv, TypeOK
<1>4. StepsLeft(q)' <= StepsLeft(q)
  <2>1. CASE Calling
    BY <2>1, CallsStay
  <2>2. ASSUME NEW p \in Procs, Locking(p) \/ Step(p) \/ Kill(p)
        PROVE  StepsLeft(q)' <= StepsLeft(q)
    <3>1. CASE p = q
      BY <1>1, <1>2, <1>3, <2>2, <3>1
    <3>2. CASE p # q
      BY <2>2, <3>2, OthersStay
    <3> QED
      BY <3>1, <3>2
  <2> QED
    BY <2>1, <2>2 DEF Next
<1> QED
  BY <1>2, <1>4

(***************************************************************************)
(* CallsShorten, of any number of processes, with overlaps and kills: each *)
(* call is over after as many steps of its own as StepsLeft says when it   *)
(* begins, or sooner, whatever the others do.  What a liveness property    *)
(* has to add is that it gets these steps, and the flock, in the end.      *)
(***************************************************************************)
THEOREM CallsAreFinite ==
  Spec => /\ CallsShorten
          /\ [](\A p \in Procs : StepsLeft(p) \in Nat)
<1>1. StoreInv /\ StoreInv' /\ RacedSeen /\ [Next]_vars => [ShortenStep]_vars
  BY StepsShorten
<1>2. StoreInv => \A p \in Procs : StepsLeft(p) \in Nat
  BY StepsLeftNatural DEF LeftNatural
<1> QED
  BY <1>1, <1>2, StoreInvariant, RacedIsSeen, PTL
     DEF Spec, CallsShorten, ShortenStep
=============================================================================
