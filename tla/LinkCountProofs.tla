-------------------------- MODULE LinkCountProofs ----------------------------
(***************************************************************************)
(* The content directory counts the snips (ContentMatchesSnips), whatever  *)
(* is read is whole (ReadableUntilRaced) and no call fails                 *)
(* (NoContentError), up to the first kill and the first overlap of an      *)
(* addition with a removal of the same content.                            *)
(***************************************************************************)
EXTENDS ClipStoreProofs

\* The snips of a hash.
OfHash(h) == {i \in Staying : HashOf(snips[i].text) = h}

\* Places at which the Daemon has made a link whose snip is not there yet,
\* or a snip whose link is not there yet.
Ahead(h) ==
  /\ op[Daemon] = "add" /\ pc[Daemon] \in {"write", "wait", "grow", "fill"}
  /\ NewHash(Daemon) = h

Behind(h) ==
  \/ /\ op[Daemon] = "replace" /\ pc[Daemon] \in Adding \ {"write"}
     /\ NewHash(Daemon) = h
  \/ \E p \in Procs : /\ pc[p] \in {"rmdir", "doom", "update"}
                      /\ VictimHash(p) = h

\* How many links a hash has: as many as snips, but for these.
Due(h) ==
  Cardinality(OfHash(h)) + (IF Ahead(h) THEN 1 ELSE 0)
                         - (IF Behind(h) THEN 1 ELSE 0)

AtRmdir(h) == \E p \in Procs : pc[p] = "rmdir" /\ VictimHash(p) = h

MakerAt(place, h) == pc[Daemon] = place /\ NewHash(Daemon) = h

HashInv(h) ==
  LET c == content[h]
  IN  /\ Due(h) \in Nat /\ c.links = 1 .. Due(h)
      /\ c.dir <=> c.links # {} \/ AtRmdir(h) \/ MakerAt("create", h)
      /\ c.links # {} /\ ~MakerAt("write", h) =>
           c.data \in Texts /\ Hash[c.data] = h

\* What a call knows of the hash it is at work on.
Known(p) ==
  /\ pc[p] \in {"stat_dupe", "link"} => content[NewHash(p)].links # {}
  /\ pc[p] = "link" =>
       me[p].nlink = Cardinality(content[NewHash(p)].links)
  /\ pc[p] = "create" => content[NewHash(p)].links = {}
  /\ pc[p] = "write" => content[NewHash(p)].links = {1}
  /\ pc[p] = "unlink" =>
       me[p].nlink = Cardinality(content[VictimHash(p)].links)
  /\ pc[p] = "rmdir" => content[VictimHash(p)].links = {}
  /\ pc[p] # "fail"

\* Snips are marked by who is at work on them.
Marks ==
  /\ \A i \in DOMAIN snips :
       /\ snips[i].text = Zero => /\ i = Len(snips)
                                  /\ \E p \in Procs : pc[p] = "fill"
       /\ snips[i].doomed => \E p \in Procs : /\ pc[p] \in InRemoval
                                              /\ op[p] \in {"trim", "remove"}
  /\ \A p \in Procs : \A i \in me[p].todo : ~snips[i].doomed

LinkInv ==
  /\ \A h \in Hashes : HashInv(h)
  /\ \A p \in Procs : Known(p)
  /\ Marks

-----------------------------------------------------------------------------
(***************************************************************************)
(* Who holds the flock is alone at it: what is said of some process is     *)
(* said of that one.                                                       *)
(***************************************************************************)
\* A process without the flock.
Outside(p) ==
  /\ ~Locked(p) /\ me[p].todo = {}
  /\ pc[p] \in Adding \union {"idle", "wait", "fail"}
  /\ pc[p] \in Adding \union {"fail"} => op[p] = "add"

LEMMA OthersOutside ==
  StoreInv => \A p \in Procs : lock # p => Outside(p)
<1> SUFFICES ASSUME StoreInv, NEW p \in Procs, lock # p
             PROVE  Outside(p)
  OBVIOUS
<1>1. Control(p) /\ Work(p) /\ op[p] \in Ops
  BY DEF StoreInv, CallInv, TypeOK
<1>2. ~Locked(p)
  BY <1>1 DEF Control
<1>3. pc[p] \in Adding \union {"idle", "wait", "fail"}
  BY <1>1, <1>2
     DEF Control, Locked, PlacesOf, InRemoval, Adding, Removing, Ops
<1>4. pc[p] \in Adding \union {"fail"} => op[p] = "add"
  BY <1>2 DEF Locked
<1> QED
  BY <1>1, <1>2, <1>3, <1>4 DEF Outside, Work

\* Only the Daemon adds and replaces.
LEMMA DaemonAdds ==
  StoreInv => \A p \in Procs :
    /\ pc[p] \in Adding => p = Daemon /\ op[p] \in {"add", "replace"}
    /\ op[p] \in {"add", "replace"} => p = Daemon /\ me[p].text \in Texts
    /\ pc[p] = "fill" => p = Daemon /\ op[p] = "add"
    /\ pc[p] = "update" => p = Daemon /\ op[p] = "replace"
<1> SUFFICES ASSUME StoreInv, NEW p \in Procs
             PROVE  /\ pc[p] \in Adding => op[p] \in {"add", "replace"}
                    /\ op[p] \in {"add", "replace"} =>
                         p = Daemon /\ me[p].text \in Texts
                    /\ pc[p] = "fill" => op[p] = "add"
                    /\ pc[p] = "update" => op[p] = "replace"
  OBVIOUS
<1>1. Control(p) /\ op[p] \in Ops
  BY DEF StoreInv, CallInv, TypeOK
<1> QED
  BY <1>1 DEF Control, PlacesOf, InRemoval, Adding, Removing, Ops

\* What is true when nobody holds the flock.
Unheld ==
  /\ \A p \in Procs : Outside(p)
  /\ \A h : ~Behind(h) /\ ~AtRmdir(h)
  /\ Staying = {i \in DOMAIN snips : ~snips[i].doomed}

LEMMA FreeView == StoreInv /\ lock = NoProc => Unheld
<1> SUFFICES ASSUME StoreInv, lock = NoProc
             PROVE  Unheld
  OBVIOUS
<1>1. \A p \in Procs : Outside(p)
  BY OthersOutside, ProcAssumption
<1>2. \A p \in Procs : /\ pc[p] \notin {"rmdir", "doom", "update"}
                       /\ pc[p] \notin {"compact", "shrink"}
                       /\ me[p].todo = {}
  BY <1>1 DEF Outside, Adding
<1>3. ~(op[Daemon] = "replace" /\ pc[Daemon] \in Adding)
  BY <1>1 DEF Outside, Procs
<1>4. \A h : ~Behind(h) /\ ~AtRmdir(h)
  BY <1>2, <1>3 DEF Behind, AtRmdir
<1>5. Staying = {i \in DOMAIN snips : ~snips[i].doomed}
  BY <1>2 DEF Staying, Compacting
<1> QED
  BY <1>1, <1>4, <1>5 DEF Unheld

\* What is true when p holds it.
Replacing(h) ==
  /\ op[Daemon] = "replace" /\ pc[Daemon] \in Adding \ {"write"}
  /\ NewHash(Daemon) = h

HeldBy(p) ==
  /\ \A q \in Procs : q # p => Outside(q)
  /\ p # Daemon => op[Daemon] # "replace" \/ pc[Daemon] \notin Adding
  /\ \A h : /\ Behind(h) <=> \/ Replacing(h)
                             \/ /\ pc[p] \in {"rmdir", "doom", "update"}
                                /\ VictimHash(p) = h
            /\ AtRmdir(h) <=> pc[p] = "rmdir" /\ VictimHash(p) = h
  /\ pc[p] \notin {"compact", "shrink"} =>
       Staying = {i \in DOMAIN snips : ~snips[i].doomed}
  /\ pc[p] \in {"compact", "shrink"} =>
       Staying = {i \in DOMAIN snips :
                    \/ i < me[p].slot - me[p].gap
                    \/ i >= me[p].slot /\ ~snips[i].doomed}

Held == \A p \in Procs : lock = p => HeldBy(p)

LEMMA HolderView == StoreInv => Held
<1> SUFFICES ASSUME StoreInv, NEW p \in Procs, lock = p
             PROVE  HeldBy(p)
  BY DEF Held
<1>1. \A q \in Procs : q # p => Outside(q)
  BY OthersOutside
<1>2. \A q \in Procs : q # p => /\ pc[q] \notin {"rmdir", "doom", "update"}
                                /\ pc[q] \notin {"compact", "shrink"}
                                /\ me[q].todo = {}
  BY <1>1 DEF Outside, Adding
<1>3. p # Daemon => op[Daemon] # "replace" \/ pc[Daemon] \notin Adding
  BY <1>1 DEF Outside, Procs
<1>4. Compacting <=> pc[p] \in {"compact", "shrink"}
  BY <1>2 DEF Compacting
<1>5. ASSUME NEW h
      PROVE  /\ Behind(h) <=> \/ Replacing(h)
                              \/ /\ pc[p] \in {"rmdir", "doom", "update"}
                                 /\ VictimHash(p) = h
             /\ AtRmdir(h) <=> pc[p] = "rmdir" /\ VictimHash(p) = h
  BY <1>2, Zenon DEF Behind, AtRmdir, Replacing
<1>6. pc[p] \notin {"compact", "shrink"} =>
        Staying = {i \in DOMAIN snips : ~snips[i].doomed}
  BY <1>4 DEF Staying
<1>7. pc[p] \in {"compact", "shrink"} =>
        Staying = {i \in DOMAIN snips :
                     \/ i < me[p].slot - me[p].gap
                     \/ i >= me[p].slot /\ ~snips[i].doomed}
  BY <1>4 DEF Staying
<1> QED
  BY <1>1, <1>3, <1>5, <1>6, <1>7, Zenon DEF HeldBy

\* The snips of a hash can be counted.
LEMMA OfHashFinite ==
  StoreInv => \A h : IsFiniteSet(OfHash(h)) /\ Cardinality(OfHash(h)) \in Nat
<1> SUFFICES ASSUME StoreInv, NEW h
             PROVE  IsFiniteSet(OfHash(h)) /\ Cardinality(OfHash(h)) \in Nat
  OBVIOUS
<1>1. DOMAIN snips = 1 .. Len(snips) /\ Len(snips) \in Nat
  BY SnipsTyped
<1>2. IsFiniteSet(DOMAIN snips)
  BY <1>1, FS_Interval
<1>3. OfHash(h) \in SUBSET (DOMAIN snips)
  BY DEF OfHash, Staying
<1>4. IsFiniteSet(OfHash(h))
  BY <1>2, <1>3, FS_Subset
<1> QED
  BY <1>4, FS_CardinalityType

\* Nothing changes for a hash.
SameCount(h) ==
  /\ OfHash(h)' = OfHash(h) /\ (Ahead(h)' <=> Ahead(h))
  /\ Behind(h)' <=> Behind(h)

SameHash(h) ==
  /\ content'[h] = content[h] /\ SameCount(h)
  /\ AtRmdir(h)' <=> AtRmdir(h)
  /\ MakerAt("create", h)' <=> MakerAt("create", h)
  /\ MakerAt("write", h)' <=> MakerAt("write", h)

LEMMA SameHashKeeps ==
  ASSUME NEW h \in Hashes, HashInv(h), SameHash(h)
  PROVE  HashInv(h)'
<1>1. Due(h)' = Due(h)
  BY DEF SameHash, SameCount, Due
<1> QED
  BY <1>1 DEF SameHash, HashInv

\* Nothing changes for a process but what does not concern it.
LEMMA KnownKeeps ==
  ASSUME NEW q, Known(q),
         pc'[q] = pc[q], me'[q] = me[q],
         pc[q] \in Adding \ {"mkdir"} =>
           LET h == NewHash(q) IN content'[h].links = content[h].links,
         pc[q] \in {"unlink", "rmdir"} =>
           /\ VictimHash(q)' = VictimHash(q)
           /\ LET h == VictimHash(q) IN content'[h].links = content[h].links
  PROVE  Known(q)'
<1>1. NewHash(q)' = NewHash(q)
  BY DEF NewHash
<1> QED
  BY <1>1 DEF Known, Adding

\* The snips and who is at work on them stay.
LEMMA MarksKeep ==
  ASSUME Marks, NEW p \in Procs, snips' = snips,
         \A q \in Procs : q # p => /\ pc'[q] = pc[q] /\ op'[q] = op[q]
                                   /\ me'[q] = me[q],
         pc[p] \in InRemoval /\ op[p] \in {"trim", "remove"} =>
           \/ pc'[p] \in InRemoval /\ op'[p] \in {"trim", "remove"}
           \/ \A i \in DOMAIN snips : ~snips[i].doomed,
         pc[p] # "fill" \/ pc'[p] = "fill",
         me'[p].todo \subseteq me[p].todo
           \/ \A i \in me'[p].todo : ~snips[i].doomed
  PROVE  Marks'
<1>1. ASSUME NEW i \in DOMAIN snips, snips[i].text = Zero
      PROVE  i = Len(snips) /\ \E q \in Procs : pc'[q] = "fill"
  BY <1>1 DEF Marks
<1>2. ASSUME NEW i \in DOMAIN snips, snips[i].doomed
      PROVE  \E q \in Procs : /\ pc'[q] \in InRemoval
                              /\ op'[q] \in {"trim", "remove"}
  <2>1. PICK q \in Procs : pc[q] \in InRemoval /\ op[q] \in {"trim", "remove"}
    BY <1>2 DEF Marks
  <2> QED
    BY <1>2, <2>1
<1>3. ASSUME NEW q \in Procs, NEW i \in me'[q].todo
      PROVE  ~snips[i].doomed
  BY <1>3 DEF Marks
<1> QED
  BY <1>1, <1>2, <1>3 DEF Marks

\* A step that leaves the snips and the flock alone, of a process that does
\* not hold it, changes nothing for who does.
LEMMA OutsideStep ==
  ASSUME StoreInv, StoreInv', NEW p \in Procs, lock # p,
         UNCHANGED <<snips, lock>>,
         \A q \in Procs : q # p => /\ pc'[q] = pc[q] /\ op'[q] = op[q]
                                   /\ me'[q] = me[q]
  PROVE  /\ Staying' = Staying
         /\ \A h : /\ OfHash(h)' = OfHash(h)
                   /\ Behind(h)' <=> Behind(h)
                   /\ AtRmdir(h)' <=> AtRmdir(h)
         /\ \A q \in Procs : q # p => VictimHash(q)' = VictimHash(q)
<1>1. ASSUME NEW q \in Procs, q # p
      PROVE  VictimHash(q)' = VictimHash(q)
  BY <1>1 DEF VictimHash, Victim
<1>2. /\ Staying' = Staying
      /\ \A h : /\ Behind(h)' <=> Behind(h)
                /\ AtRmdir(h)' <=> AtRmdir(h)
  <2>1. CASE lock = NoProc
    <3>1. StoreInv' /\ (lock = NoProc)' => Unheld'
      BY FreeView, PTL
    <3> QED
      BY <2>1, <3>1, FreeView DEF Unheld
  <2>2. CASE lock # NoProc
    <3>1. PICK r \in Procs : r = lock
      BY <2>2 DEF StoreInv, TypeOK
    <3>2. StoreInv' => Held'
      BY HolderView, PTL
    <3>3. HeldBy(r) /\ HeldBy(r)' /\ r # p
      BY <3>1, <3>2, HolderView DEF Held
    <3>4. pc'[r] = pc[r] /\ me'[r] = me[r] /\ VictimHash(r)' = VictimHash(r)
      BY <1>1, <3>3
    <3>5. \A h : Replacing(h)' <=> Replacing(h)
      <4>1. CASE p = Daemon
        BY <3>3, <4>1 DEF HeldBy, Replacing
      <4>2. CASE p # Daemon
        BY <4>2 DEF Replacing, NewHash, Procs
      <4> QED
        BY <4>1, <4>2
    <3>6. Staying' = Staying
      BY <3>3, <3>4 DEF HeldBy
    <3>7. ASSUME NEW h
          PROVE  /\ Behind(h)' <=> Behind(h)
                 /\ AtRmdir(h)' <=> AtRmdir(h)
      <4>1. Behind(h)' <=> Behind(h)
        BY <3>3, <3>4, <3>5, Zenon DEF HeldBy
      <4>2. AtRmdir(h)' <=> AtRmdir(h)
        <5>1. AtRmdir(h) <=> pc[r] = "rmdir" /\ VictimHash(r) = h
          BY <3>3, Zenon DEF HeldBy
        <5>2. AtRmdir(h)' <=> pc'[r] = "rmdir" /\ VictimHash(r)' = h
          BY <3>3, Zenon DEF HeldBy
        <5> QED
          BY <3>4, <5>1, <5>2
      <4> QED
        BY <4>1, <4>2
    <3> QED
      BY <3>6, <3>7
  <2> QED
    BY <2>1, <2>2
<1> QED
  BY <1>1, <1>2 DEF OfHash

LEMMA CallsLink ==
  ASSUME StoreInv, StoreInv', LinkInv, Calling
  PROVE  LinkInv'
<1>1. PICK p \in Procs :
        /\ pc[p] = "idle" /\ pc'[p] \in {"mkdir", "wait"}
        /\ UNCHANGED <<snips, content, lock>>
        /\ \A q \in Procs : q # p => /\ pc'[q] = pc[q] /\ op'[q] = op[q]
                                     /\ me'[q] = me[q]
        /\ me'[p].todo = me[p].todo
        /\ op'[p] = "add" => pc'[p] = "mkdir"
  <2>1. /\ pc \in [Procs -> PCs] /\ op \in [Procs -> Ops]
        /\ me \in [Procs -> Local]
    BY DEF StoreInv, TypeOK
  <2>2. ASSUME NEW t \in Texts, CallAdd(t)
        PROVE  /\ pc[Daemon] = "idle" /\ pc'[Daemon] = "mkdir"
               /\ UNCHANGED <<snips, content, lock>>
               /\ \A q \in Procs : q # Daemon =>
                    pc'[q] = pc[q] /\ op'[q] = op[q] /\ me'[q] = me[q]
               /\ me'[Daemon].todo = me[Daemon].todo
    BY <2>1, <2>2 DEF CallAdd, Goto, Procs, Local
  <2>3. ASSUME NEW t \in Texts, CallReplace(t)
        PROVE  /\ pc[Daemon] = "idle" /\ pc'[Daemon] = "wait"
               /\ UNCHANGED <<snips, content, lock>>
               /\ \A q \in Procs : q # Daemon =>
                    pc'[q] = pc[q] /\ op'[q] = op[q] /\ me'[q] = me[q]
               /\ me'[Daemon].todo = me[Daemon].todo
               /\ op'[Daemon] = "replace"
    BY <2>1, <2>3 DEF CallReplace, Goto, Procs, Local
  <2>4. ASSUME NEW n \in 0 .. MaxLen, CallTrim(n)
        PROVE  /\ pc[Daemon] = "idle" /\ pc'[Daemon] = "wait"
               /\ UNCHANGED <<snips, content, lock>>
               /\ \A q \in Procs : q # Daemon =>
                    pc'[q] = pc[q] /\ op'[q] = op[q] /\ me'[q] = me[q]
               /\ me'[Daemon].todo = me[Daemon].todo
               /\ op'[Daemon] = "trim"
    BY <2>1, <2>4 DEF CallTrim, Goto, Procs, Local
  <2>5. ASSUME NEW p \in Deleters, CallRemove(p)
        PROVE  /\ pc[p] = "idle" /\ pc'[p] = "wait" /\ p \in Procs
               /\ UNCHANGED <<snips, content, lock>>
               /\ \A q \in Procs : q # p =>
                    pc'[q] = pc[q] /\ op'[q] = op[q] /\ me'[q] = me[q]
               /\ me'[p].todo = me[p].todo
               /\ op'[p] = "remove"
    BY <2>1, <2>5 DEF CallRemove, Goto, Procs
  <2>6. Daemon \in Procs
    BY DEF Procs
  <2> QED
    BY <2>2, <2>3, <2>4, <2>5, <2>6 DEF Calling
<1>2. lock # p
  BY <1>1 DEF StoreInv, CallInv, Control, Locked, InRemoval, Removing, Adding
<1>3. /\ \A h : /\ OfHash(h)' = OfHash(h)
                /\ Behind(h)' <=> Behind(h)
                /\ AtRmdir(h)' <=> AtRmdir(h)
      /\ \A q \in Procs : q # p => VictimHash(q)' = VictimHash(q)
  BY <1>1, <1>2, OutsideStep
<1>4. ASSUME NEW h \in Hashes
      PROVE  HashInv(h)'
  <2>1. Ahead(h)' <=> Ahead(h)
    BY <1>1 DEF Ahead, NewHash, StoreInv, CallInv, Control, PlacesOf, Procs
  <2>2. /\ MakerAt("create", h)' <=> MakerAt("create", h)
        /\ MakerAt("write", h)' <=> MakerAt("write", h)
    BY <1>1 DEF MakerAt, NewHash, Procs
  <2>3. SameHash(h)
    BY <1>1, <1>3, <2>1, <2>2 DEF SameHash, SameCount
  <2> QED
    BY <2>3, SameHashKeeps DEF LinkInv
<1>5. ASSUME NEW q \in Procs
      PROVE  Known(q)'
  <2>1. CASE q = p
    BY <1>1, <2>1 DEF Known
  <2>2. CASE q # p
    BY <1>1, <1>3, <2>2, KnownKeeps DEF LinkInv
  <2> QED
    BY <2>1, <2>2
<1>6. Marks'
  BY <1>1, MarksKeep DEF LinkInv, InRemoval, Removing
<1> QED
  BY <1>4, <1>5, <1>6 DEF LinkInv

LEMMA LocksLink ==
  ASSUME StoreInv, StoreInv', LinkInv, NEW p \in Procs, Locking(p)
  PROVE  LinkInv'
<1>1. /\ pc[p] = "wait" /\ lock = NoProc /\ lock' = p
      /\ UNCHANGED <<snips, content, op>>
  BY DEF Locking, LockAdd, LockReplace, LockTrim, LockRemove, LockFor
<1>2. /\ \A q \in Procs : q # p => /\ pc'[q] = pc[q] /\ op'[q] = op[q]
                                   /\ me'[q] = me[q]
      /\ pc'[p] \in {"grow", "range", "unlock", "scan", "stat"}
      /\ me'[p].text = me[p].text
      /\ op[p] = "add" => pc'[p] = "grow" /\ me'[p].todo = {}
  <2>1. /\ pc \in [Procs -> PCs] /\ me \in [Procs -> Local] /\ me[p].todo = {}
    <3>1. Outside(p)
      BY <1>1, FreeView DEF Unheld
    <3> QED
      BY <3>1 DEF StoreInv, TypeOK, Outside
  <2>2. CASE LockAdd(p)
    BY <2>1, <2>2 DEF LockAdd, Goto
  <2>3. ASSUME NEW victims, LockFor(p, victims), NEW l, Goto(p, l),
               l \in {"range", "unlock", "scan", "stat"}, op[p] # "add"
        PROVE  /\ \A q \in Procs : q # p => /\ pc'[q] = pc[q]
                                            /\ op'[q] = op[q]
                                            /\ me'[q] = me[q]
               /\ pc'[p] = l /\ me'[p].text = me[p].text
    BY <1>1, <2>1, <2>3 DEF LockFor, Goto, Local
  <2>4. CASE LockReplace(p)
    BY <2>3, <2>4 DEF LockReplace
  <2>5. CASE LockTrim(p)
    BY <2>3, <2>5 DEF LockTrim
  <2>6. CASE LockRemove(p)
    BY <2>3, <2>6 DEF LockRemove
  <2> QED
    BY <2>2, <2>4, <2>5, <2>6 DEF Locking
<1>3. Unheld
  BY <1>1, FreeView
<1>4. HeldBy(p)'
  <2>1. StoreInv' => Held'
    BY HolderView, PTL
  <2> QED
    BY <1>1, <2>1 DEF Held
<1>5. Staying' = Staying
  BY <1>1, <1>2, <1>3, <1>4 DEF Unheld, HeldBy
<1>6. \A h : ~Behind(h)' /\ ~AtRmdir(h)'
  <2>1. \A h : ~Replacing(h)'
    BY <1>2, <1>4 DEF HeldBy, Replacing, Adding
  <2> QED
    BY <1>2, <1>4, <2>1 DEF HeldBy
<1>7. \A i \in DOMAIN snips : ~snips[i].doomed
  BY <1>3 DEF LinkInv, Marks, Unheld, Outside, InRemoval, Removing, Adding
<1>8. ASSUME NEW h \in Hashes
      PROVE  HashInv(h)'
  <2>1. Ahead(h)' <=> Ahead(h)
    BY <1>1, <1>2 DEF Ahead, NewHash, Procs
  <2>2. /\ MakerAt("create", h)' <=> MakerAt("create", h)
        /\ MakerAt("write", h)' <=> MakerAt("write", h)
    BY <1>1, <1>2 DEF MakerAt, NewHash, Procs
  <2>3. SameHash(h)
    BY <1>1, <1>3, <1>5, <1>6, <2>1, <2>2
       DEF SameHash, SameCount, OfHash, Unheld
  <2> QED
    BY <2>3, SameHashKeeps DEF LinkInv
<1>9. ASSUME NEW q \in Procs
      PROVE  Known(q)'
  <2>1. CASE q = p
    BY <1>2, <2>1 DEF Known
  <2>2. CASE q # p
    <3>1. pc[q] \notin {"unlink", "rmdir"}
      BY <1>3 DEF Unheld, Outside, Adding
    <3> QED
      BY <1>1, <1>2, <2>2, <3>1, KnownKeeps DEF LinkInv
  <2> QED
    BY <2>1, <2>2
<1>10. Marks'
  <2>1. pc[p] \notin InRemoval
    BY <1>1 DEF InRemoval, Removing
  <2>2. \A i \in me'[p].todo : ~snips[i].doomed
    <3>1. me'[p].todo \subseteq DOMAIN snips
      BY <1>1 DEF StoreInv, CallInv, Work
    <3> QED
      BY <1>7, <3>1
  <2> QED
    BY <1>1, <1>2, <2>1, <2>2, MarksKeep DEF LinkInv
<1> QED
  BY <1>8, <1>9, <1>10 DEF LinkInv

\* A victim is one of the snips.
LEMMA VictimRemoved ==
  StoreInv => \A p \in Procs :
    pc[p] \in Removing \union {"doom", "update"} =>
      me[p].todo # {} /\ Victim(p) \in me[p].todo /\ Victim(p) \in DOMAIN snips
<1> SUFFICES ASSUME StoreInv, NEW p \in Procs,
                    pc[p] \in Removing \union {"doom", "update"}
             PROVE  /\ me[p].todo # {} /\ Victim(p) \in me[p].todo
                    /\ Victim(p) \in DOMAIN snips
  OBVIOUS
<1>1. me[p].todo # {}
  BY DEF StoreInv, CallInv, Work
<1> QED
  BY <1>1, VictimIsLeft

(***************************************************************************)
(* Where nothing overlaps, nobody takes away links of a hash to which      *)
(* cs_add() is about to add one, not even in the step in which it begins.  *)
(***************************************************************************)
\* p is inside cs_content_add(), for the hash of whose links q removes one.
OverlapOf(p, q) ==
  /\ op[p] = "add" /\ pc[p] \in Adding \ {"mkdir"}
  /\ pc[q] \in {"unlink", "rmdir"} /\ VictimHash(q) = NewHash(p)

LEMMA NoneOverlaps ==
  ASSUME ~Overlap, NEW p \in Procs, NEW q \in Procs, NewHash(p) \in Hashes
  PROVE  ~OverlapOf(p, q)
BY DEF Overlap, OverlapOf, BeingAdded, BeingRemoved, Removing

LEMMA AddsApart ==
  ASSUME StoreInv, ~Overlap, ~Overlap', NEW p \in Procs, pc[p] \in Adding,
         UNCHANGED <<snips, op>>, me'[p].text = me[p].text,
         pc[p] = "mkdir" => pc'[p] \in Adding \ {"mkdir"},
         NEW q \in Procs, q # p, pc'[q] = pc[q], me'[q] = me[q],
         pc[q] \in {"unlink", "rmdir"}
  PROVE  VictimHash(q) # NewHash(p)
<1>1. NewHash(p) \in Hashes /\ op[p] \in {"add", "replace"}
  BY DaemonAdds, TextAssumption DEF NewHash, HashOf
<1>2. NewHash(p)' = NewHash(p) /\ VictimHash(q)' = VictimHash(q)
  BY DEF NewHash, VictimHash, Victim
<1>3. lock = q
  BY DEF StoreInv, CallInv, Control, Locked, InRemoval, Removing
<1>4. op[p] = "add"
  BY <1>1, <1>3 DEF StoreInv, CallInv, Control, Locked
<1>5. ~OverlapOf(p, q)
  BY <1>1, NoneOverlaps
<1>6. ~OverlapOf(p, q)'
  <2>1. ~Overlap' /\ p \in Procs /\ q \in Procs /\ NewHash(p)' \in Hashes
    BY <1>1, <1>2
  <2> QED
    BY <2>1, <1>2, Zenon
       DEF Overlap, OverlapOf, BeingAdded, BeingRemoved, Removing
<1> QED
  BY <1>2, <1>4, <1>5, <1>6 DEF OverlapOf

\* Whether the link of the clip is there, by where cs_content_add() is.
Made(l) == l \in {"write", "wait", "unlock"}

\* A step inside cs_content_add(), for the hash of the text and for others.
LEMMA AddFrame ==
  ASSUME StoreInv, StoreInv', LinkInv, NEW p \in Procs, pc[p] \in Adding,
         UNCHANGED <<snips, lock, op>>,
         \A q \in Procs : q # p => pc'[q] = pc[q] /\ me'[q] = me[q],
         me'[p].text = me[p].text, me'[p].todo = me[p].todo,
         pc'[p] \in (Adding \ {"mkdir"}) \union {AfterAdd(p)},
         pc[p] = "mkdir" => pc'[p] \in Adding, ~Overlap, ~Overlap',
         Made(pc[p]) => Made(pc'[p]),
         NEW h0, h0 = NewHash(p)
  PROVE  /\ p = Daemon /\ h0 \in Hashes /\ NewHash(p)' = h0
         /\ \A h : AtRmdir(h)' <=> AtRmdir(h)
         /\ \A h : h # h0 => SameCount(h)
         /\ \A h, l : MakerAt(l, h) <=> pc[p] = l /\ h = h0
         /\ \A h, l : MakerAt(l, h)' <=> pc'[p] = l /\ h = h0
         /\ ~AtRmdir(h0)
         /\ Due(h0)' = Due(h0) +
              (IF Made(pc'[p]) /\ ~Made(pc[p]) THEN 1 ELSE 0)
         /\ \A q \in Procs : q # p =>
              /\ pc[q] \notin Adding /\ VictimHash(q)' = VictimHash(q)
              /\ pc[q] \in {"unlink", "rmdir"} => VictimHash(q) # h0
<1>1. p = Daemon /\ op[p] \in {"add", "replace"} /\ me[p].text \in Texts
  BY DaemonAdds
<1>2. h0 \in Hashes /\ NewHash(p)' = h0
  BY <1>1, TextAssumption DEF NewHash, HashOf
<1>3. Control(p) /\ Work(p) /\ Work(p)'
  BY DEF StoreInv, CallInv
<1>4. \A h, l : /\ MakerAt(l, h) <=> pc[p] = l /\ h = h0
                /\ MakerAt(l, h)' <=> pc'[p] = l /\ h = h0
  BY <1>1, <1>2 DEF MakerAt
<1>5. \A q \in Procs : q # p /\ pc[q] \in {"unlink", "rmdir"} =>
                          VictimHash(q) # h0
  <2>1. pc[p] = "mkdir" => pc'[p] \in Adding \ {"mkdir"}
    BY DEF AfterAdd, Adding
  <2> QED
    BY <2>1, AddsApart
<1>6. \A q \in Procs : q # p => pc[q] \notin Adding
  BY <1>1, DaemonAdds
<1>7. \A q \in Procs : q # p => VictimHash(q)' = VictimHash(q)
  BY DEF VictimHash, Victim
<1>8. Cardinality(OfHash(h0)) \in Nat
  BY OfHashFinite
<1>9. CASE op[p] = "add"
  <2>1. lock # p
    BY <1>3, <1>9 DEF Control, Locked, InRemoval, Removing, Adding
  <2>2. \A h : /\ OfHash(h)' = OfHash(h)
               /\ Behind(h)' <=> Behind(h)
               /\ AtRmdir(h)' <=> AtRmdir(h)
    BY <2>1, OutsideStep
  <2>5. ~AtRmdir(h0)
    BY <1>5 DEF AtRmdir, Adding
  <2>6. pc'[p] \in Adding \union {"wait"}
    BY <1>9 DEF AfterAdd
  <2>7. \A h : /\ Ahead(h) <=> h = h0 /\ pc[p] = "write"
               /\ Ahead(h)' <=> h = h0 /\ pc'[p] \in {"write", "wait"}
    BY <1>1, <1>2, <1>9, <2>6 DEF Ahead, Adding
  <2>8. \A h : h # h0 => SameCount(h)
    BY <2>2, <2>7 DEF SameCount
  <2>9. Due(h0)' = Due(h0) + (IF Made(pc'[p]) /\ ~Made(pc[p]) THEN 1 ELSE 0)
    <3>1. Made(pc[p]) <=> pc[p] = "write"
      BY DEF Made, Adding
    <3>2. Made(pc'[p]) <=> pc'[p] \in {"write", "wait"}
      BY <2>6 DEF Made, Adding
    <3> QED
      BY <1>8, <2>2, <2>5, <2>7, <3>1, <3>2 DEF Due
  <2> QED
    BY <1>1, <1>2, <1>4, <1>5, <1>6, <1>7, <2>2, <2>5, <2>8, <2>9
<1>10. CASE op[p] = "replace"
  <2>1. lock = p /\ lock' = p /\ me[p].todo = {} /\ me'[p].todo = {}
    BY <1>3, <1>10 DEF Control, Locked, Work
  <2>2. StoreInv' => Held'
    BY HolderView, PTL
  <2>3. HeldBy(p) /\ HeldBy(p)'
    BY <2>1, <2>2, HolderView DEF Held
  <2>4. pc'[p] \in Adding \union {"unlock"}
    BY <1>10 DEF AfterAdd
  <2>5. Staying' = Staying
    BY <2>3, <2>4 DEF HeldBy, Adding
  <2>6. \A h : ~AtRmdir(h) /\ ~AtRmdir(h)'
    BY <2>1, <2>3, <2>4 DEF HeldBy, Adding
  <2>7. \A h : /\ Behind(h) <=> h = h0 /\ pc[p] \in Adding \ {"write"}
               /\ Behind(h)' <=> h = h0 /\ pc'[p] \in Adding \ {"write"}
    <3>1. \A h : /\ Replacing(h) <=> h = h0 /\ pc[p] \in Adding \ {"write"}
                 /\ Replacing(h)' <=> h = h0 /\ pc'[p] \in Adding \ {"write"}
      BY <1>1, <1>2, <1>10 DEF Replacing
    <3>2. /\ pc[p] \notin {"rmdir", "doom", "update"}
          /\ pc'[p] \notin {"rmdir", "doom", "update"}
      BY <2>4 DEF Adding
    <3> QED
      BY <2>3, <3>1, <3>2 DEF HeldBy
  <2>8. \A h : ~Ahead(h) /\ ~Ahead(h)'
    BY <1>1, <1>10 DEF Ahead
  <2>9. \A h : h # h0 => SameCount(h)
    BY <2>5, <2>7, <2>8 DEF SameCount, OfHash
  <2>10. Due(h0)' = Due(h0) + (IF Made(pc'[p]) /\ ~Made(pc[p]) THEN 1 ELSE 0)
    <3>1. OfHash(h0)' = OfHash(h0)
      BY <2>5 DEF OfHash
    <3>2. Made(pc[p]) <=> ~(pc[p] \in Adding \ {"write"})
      BY DEF Made, Adding
    <3>3. Made(pc'[p]) <=> ~(pc'[p] \in Adding \ {"write"})
      BY <2>4 DEF Made, Adding
    <3> QED
      BY <1>8, <2>7, <2>8, <3>1, <3>2, <3>3 DEF Due
  <2> QED
    BY <1>1, <1>2, <1>4, <1>5, <1>6, <1>7, <2>6, <2>9, <2>10
<1> QED
  BY <1>1, <1>9, <1>10

\* It is enough to look at that hash and that process.
LEMMA AddAdvance ==
  ASSUME StoreInv, StoreInv', LinkInv, NEW p \in Procs, pc[p] \in Adding,
         UNCHANGED <<snips, lock, op>>,
         \A q \in Procs : q # p => pc'[q] = pc[q] /\ me'[q] = me[q],
         me'[p].text = me[p].text, me'[p].todo = me[p].todo,
         pc'[p] \in (Adding \ {"mkdir"}) \union {AfterAdd(p)},
         pc[p] = "mkdir" => pc'[p] \in Adding, ~Overlap, ~Overlap',
         Made(pc[p]) => Made(pc'[p]),
         NEW h0, h0 = NewHash(p),
         \A h \in Hashes \union {NoHash} : h # h0 => content'[h] = content[h],
         LET c == content'[h0]
             n == Due(h0) + (IF Made(pc'[p]) /\ ~Made(pc[p]) THEN 1 ELSE 0)
         IN  /\ c.links = 1 .. n
             /\ c.dir <=> c.links # {} \/ pc'[p] = "create"
             /\ c.links # {} /\ pc'[p] # "write" =>
                  c.data \in Texts /\ Hash[c.data] = h0,
         Known(p)'
  PROVE  LinkInv'
<1>1. /\ p = Daemon /\ h0 \in Hashes /\ NewHash(p)' = h0
      /\ \A h : AtRmdir(h)' <=> AtRmdir(h)
      /\ \A h : h # h0 => SameCount(h)
      /\ \A h, l : MakerAt(l, h) <=> pc[p] = l /\ h = h0
      /\ \A h, l : MakerAt(l, h)' <=> pc'[p] = l /\ h = h0
      /\ ~AtRmdir(h0)
      /\ Due(h0)' = Due(h0) + (IF Made(pc'[p]) /\ ~Made(pc[p]) THEN 1 ELSE 0)
      /\ \A q \in Procs : q # p =>
           /\ pc[q] \notin Adding /\ VictimHash(q)' = VictimHash(q)
           /\ pc[q] \in {"unlink", "rmdir"} => VictimHash(q) # h0
  BY AddFrame
<1>2. ASSUME NEW h \in Hashes, h # h0
      PROVE  HashInv(h)'
  <2>1. SameHash(h)
    BY <1>1, <1>2 DEF SameHash
  <2> QED
    BY <2>1, SameHashKeeps DEF LinkInv
<1>3. HashInv(h0)'
  <2>1. Due(h0) \in Nat
    BY <1>1 DEF LinkInv, HashInv
  <2>2. Due(h0)' \in Nat
    BY <1>1, <2>1
  <2> QED
    BY <1>1, <2>1, <2>2 DEF HashInv
<1>4. ASSUME NEW q \in Procs
      PROVE  Known(q)'
  <2>1. CASE q # p
    <3>1. pc[q] \in {"unlink", "rmdir"} =>
            VictimHash(q) \in Hashes \union {NoHash} /\ VictimHash(q) # h0
      BY <1>1, <2>1, VictimRemoved, HashesAre DEF Removing
    <3> QED
      BY <1>1, <2>1, <3>1, KnownKeeps DEF LinkInv
  <2> QED
    BY <2>1
<1>5. Marks'
  BY MarksKeep DEF LinkInv, Adding, InRemoval, Removing
<1> QED
  BY <1>1, <1>2, <1>3, <1>4, <1>5 DEF LinkInv

LEMMA AddStepsLink ==
  ASSUME StoreInv, StoreInv', LinkInv, ~Overlap, ~Overlap', NEW p \in Procs,
         Mkdir(p) \/ StatDupe(p) \/ Link(p) \/ Create(p) \/ Write(p)
  PROVE  LinkInv'
<1>1. /\ pc[p] \in Adding /\ UNCHANGED <<snips, lock, op>>
      /\ pc \in [Procs -> PCs] /\ me \in [Procs -> Local]
      /\ content \in ContentType
  BY DEF Mkdir, StatDupe, Link, Create, Write, Adding, StoreInv, TypeOK,
         ContentType
<1>2. PICK h0 : h0 = NewHash(p)
  OBVIOUS
<1>3. p = Daemon /\ op[p] \in {"add", "replace"} /\ me[p].text \in Texts
  BY <1>1, DaemonAdds
<1>4. h0 \in Hashes /\ Hash[me[p].text] = h0
  BY <1>2, <1>3, TextAssumption DEF NewHash, HashOf
<1>5. /\ HashInv(h0) /\ Known(p)
      /\ MakerAt("create", h0) <=> pc[p] = "create"
      /\ MakerAt("write", h0) <=> pc[p] = "write"
  BY <1>2, <1>3, <1>4 DEF LinkInv, MakerAt
<1>c. pc[p] = "mkdir" => pc'[p] \in Adding \ {"mkdir"}
  BY <1>1 DEF Mkdir, StatDupe, Link, Create, Write, Goto, Adding
<1>6. ~AtRmdir(h0)
  <2>1. SUFFICES ASSUME NEW q \in Procs, pc[q] = "rmdir", VictimHash(q) = h0
                 PROVE  FALSE
    BY DEF AtRmdir
  <2>2. q # p
    BY <1>1, <2>1 DEF Adding
  <2>3. /\ pc'[q] = pc[q] /\ me'[q] = me[q] /\ me'[p].text = me[p].text
    BY <1>1, <2>2 DEF Mkdir, StatDupe, Link, Create, Write, Goto, Local
  <2> QED
    BY <1>1, <1>2, <1>c, <2>1, <2>2, <2>3, AddsApart
<1>7. PICK n \in Nat : n = Due(h0)
  BY <1>5 DEF HashInv
<1>8. /\ content[h0].links = 1 .. n
      /\ content[h0].dir <=> n > 0 \/ pc[p] = "create"
      /\ n > 0 /\ pc[p] # "write" =>
           content[h0].data \in Texts /\ Hash[content[h0].data] = h0
      /\ Cardinality(1 .. n) = n
  <2>1. Cardinality(1 .. n) = IF 1 > n THEN 0 ELSE n - 1 + 1
    <3>1. 1 \in Int /\ n \in Int
      BY <1>7
    <3> QED
      BY <3>1, FS_Interval
  <2>2. 1 .. n # {} <=> n > 0
    BY <1>7
  <2> QED
    BY <1>5, <1>6, <1>7, <2>1, <2>2 DEF HashInv
<1>9. AfterAdd(p) \in {"wait", "unlock"}
  BY DEF AfterAdd
<1>b. n + 0 = n
  BY <1>7
<1>10. me'[p].text = me[p].text => NewHash(p)' = h0
  BY <1>2 DEF NewHash
<1>a. ASSUME NEW e \in {0, 1},
             e = IF Made(pc'[p]) /\ ~Made(pc[p]) THEN 1 ELSE 0,
             \A q \in Procs : q # p => pc'[q] = pc[q] /\ me'[q] = me[q],
             me'[p].text = me[p].text, me'[p].todo = me[p].todo,
             pc'[p] \in (Adding \ {"mkdir"}) \union {AfterAdd(p)},
             Made(pc[p]) => Made(pc'[p]),
             \A h \in Hashes \union {NoHash} :
               h # h0 => content'[h] = content[h],
             content'[h0].links = 1 .. n + e,
             content'[h0].dir <=> n + e > 0 \/ pc'[p] = "create",
             n + e > 0 /\ pc'[p] # "write" =>
               content'[h0].data \in Texts /\ Hash[content'[h0].data] = h0,
             Known(p)'
      PROVE  LinkInv'
  <2>1. content'[h0].links # {} <=> n + e > 0
    BY <1>a
  <2> QED
    BY <1>1, <1>2, <1>7, <1>a, <1>c, <2>1, AddAdvance
<1>11. CASE Mkdir(p)
  <2>1. /\ pc[p] = "mkdir" /\ UNCHANGED me
        /\ content' = [content EXCEPT ![h0].dir = TRUE]
        /\ pc' = [pc EXCEPT ![p] =
                    IF content[h0].dir THEN "stat_dupe" ELSE "create"]
    BY <1>2, <1>11 DEF Mkdir, Goto
  <2>2. pc'[p] = IF n > 0 THEN "stat_dupe" ELSE "create"
    BY <1>1, <1>8, <2>1
  <2>3. /\ \A h \in Hashes \union {NoHash} :
             h # h0 => content'[h] = content[h]
        /\ content'[h0].links = 1 .. n /\ content'[h0].dir
        /\ content'[h0].data = content[h0].data
    BY <1>1, <1>4, <1>8, <2>1 DEF ContentType
  <2>4. NewHash(p)' = h0 /\ (pc'[p] = "stat_dupe" \/ pc'[p] = "create")
    BY <1>10, <2>1, <2>2
  <2>5. pc'[p] = "stat_dupe" => content'[h0].links # {}
    <3>1. n > 0 => 1 .. n # {}
      OBVIOUS
    <3> QED
      BY <2>2, <2>3, <3>1
  <2>6. pc'[p] = "create" => content'[h0].links = {}
    <3>1. ~(n > 0) => 1 .. n = {}
      OBVIOUS
    <3> QED
      BY <2>2, <2>3, <3>1
  <2>7. Known(p)'
    BY <2>4, <2>5, <2>6 DEF Known
  <2>8. ~Made(pc[p]) /\ ~Made(pc'[p]) /\ pc'[p] \in Adding \ {"mkdir"}
    BY <2>1, <2>4 DEF Made, Adding
  <2>9. \A q \in Procs : q # p => pc'[q] = pc[q] /\ me'[q] = me[q]
    BY <1>1, <2>1
  <2>10. pc[p] # "write" /\ pc[p] # "create"
    BY <2>1
  <2> QED
    BY <1>8, <1>a, <1>b, <2>1, <2>2, <2>3, <2>7, <2>8, <2>9, <2>10
<1>12. CASE StatDupe(p)
  <2>1. /\ pc[p] = "stat_dupe" /\ UNCHANGED content
        /\ me' = [me EXCEPT ![p].nlink = Cardinality(content[h0].links)]
        /\ pc' = [pc EXCEPT ![p] =
                    IF 1 \in content[h0].links THEN "link" ELSE "fail"]
    BY <1>2, <1>12 DEF StatDupe, Goto
  <2>2. n > 0
    <3>1. 1 .. n # {}
      BY <1>2, <1>5, <1>8, <2>1 DEF Known
    <3> QED
      BY <1>7, <3>1
  <2>3. 1 \in content[h0].links
    BY <1>8, <2>2
  <2>4. /\ pc'[p] = "link" /\ me'[p].nlink = n
        /\ me'[p].text = me[p].text /\ me'[p].todo = me[p].todo
    BY <1>1, <1>8, <2>1, <2>3 DEF Local
  <2>5. Known(p)'
    BY <1>8, <1>10, <2>1, <2>3, <2>4 DEF Known
  <2>6. ~Made(pc[p]) /\ ~Made(pc'[p]) /\ pc'[p] \in Adding \ {"mkdir"}
    BY <2>1, <2>4 DEF Made, Adding
  <2>7. \A q \in Procs : q # p => pc'[q] = pc[q] /\ me'[q] = me[q]
    BY <1>1, <2>1
  <2>8. pc[p] # "write" /\ pc[p] # "create"
    BY <2>1
  <2> QED
    BY <1>8, <1>a, <1>b, <2>1, <2>4, <2>5, <2>6, <2>7, <2>8
<1>13. CASE Link(p)
  <2>1. pc[p] = "link" /\ UNCHANGED me
    BY <1>13 DEF Link
  <2>2. n > 0 /\ NewLink(p) = n + 1
    <3>1. 1 .. n # {} /\ me[p].nlink = n
      BY <1>2, <1>5, <1>8, <2>1 DEF Known
    <3> QED
      BY <1>7, <3>1 DEF NewLink
  <2>3. /\ content' = [content EXCEPT ![h0].links = @ \union {n + 1}]
        /\ pc' = [pc EXCEPT ![p] = AfterAdd(p)]
    BY <1>2, <1>8, <1>13, <2>2 DEF Link, Goto
  <2>4. /\ \A h \in Hashes \union {NoHash} :
             h # h0 => content'[h] = content[h]
        /\ content'[h0].links = (1 .. n) \union {n + 1}
        /\ content'[h0].dir = content[h0].dir
        /\ content'[h0].data = content[h0].data
    BY <1>1, <1>4, <1>8, <2>3 DEF ContentType
  <2>5. content'[h0].links = 1 .. n + 1 /\ content'[h0].links # {}
    BY <2>4
  <2>6. pc'[p] = AfterAdd(p)
    BY <1>1, <2>3
  <2>7. Known(p)'
    BY <1>9, <2>6 DEF Known
  <2>8. ~Made(pc[p]) /\ Made(pc'[p]) /\ pc'[p] \notin {"create", "write"}
    BY <1>9, <2>1, <2>6 DEF Made
  <2>9. \A q \in Procs : q # p => pc'[q] = pc[q] /\ me'[q] = me[q]
    BY <1>1, <2>1, <2>3
  <2>10. n + 1 > 0 /\ pc[p] # "write"
    BY <2>1, <2>2
  <2> QED
    BY <1>8, <1>a, <2>1, <2>2, <2>4, <2>5, <2>6, <2>7, <2>8, <2>9, <2>10
<1>14. CASE Create(p)
  <2>1. pc[p] = "create" /\ UNCHANGED me
    BY <1>14 DEF Create
  <2>2. n = 0
    <3>1. 1 .. n = {}
      BY <1>2, <1>5, <1>8, <2>1 DEF Known
    <3> QED
      BY <1>7, <3>1
  <2>3. /\ content' = [content EXCEPT ![h0].links = @ \union {1},
                                      ![h0].data = Empty]
        /\ pc' = [pc EXCEPT ![p] = "write"]
    BY <1>2, <1>8, <1>14, <2>1, <2>2 DEF Create, Goto
  <2>4. /\ \A h \in Hashes \union {NoHash} :
             h # h0 => content'[h] = content[h]
        /\ content'[h0].links = (1 .. n) \union {1}
        /\ content'[h0].dir = content[h0].dir
    BY <1>1, <1>4, <1>8, <2>3 DEF ContentType
  <2>5. content'[h0].links = 1 .. n + 1 /\ content'[h0].links = {1}
    BY <2>2, <2>4
  <2>6. pc'[p] = "write"
    BY <1>1, <2>3
  <2>7. Known(p)'
    BY <1>10, <2>1, <2>5, <2>6 DEF Known
  <2>8. ~Made(pc[p]) /\ Made(pc'[p]) /\ pc'[p] \in Adding \ {"mkdir"}
    BY <2>1, <2>6 DEF Made, Adding
  <2>9. \A q \in Procs : q # p => pc'[q] = pc[q] /\ me'[q] = me[q]
    BY <1>1, <2>1, <2>3
  <2>10. n + 1 > 0 /\ content[h0].dir
    BY <1>8, <2>1, <2>2
  <2> QED
    BY <1>a, <2>1, <2>4, <2>5, <2>6, <2>7, <2>8, <2>9, <2>10
<1>15. CASE Write(p)
  <2>1. pc[p] = "write" /\ UNCHANGED me
    BY <1>15 DEF Write
  <2>2. content[h0].links = {1}
    BY <1>2, <1>5, <2>1 DEF Known
  <2>3. PICK d \in {Partial, me[p].text} :
          /\ content' = [content EXCEPT ![h0].data = d]
          /\ pc' = [pc EXCEPT ![p] =
                      IF d = Partial THEN "write" ELSE AfterAdd(p)]
    BY <1>2, <1>15, <2>2 DEF Write, Goto
  <2>4. /\ \A h \in Hashes \union {NoHash} :
             h # h0 => content'[h] = content[h]
        /\ content'[h0].links = 1 .. n /\ content'[h0].links = {1}
        /\ content'[h0].dir = content[h0].dir
        /\ content'[h0].data = d
    BY <1>1, <1>4, <1>8, <2>2, <2>3 DEF ContentType
  <2>5. pc'[p] = IF d = Partial THEN "write" ELSE AfterAdd(p)
    BY <1>1, <2>3
  <2>6. Known(p)'
    BY <1>9, <1>10, <2>1, <2>4, <2>5 DEF Known
  <2>7. /\ Made(pc[p]) /\ Made(pc'[p]) /\ pc'[p] # "create"
        /\ pc'[p] \in (Adding \ {"mkdir"}) \union {AfterAdd(p)}
    BY <1>9, <2>1, <2>5 DEF Made, Adding
  <2>8. pc'[p] # "write" => d \in Texts /\ Hash[d] = h0
    BY <1>3, <1>4, <2>3, <2>5
  <2>9. n + 0 = n /\ n > 0 /\ content'[h0].dir
    <3>1. 1 .. n # {}
      BY <1>8, <2>2
    <3>2. n > 0
      BY <1>7, <3>1
    <3> QED
      BY <1>7, <1>8, <2>4, <3>2
  <2>10. \A q \in Procs : q # p => pc'[q] = pc[q] /\ me'[q] = me[q]
    BY <1>1, <2>1, <2>3
  <2> QED
    BY <1>a, <2>1, <2>4, <2>6, <2>7, <2>8, <2>9, <2>10
<1> QED
  BY <1>11, <1>12, <1>13, <1>14, <1>15

\* What p is taking away.
Leaving(p, h) ==
  pc[p] \in {"rmdir", "doom", "update"} /\ VictimHash(p) = h

\* What the holder of the flock is at is all there is to see of it.
HolderSees(p) ==
  \A h : /\ Behind(h) <=> Leaving(p, h)
         /\ Behind(h)' <=> Leaving(p, h)'
         /\ AtRmdir(h) <=> pc[p] = "rmdir" /\ VictimHash(p) = h
         /\ AtRmdir(h)' <=> pc'[p] = "rmdir" /\ VictimHash(p)' = h
         /\ Ahead(h)' <=> Ahead(h)
         /\ MakerAt("create", h)' <=> MakerAt("create", h)
         /\ MakerAt("write", h)' <=> MakerAt("write", h)

\* A step of the holder of the flock, outside cs_content_add().
LEMMA HolderFrame ==
  ASSUME StoreInv, StoreInv', NEW p \in Procs, lock = p, lock' = p, op' = op,
         \A q \in Procs : q # p => pc'[q] = pc[q] /\ me'[q] = me[q],
         me'[p].text = me[p].text,
         pc[p] \notin Adding, pc'[p] \notin Adding,
         op[p] = "add" => pc[p] = "grow" /\ pc'[p] = "fill"
  PROVE  /\ HeldBy(p) /\ HeldBy(p)'
         /\ HolderSees(p)
<1>1. StoreInv' => Held'
  BY HolderView, PTL
<1>2. HeldBy(p) /\ HeldBy(p)'
  BY <1>1, HolderView DEF Held
<1>3. Daemon \in Procs
  BY DEF Procs
<1>4. ASSUME NEW h
      PROVE  ~Replacing(h) /\ ~Replacing(h)'
  <2>1. CASE p = Daemon
    BY <2>1 DEF Replacing
  <2>2. CASE p # Daemon
    BY <1>2, <2>2 DEF HeldBy, Replacing
  <2> QED
    BY <2>1, <2>2
<1>5. ASSUME NEW h
      PROVE  Ahead(h)' <=> Ahead(h)
  <2>1. CASE p = Daemon
    BY <2>1 DEF Ahead, NewHash
  <2>2. CASE p # Daemon
    BY <1>3, <2>2 DEF Ahead, NewHash
  <2> QED
    BY <2>1, <2>2
<1>6. ASSUME NEW h, NEW l \in {"create", "write"}
      PROVE  MakerAt(l, h)' <=> MakerAt(l, h)
  <2>1. CASE p = Daemon
    BY <2>1 DEF MakerAt, Adding
  <2>2. CASE p # Daemon
    BY <1>3, <2>2 DEF MakerAt, NewHash
  <2> QED
    BY <2>1, <2>2
<1>8. ASSUME NEW h
      PROVE  /\ Behind(h) <=> Leaving(p, h)
             /\ Behind(h)' <=> Leaving(p, h)'
             /\ AtRmdir(h) <=> pc[p] = "rmdir" /\ VictimHash(p) = h
             /\ AtRmdir(h)' <=> pc'[p] = "rmdir" /\ VictimHash(p)' = h
  BY <1>2, <1>4, Zenon DEF HeldBy, Leaving
<1> QED
  BY <1>2, <1>5, <1>6, <1>8 DEF HolderSees

\* What is to be removed has a text.
LEMMA VictimHasText ==
  ASSUME StoreInv, LinkInv, NEW p \in Procs, lock = p, pc[p] # "fill"
  PROVE  /\ \A i \in DOMAIN snips : /\ snips[i].text \in Texts
                                    /\ HashOf(snips[i].text) \in Hashes
         /\ pc[p] \in Removing \union {"doom", "update"} =>
              VictimHash(p) \in Hashes
<1>1. ASSUME NEW i \in DOMAIN snips
      PROVE  snips[i].text \in Texts /\ HashOf(snips[i].text) \in Hashes
  <2>1. snips[i].text # Zero
    <3>1. SUFFICES ASSUME NEW q \in Procs, pc[q] = "fill"
                   PROVE  FALSE
      BY DEF LinkInv, Marks
    <3>2. lock = q
      BY <3>1 DEF StoreInv, CallInv, Control, Locked
    <3> QED
      BY <3>1, <3>2
  <2>2. snips[i].text \in Texts
    BY <2>1, SnipsTyped DEF Snip
  <2> QED
    BY <2>2, TextAssumption DEF HashOf
<1>2. ASSUME pc[p] \in Removing \union {"doom", "update"}
      PROVE  VictimHash(p) \in Hashes
  BY <1>1, <1>2, VictimRemoved DEF VictimHash
<1> QED
  BY <1>1, <1>2

\* While it is removed, nobody adds that text.
LEMMA VictimApart ==
  ASSUME StoreInv, ~Overlap, NEW p \in Procs, lock = p,
         pc[p] \in {"unlink", "rmdir"},
         NEW q \in Procs, q # p, pc[q] \in Adding \ {"mkdir"}
  PROVE  NewHash(q) # VictimHash(p)
<1>1. op[q] = "add"
  BY OthersOutside DEF Outside
<1>2. NewHash(q) \in Hashes
  BY DaemonAdds, TextAssumption DEF NewHash, HashOf
<1> QED
  BY <1>1, <1>2, NoneOverlaps DEF OverlapOf

\* Nothing but the content of what p removes changes for the others.
LEMMA OthersKnow ==
  ASSUME StoreInv, LinkInv, NEW p \in Procs, lock = p,
         NEW q \in Procs, q # p, pc'[q] = pc[q], me'[q] = me[q],
         pc[q] \in Adding \ {"mkdir"} =>
           content'[NewHash(q)].links = content[NewHash(q)].links
  PROVE  Known(q)'
<1>1. Outside(q)
  BY OthersOutside
<1>2. pc[q] \notin {"unlink", "rmdir"}
  BY <1>1 DEF Outside, Adding
<1> QED
  BY <1>2, KnownKeeps DEF LinkInv

\* A victim is counted, so there is a link for it.
LEMMA VictimCounted ==
  ASSUME StoreInv, LinkInv, NEW p \in Procs, lock = p,
         pc[p] \in {"stat", "unlink"}, NEW v, v = VictimHash(p)
  PROVE  v \in Hashes /\ Due(v) \in Nat /\ Due(v) > 0
<1>1. v \in Hashes /\ Due(v) \in Nat
  BY VictimHasText DEF Removing, LinkInv, HashInv
<1>2. HeldBy(p)
  BY HolderView DEF Held
<1>3. Victim(p) \in OfHash(v)
  <2>1. Victim(p) \in me[p].todo /\ Victim(p) \in DOMAIN snips
    BY VictimRemoved DEF Removing
  <2>2. Victim(p) \in Staying
    BY <1>2, <2>1 DEF HeldBy, LinkInv, Marks
  <2> QED
    BY <2>2 DEF OfHash, VictimHash
<1>4. Cardinality(OfHash(v)) \in Nat /\ Cardinality(OfHash(v)) # 0
  BY <1>3, OfHashFinite, FS_EmptySet
<1>5. ~Behind(v)
  <2>1. ~Replacing(v)
    <3>1. pc[Daemon] \in Adding => p # Daemon
      BY DEF Adding
    <3> QED
      BY <1>2, <3>1 DEF HeldBy, Replacing
  <2> QED
    BY <1>2, <2>1 DEF HeldBy
<1> QED
  BY <1>1, <1>4, <1>5 DEF Due

\* A step of the holder that changes the content of one hash at most.
LEMMA HolderAdvance ==
  ASSUME StoreInv, StoreInv', LinkInv, ~Overlap, NEW p \in Procs, lock = p, lock' = p,
         op' = op, snips' = snips,
         \A q \in Procs : q # p => pc'[q] = pc[q] /\ me'[q] = me[q],
         me'[p].text = me[p].text, me'[p].todo = me[p].todo,
         pc[p] \in InRemoval, pc'[p] \in InRemoval \union {"update"},
         NEW v, v = VictimHash(p),
         \A h \in Hashes : h # v => content'[h] = content[h],
         pc[p] \notin {"unlink", "rmdir"} => content' = content,
         Staying' = Staying,
         pc[p] \in Removing \/ pc'[p] \notin {"rmdir", "doom", "update"},
         pc[p] \in {"rmdir", "doom"} => pc'[p] \in {"rmdir", "doom", "update"},
         Known(p)',
         v \in Hashes /\ pc[p] \in Removing => HashInv(v)'
  PROVE  LinkInv'
<1>1. Control(p) /\ pc[p] \notin Adding /\ pc'[p] \notin Adding
  BY DEF StoreInv, CallInv, InRemoval, Removing, Adding
<1>2. op[p] # "add" /\ op[p] \in Ops
  BY <1>1 DEF Control, PlacesOf, InRemoval, Removing, Adding, StoreInv, TypeOK
<1>3. /\ HeldBy(p) /\ HeldBy(p)'
      /\ HolderSees(p)
  BY <1>1, <1>2, HolderFrame
<1>4. VictimHash(p)' = v
  BY DEF VictimHash, Victim
<1>5. ASSUME NEW h \in Hashes, h # v \/ pc[p] \notin Removing
      PROVE  HashInv(h)'
  <2>1. (Behind(h)' <=> Behind(h)) /\ (AtRmdir(h)' <=> AtRmdir(h))
    <3>1. CASE h # v
      BY <1>3, <1>4, <3>1 DEF HolderSees, Leaving
    <3>2. CASE pc[p] \notin Removing
      BY <1>3, <1>4, <3>2 DEF HolderSees, Leaving, InRemoval, Removing
    <3> QED
      BY <1>5, <3>1, <3>2
  <2>2. SameHash(h)
    BY <1>3, <1>5, <2>1
       DEF HolderSees, SameHash, SameCount, OfHash, Removing
  <2> QED
    BY <2>2, SameHashKeeps DEF LinkInv
<1>6. ASSUME NEW q \in Procs
      PROVE  Known(q)'
  <2>1. CASE q # p
    <3>1. ASSUME pc[q] \in Adding \ {"mkdir"}
          PROVE  content'[NewHash(q)].links = content[NewHash(q)].links
      <4>1. CASE pc[p] \in {"unlink", "rmdir"}
        <5>1. NewHash(q) # v
          BY <2>1, <3>1, <4>1, VictimApart
        <5>2. NewHash(q) \in Hashes
          BY <3>1, DaemonAdds, TextAssumption DEF NewHash, HashOf
        <5> QED
          BY <5>1, <5>2
      <4>2. CASE pc[p] \notin {"unlink", "rmdir"}
        BY <4>2
      <4> QED
        BY <4>1, <4>2
    <3> QED
      BY <2>1, <3>1, OthersKnow
  <2> QED
    BY <2>1
<1>7. Marks'
  <2>1. pc'[p] = "update" => op[p] = "replace"
    BY DEF StoreInv, CallInv, Control, PlacesOf, InRemoval, Removing, Adding
  <2> QED
    BY <2>1, MarksKeep DEF LinkInv, InRemoval, Removing
<1> QED
  BY <1>5, <1>6, <1>7 DEF LinkInv

LEMMA RemoveStepsLink ==
  ASSUME StoreInv, StoreInv', LinkInv, ~Overlap, NEW p \in Procs,
         Stat(p) \/ Unlink(p) \/ Rmdir(p) \/ Scan(p) \/ Compacted(p)
  PROVE  LinkInv'
<1>1. /\ pc[p] \in InRemoval /\ UNCHANGED <<snips, lock, op>>
      /\ pc \in [Procs -> PCs] /\ me \in [Procs -> Local]
      /\ content \in ContentType /\ Control(p) /\ Progress(p) /\ Known(p)
  BY DEF Stat, Unlink, Rmdir, Scan, Compacted, InRemoval, Removing, StoreInv,
         TypeOK, ContentType, CallInv, LinkInv
<1>2. lock = p
  BY <1>1 DEF Control, Locked
<1>3. PICK v : v = VictimHash(p)
  OBVIOUS
<1>4. HeldBy(p) /\ HeldBy(p)'
  <2>1. StoreInv' => Held'
    BY HolderView, PTL
  <2> QED
    BY <1>1, <1>2, <2>1, HolderView DEF Held
<1>5. pc[p] \notin {"compact", "shrink"} /\ pc'[p] \notin {"compact", "shrink"}
        => Staying' = Staying
  BY <1>1, <1>4 DEF HeldBy
<1>6. AfterRemove(p) \in {"doom", "update"}
  BY DEF AfterRemove
<1>7. CASE Stat(p)
  <2>1. /\ pc[p] = "stat" /\ UNCHANGED content
        /\ me' = [me EXCEPT ![p].nlink = Cardinality(content[v].links)]
        /\ pc' = [pc EXCEPT ![p] =
                    IF content[v].dir /\ 1 \in content[v].links
                    THEN "unlink" ELSE "fail"]
    BY <1>3, <1>7 DEF Stat, Goto
  <2>2. v \in Hashes /\ Due(v) \in Nat /\ Due(v) > 0
    BY <1>2, <1>3, <2>1, VictimCounted
  <2>3. content[v].dir /\ 1 \in content[v].links
    <3>1. content[v].links = 1 .. Due(v) /\ 1 \in 1 .. Due(v)
      BY <2>2 DEF LinkInv, HashInv
    <3> QED
      BY <2>2, <3>1 DEF LinkInv, HashInv
  <2>4. /\ pc'[p] = "unlink" /\ me'[p].text = me[p].text
        /\ me'[p].todo = me[p].todo
        /\ me'[p].nlink = Cardinality(content[v].links)
        /\ \A q \in Procs : q # p => pc'[q] = pc[q] /\ me'[q] = me[q]
    BY <1>1, <2>1, <2>3 DEF Local
  <2>5. VictimHash(p)' = v
    BY <1>1, <1>3, <2>4 DEF VictimHash, Victim
  <2>6. Known(p)'
    BY <2>1, <2>4, <2>5 DEF Known
  <2>7. v \in Hashes => HashInv(v)'
    <3>1. op[p] # "add"
      BY <1>1, <2>1 DEF Control, PlacesOf, Adding
    <3>2. HolderSees(p)
      BY <1>1, <1>2, <2>1, <2>4, <3>1, HolderFrame DEF Adding
    <3>3. SameHash(v)
      BY <1>1, <1>5, <2>1, <2>4, <3>2
         DEF HolderSees, SameHash, SameCount, OfHash, Leaving
    <3> QED
      BY <3>3, SameHashKeeps DEF LinkInv
  <2> QED
    BY <1>1, <1>2, <1>3, <1>5, <2>1, <2>4, <2>6, <2>7, HolderAdvance
       DEF InRemoval, Removing
<1>8. CASE Unlink(p)
  <2>1. pc[p] = "unlink" /\ UNCHANGED me
    BY <1>8 DEF Unlink
  <2>2. PICK n \in Nat : n = Due(v) /\ n > 0 /\ v \in Hashes
    BY <1>2, <1>3, <2>1, VictimCounted
  <2>3. content[v].links = 1 .. n /\ HashInv(v)
    BY <2>2 DEF LinkInv, HashInv
  <2>4. LastLink(p) = n
    <3>1. 1 \in Int /\ n \in Int
      BY <2>2
    <3>2. Cardinality(1 .. n) = n
      BY <2>2, <3>1, FS_Interval
    <3> QED
      BY <1>1, <1>3, <2>1, <2>3, <3>2 DEF Known, LastLink
  <2>5. /\ content' = [content EXCEPT ![v].links = @ \ {n}]
        /\ pc' = [pc EXCEPT ![p] = IF n = 1 THEN "rmdir" ELSE AfterRemove(p)]
    <3>1. n \in content[v].links /\ me[p].nlink = n
      BY <2>2, <2>3, <2>4 DEF LastLink
    <3> QED
      BY <1>3, <1>8, <2>4, <3>1 DEF Unlink, Goto
  <2>6. /\ \A h \in Hashes : h # v => content'[h] = content[h]
        /\ content'[v].links = (1 .. n) \ {n}
        /\ content'[v].dir = content[v].dir
        /\ content'[v].data = content[v].data
    BY <1>1, <2>2, <2>3, <2>5 DEF ContentType
  <2>7. content'[v].links = 1 .. n - 1
    BY <2>6
  <2>8. /\ pc'[p] = IF n = 1 THEN "rmdir" ELSE AfterRemove(p)
        /\ \A q \in Procs : q # p => pc'[q] = pc[q] /\ me'[q] = me[q]
    BY <1>1, <2>1, <2>5
  <2>9. VictimHash(p)' = v
    BY <1>1, <1>3, <2>1 DEF VictimHash, Victim
  <2>10. pc'[p] \in {"rmdir", "doom", "update"}
    BY <1>6, <2>8
  <2>11. Known(p)'
    <3>1. n = 1 => 1 .. n - 1 = {}
      OBVIOUS
    <3>2. pc'[p] = "rmdir" => content'[v].links = {}
      BY <1>6, <2>7, <2>8, <3>1
    <3> QED
      BY <2>9, <2>10, <3>2 DEF Known
  <2>12. HashInv(v)'
    <3>1. op[p] # "add"
      BY <1>1, <2>1 DEF Control, PlacesOf, Adding
    <3>2. HolderSees(p)
      BY <1>1, <1>2, <2>1, <2>8, <2>10, <3>1, HolderFrame DEF Adding
    <3>3. OfHash(v)' = OfHash(v)
      BY <1>1, <1>5, <2>1, <2>10 DEF OfHash
    <3>4. ~Behind(v) /\ Behind(v)' /\ ~AtRmdir(v)
      BY <2>1, <2>9, <2>10, <3>2 DEF HolderSees, Leaving
    <3>5. Due(v)' = n - 1
      <4>1. Cardinality(OfHash(v)) \in Nat
        BY OfHashFinite
      <4> QED
        BY <2>2, <3>2, <3>3, <3>4, <4>1 DEF HolderSees, Due
    <3>6. n - 1 \in Nat /\ (1 .. n # {}) /\ (1 .. n - 1 # {} <=> n # 1)
      BY <2>2
    <3>7. AtRmdir(v)' <=> n = 1
      BY <1>6, <2>8, <2>9, <3>2 DEF HolderSees
    <3> QED
      BY <1>1, <2>1, <2>3, <2>6, <2>7, <3>2, <3>5, <3>6, <3>7
         DEF HolderSees, HashInv
  <2> QED
    BY <1>1, <1>2, <1>3, <1>5, <2>1, <2>6, <2>8, <2>10, <2>11, <2>12,
       HolderAdvance DEF InRemoval, Removing
<1>9. CASE Rmdir(p)
  <2>1. pc[p] = "rmdir" /\ UNCHANGED me
    BY <1>9 DEF Rmdir
  <2>2. v \in Hashes
    BY <1>2, <1>3, <2>1, VictimHasText DEF Removing
  <2>3. HashInv(v) /\ content[v].links = {}
    BY <1>1, <1>3, <2>1, <2>2 DEF LinkInv, Known
  <2>4. /\ content' = [content EXCEPT ![v] = NoContent]
        /\ pc' = [pc EXCEPT ![p] = AfterRemove(p)]
    BY <1>3, <1>9, <2>3 DEF Rmdir, Goto
  <2>5. /\ \A h \in Hashes : h # v => content'[h] = content[h]
        /\ content'[v].links = {} /\ ~content'[v].dir
    BY <1>1, <2>2, <2>4 DEF ContentType, NoContent
  <2>6. /\ pc'[p] = AfterRemove(p)
        /\ \A q \in Procs : q # p => pc'[q] = pc[q] /\ me'[q] = me[q]
    BY <1>1, <2>1, <2>4
  <2>7. VictimHash(p)' = v
    BY <1>1, <1>3, <2>1 DEF VictimHash, Victim
  <2>8. Known(p)'
    BY <1>6, <2>6 DEF Known
  <2>9. HashInv(v)'
    <3>1. op[p] # "add"
      BY <1>1, <2>1 DEF Control, PlacesOf, Adding
    <3>2. HolderSees(p)
      BY <1>1, <1>2, <1>6, <2>1, <2>6, <3>1, HolderFrame DEF Adding
    <3>3. OfHash(v)' = OfHash(v)
      BY <1>1, <1>5, <1>6, <2>1, <2>6 DEF OfHash
    <3>4. Behind(v) /\ Behind(v)' /\ ~AtRmdir(v)'
      BY <1>3, <1>6, <2>1, <2>6, <2>7, <3>2 DEF HolderSees, Leaving
    <3>5. Due(v)' = Due(v)
      BY <3>2, <3>3, <3>4 DEF HolderSees, Due
    <3>6. ~MakerAt("create", v)'
      <4>1. pc[Daemon] = "create" /\ NewHash(Daemon) = v => p # Daemon
        BY <2>1
      <4>2. ~(pc[Daemon] = "create" /\ NewHash(Daemon) = v)
        BY <1>2, <1>3, <2>1, <4>1, VictimApart DEF Procs, Adding
      <4> QED
        BY <3>2, <4>2 DEF HolderSees, MakerAt
    <3>8. Due(v) \in Nat /\ 1 .. Due(v) = {}
      BY <2>3 DEF HashInv
    <3> QED
      BY <2>5, <3>4, <3>5, <3>6, <3>8 DEF HashInv
  <2> QED
    BY <1>1, <1>2, <1>3, <1>5, <1>6, <2>1, <2>5, <2>6, <2>8, <2>9,
       HolderAdvance DEF InRemoval, Removing
<1>10. CASE Scan(p) \/ Compacted(p)
  <2>1. /\ pc[p] \in {"scan", "compact"} /\ UNCHANGED <<content, me>>
        /\ pc[p] = "scan" => pc'[p] \in {"compact", "stat"}
        /\ pc[p] = "compact" => pc'[p] = "shrink"
        /\ \A q \in Procs : q # p => pc'[q] = pc[q] /\ me'[q] = me[q]
    BY <1>1, <1>10 DEF Scan, Compacted, Goto
  <2>2. Staying' = Staying
    <3>1. CASE pc[p] = "scan"
      <4>1. me[p].slot = 1 /\ me[p].gap = 0
        BY <1>1, <3>1 DEF Progress
      <4>2. DOMAIN snips = 1 .. Len(snips) /\ Len(snips) \in Nat
        BY SnipsTyped
      <4>3. \A i \in DOMAIN snips :
              (\/ i < me[p].slot - me[p].gap
               \/ i >= me[p].slot /\ ~snips[i].doomed) <=> ~snips[i].doomed
        BY <4>1, <4>2
      <4>4. Staying = {i \in DOMAIN snips : ~snips[i].doomed}
        BY <1>4, <3>1 DEF HeldBy
      <4>5. CASE pc'[p] = "compact"
        <5>1. Staying' = {i \in DOMAIN snips : \/ i < me[p].slot - me[p].gap
                                               \/ /\ i >= me[p].slot
                                                  /\ ~snips[i].doomed}
          BY <1>1, <1>4, <2>1, <4>5 DEF HeldBy
        <5> QED
          BY <4>3, <4>4, <5>1
      <4> QED
        BY <1>5, <2>1, <3>1, <4>5
    <3>2. CASE pc[p] = "compact"
      BY <1>1, <1>4, <2>1, <3>2 DEF HeldBy
    <3> QED
      BY <2>1, <3>1, <3>2
  <2>3. Known(p)'
    BY <2>1 DEF Known
  <2> QED
    BY <1>1, <1>2, <1>3, <2>1, <2>2, <2>3, HolderAdvance
       DEF InRemoval, Removing
<1> QED
  BY <1>7, <1>8, <1>9, <1>10

\* Only the holder of the flock marks snips.
LEMMA HolderMarks ==
  ASSUME StoreInv, LinkInv, NEW p \in Procs, lock = p,
         NEW i \in DOMAIN snips, snips[i].doomed
  PROVE  pc[p] \in InRemoval /\ op[p] \in {"trim", "remove"}
<1>1. PICK q \in Procs : pc[q] \in InRemoval /\ op[q] \in {"trim", "remove"}
  BY DEF LinkInv, Marks
<1>2. lock = q
  BY <1>1 DEF StoreInv, CallInv, Control, Locked
<1> QED
  BY <1>1, <1>2

\* Where the steps that change the snips are.
Changing == {"grow", "fill", "update", "doom", "compact", "shrink"}

\* A step of the holder that changes the snips, and no count.
LEMMA SnipsAdvance ==
  ASSUME StoreInv, StoreInv', LinkInv, NEW p \in Procs, lock = p, lock' = p,
         op' = op, content' = content,
         \A q \in Procs : q # p => pc'[q] = pc[q] /\ me'[q] = me[q],
         pc[p] \in Changing,
         pc'[p] \in Changing \union {"unlock", "scan", "mkdir"},
         \A h \in Hashes : Due(h)' = Due(h),
         Marks'
  PROVE  LinkInv'
<1>1. HeldBy(p) /\ HeldBy(p)'
  <2>1. StoreInv' => Held'
    BY HolderView, PTL
  <2> QED
    BY <2>1, HolderView DEF Held
<1>2. ASSUME NEW h \in Hashes
      PROVE  HashInv(h)'
  <2>1. ~AtRmdir(h) /\ ~AtRmdir(h)'
    BY <1>1 DEF HeldBy, Changing
  <2>2. ASSUME NEW l \in {"create", "write"}
        PROVE  MakerAt(l, h)' <=> MakerAt(l, h)
    <3>1. CASE p = Daemon
      BY <3>1 DEF MakerAt, Changing
    <3>2. CASE p # Daemon
      BY <3>2 DEF MakerAt, NewHash, Procs
    <3> QED
      BY <3>1, <3>2
  <2>5. HashInv(h)
    BY DEF LinkInv
  <2>6. Due(h)' = Due(h)
    OBVIOUS
  <2> QED
    BY <2>1, <2>2, <2>5, <2>6 DEF HashInv
<1>3. ASSUME NEW q \in Procs
      PROVE  Known(q)'
  <2>1. CASE q = p
    BY <2>1 DEF Known, Changing
  <2>2. CASE q # p
    BY <2>2, OthersKnow
  <2> QED
    BY <2>1, <2>2
<1> QED
  BY <1>2, <1>3 DEF LinkInv

\* A new snip has no hash yet.
LEMMA GrowLink ==
  ASSUME StoreInv, StoreInv', LinkInv, NEW p \in Procs, Grow(p)
  PROVE  LinkInv'
<1>1. /\ pc[p] = "grow" /\ UNCHANGED <<content, lock, op, me>>
      /\ snips' = Append(snips, Fresh(Zero)) /\ pc' = [pc EXCEPT ![p] = "fill"]
      /\ pc \in [Procs -> PCs]
  BY DEF Grow, Goto, StoreInv, TypeOK
<1>2. /\ lock = p /\ pc'[p] = "fill"
      /\ \A q \in Procs : q # p => pc'[q] = pc[q] /\ me'[q] = me[q]
  BY <1>1 DEF StoreInv, CallInv, Control, Locked
<1>3. HeldBy(p) /\ HeldBy(p)' /\ HolderSees(p)
  BY <1>1, <1>2, HolderFrame DEF Adding
<1>4. /\ snips \in Seq(Snip) /\ Len(snips) \in Nat
      /\ DOMAIN snips = 1 .. Len(snips)
      /\ DOMAIN snips' = 1 .. Len(snips) + 1 /\ Len(snips') = Len(snips) + 1
      /\ \A i \in 1 .. Len(snips) : snips'[i] = snips[i]
      /\ snips'[Len(snips) + 1] = Fresh(Zero)
  <2>1. Fresh(Zero) \in Snip
    BY DEF Fresh, Snip
  <2>2. /\ snips \in Seq(Snip) /\ Len(snips) \in Nat
        /\ DOMAIN snips = 1 .. Len(snips)
    BY SnipsTyped
  <2>3. snips' \in Seq(Snip)
    BY <1>1, <2>1, <2>2, AppendProperties
  <2> QED
    BY <1>1, <2>1, <2>2, <2>3, AppendProperties, LenProperties
<1>5. \A i \in DOMAIN snips : snips[i].text # Zero /\ ~snips[i].doomed
  <2>1. \A i \in DOMAIN snips : snips[i].text \in Texts
    BY <1>1, <1>2, VictimHasText
  <2> QED
    BY <1>1, <1>2, <2>1, HolderMarks, TextAssumption
       DEF InRemoval, Removing
<1>6. me[p].todo = {}
  BY <1>1 DEF StoreInv, CallInv, Work
<1>7. ASSUME NEW h \in Hashes
      PROVE  Due(h)' = Due(h)
  <2>1. OfHash(h)' = OfHash(h)
    <3>1. /\ Staying = {i \in DOMAIN snips : ~snips[i].doomed}
          /\ Staying' = {i \in DOMAIN snips' : ~snips'[i].doomed}
      BY <1>1, <1>2, <1>3 DEF HeldBy
    <3>2. HashOf(Fresh(Zero).text) # h
      BY TextAssumption DEF HashOf, Fresh
    <3> QED
      BY <1>4, <3>1, <3>2 DEF OfHash
  <2>2. (Ahead(h)' <=> Ahead(h)) /\ ~Behind(h) /\ ~Behind(h)'
    BY <1>1, <1>2, <1>3 DEF HolderSees, Leaving
  <2> QED
    BY <2>1, <2>2 DEF Due
<1>8. Marks'
  <2>1. \A i \in DOMAIN snips' : /\ snips'[i].text = Zero => i = Len(snips')
                                 /\ ~snips'[i].doomed
    BY <1>4, <1>5 DEF Fresh
  <2>2. \A q \in Procs : me'[q].todo = {}
    <3>1. \A q \in Procs : q # p => me[q].todo = {}
      BY <1>3 DEF HeldBy, Outside
    <3> QED
      BY <1>1, <1>6, <3>1
  <2> QED
    BY <1>2, <2>1, <2>2 DEF Marks
<1> QED
  BY <1>1, <1>2, <1>6, <1>7, <1>8, SnipsAdvance DEF Changing

\* The snip gets its text, and with it the hash whose link was made before.
LEMMA FillLink ==
  ASSUME StoreInv, StoreInv', LinkInv, NEW p \in Procs, Fill(p)
  PROVE  LinkInv'
<1>1. /\ pc[p] = "fill" /\ UNCHANGED <<content, lock, op, me>>
      /\ snips' = [snips EXCEPT ![Len(snips)] = Fresh(me[p].text)]
      /\ pc' = [pc EXCEPT ![p] = "unlock"] /\ pc \in [Procs -> PCs]
  BY DEF Fill, Goto, StoreInv, TypeOK
<1>2. /\ lock = p /\ pc'[p] = "unlock"
      /\ \A q \in Procs : q # p => pc'[q] = pc[q] /\ me'[q] = me[q]
  BY <1>1 DEF StoreInv, CallInv, Control, Locked
<1>3. p = Daemon /\ op[p] = "add" /\ me[p].text \in Texts
  BY <1>1, DaemonAdds
<1>4. HeldBy(p) /\ HeldBy(p)'
  <2>1. StoreInv' => Held'
    BY HolderView, PTL
  <2> QED
    BY <1>1, <1>2, <2>1, HolderView DEF Held
<1>5. PICK n \in Nat : n = Len(snips) /\ DOMAIN snips = 1 .. n
  <2>1. Len(snips) \in Nat /\ DOMAIN snips = 1 .. Len(snips)
    BY SnipsTyped
  <2> QED
    BY <2>1
<1>6. n \in DOMAIN snips /\ snips[n] = Fresh(Zero)
  <2>1. snips # <<>> /\ snips[n] = Fresh(Zero)
    BY <1>1, <1>5 DEF StoreInv, CallInv, Room
  <2> QED
    BY <1>5, <2>1, SnipsTyped, EmptySeq
<1>7. /\ DOMAIN snips' = 1 .. n /\ snips'[n] = Fresh(me[p].text)
      /\ \A i \in 1 .. n : i # n => snips'[i] = snips[i]
  BY <1>1, <1>5, <1>6
<1>8. Len(snips') = n
  BY <1>7, LenProperties, SnipsTyped DEF StoreInv, TypeOK
<1>9. \A i \in DOMAIN snips : ~snips[i].doomed
  BY <1>1, <1>2, HolderMarks DEF InRemoval, Removing
<1>10. me[p].todo = {}
  <2>1. Work(p)'
    BY DEF StoreInv, CallInv
  <2> QED
    BY <1>1, <1>2, <2>1 DEF Work
<1>11. ASSUME NEW h \in Hashes
       PROVE  Due(h)' = Due(h)
  <2>1. /\ Staying = {i \in DOMAIN snips : ~snips[i].doomed}
        /\ Staying' = {i \in DOMAIN snips' : ~snips'[i].doomed}
    BY <1>1, <1>2, <1>4 DEF HeldBy
  <2>2. ~Behind(h) /\ ~Behind(h)'
    <3>1. ~Replacing(h) /\ ~Replacing(h)'
      BY <1>1, <1>3 DEF Replacing
    <3> QED
      BY <1>1, <1>2, <1>4, <3>1 DEF HeldBy
  <2>3. (Ahead(h) <=> h = NewHash(p)) /\ ~Ahead(h)'
    BY <1>1, <1>2, <1>3 DEF Ahead
  <2>4. /\ IsFiniteSet(OfHash(h)) /\ Cardinality(OfHash(h)) \in Nat
        /\ n \notin OfHash(h)
    <3>1. HashOf(snips[n].text) # h
      BY <1>6, TextAssumption DEF HashOf, Fresh
    <3> QED
      BY <3>1, OfHashFinite DEF OfHash
  <2>5. HashOf(snips'[n].text) = NewHash(p) /\ ~snips'[n].doomed
    BY <1>7 DEF Fresh, NewHash
  <2>6. CASE h = NewHash(p)
    <3>1. OfHash(h)' = OfHash(h) \union {n}
      <4>1. HashOf(snips[n].text) # h
        BY <1>6, TextAssumption DEF HashOf, Fresh
      <4> QED
        BY <1>5, <1>6, <1>7, <1>9, <2>1, <2>5, <2>6 DEF OfHash
    <3>2. Cardinality(OfHash(h)') = Cardinality(OfHash(h)) + 1
      BY <2>4, <3>1, FS_AddElement
    <3> QED
      BY <2>2, <2>3, <2>4, <2>6, <3>2 DEF Due
  <2>7. CASE h # NewHash(p)
    <3>1. OfHash(h)' = OfHash(h)
      BY <1>5, <1>6, <1>7, <1>9, <2>1, <2>4, <2>5, <2>7 DEF OfHash
    <3> QED
      BY <2>2, <2>3, <2>7, <3>1 DEF Due
  <2> QED
    BY <2>6, <2>7
<1>12. Marks'
  <2>1. \A i \in DOMAIN snips' : /\ snips'[i].text # Zero /\ ~snips'[i].doomed
    <3>1. me[p].text # Zero
      BY <1>3, TextAssumption
    <3>2. \A i \in 1 .. n : snips[i].text = Zero => i = n
      BY <1>5 DEF LinkInv, Marks
    <3> QED
      BY <1>5, <1>7, <1>9, <3>1, <3>2 DEF Fresh
  <2>2. \A q \in Procs : me'[q].todo = {}
    <3>1. \A q \in Procs : q # p => me[q].todo = {}
      BY <1>4 DEF HeldBy, Outside
    <3> QED
      BY <1>1, <1>10, <3>1
  <2> QED
    BY <1>2, <2>1, <2>2 DEF Marks
<1> QED
  BY <1>1, <1>2, <1>10, <1>11, <1>12, SnipsAdvance DEF Changing

\* A set of snips that gains and loses an element.
LEMMA Gains ==
  ASSUME NEW h, StoreInv, NEW i, i \notin OfHash(h),
         OfHash(h)' = OfHash(h) \union {i}
  PROVE  Cardinality(OfHash(h)') = Cardinality(OfHash(h)) + 1
BY OfHashFinite, FS_AddElement

LEMMA Loses ==
  ASSUME NEW h, StoreInv, NEW i \in OfHash(h), OfHash(h)' = OfHash(h) \ {i}
  PROVE  Cardinality(OfHash(h)') = Cardinality(OfHash(h)) - 1
BY OfHashFinite, FS_RemoveElement

\* cs_replace(): the snip goes from a hash whose link is gone to one whose
\* link is still to be made.
LEMMA UpdateLink ==
  ASSUME StoreInv, StoreInv', LinkInv, NEW p \in Procs, Update(p)
  PROVE  LinkInv'
<1>1. PICK u \in DOMAIN snips, v \in Hashes :
        u = Victim(p) /\ v = VictimHash(p) /\ HashOf(snips[u].text) = v
  <2>1. pc[p] = "update" /\ lock = p
    BY DEF Update, StoreInv, CallInv, Control, Locked
  <2> QED
    BY <2>1, VictimRemoved, VictimHasText DEF VictimHash
<1>2. /\ pc[p] = "update" /\ UNCHANGED <<content, lock, op>>
      /\ snips' = [snips EXCEPT ![u] = Fresh(me[p].text)]
      /\ me' = [me EXCEPT ![p].todo = {}]
      /\ pc' = [pc EXCEPT ![p] = "mkdir"] /\ pc \in [Procs -> PCs]
      /\ me \in [Procs -> Local]
  BY <1>1 DEF Update, Goto, StoreInv, TypeOK
<1>3. /\ lock = p /\ pc'[p] = "mkdir" /\ me'[p].todo = {}
      /\ me'[p].text = me[p].text
      /\ \A q \in Procs : q # p => pc'[q] = pc[q] /\ me'[q] = me[q]
  BY <1>2 DEF StoreInv, CallInv, Control, Locked, Local
<1>4. p = Daemon /\ op[p] = "replace" /\ me[p].text \in Texts
  BY <1>2, DaemonAdds
<1>5. HeldBy(p) /\ HeldBy(p)'
  <2>1. StoreInv' => Held'
    BY HolderView, PTL
  <2> QED
    BY <1>2, <1>3, <2>1, HolderView DEF Held
<1>6. PICK w \in Hashes : w = NewHash(p) /\ NewHash(p)' = w
  BY <1>3, <1>4, TextAssumption DEF NewHash, HashOf
<1>7. /\ DOMAIN snips' = DOMAIN snips /\ snips'[u] = Fresh(me[p].text)
      /\ \A i \in DOMAIN snips : i # u => snips'[i] = snips[i]
      /\ HashOf(snips'[u].text) = w /\ ~snips'[u].doomed
  BY <1>1, <1>2, <1>6 DEF Fresh, NewHash
<1>8. \A i \in DOMAIN snips : ~snips[i].doomed
  BY <1>3, <1>4, HolderMarks
<1>9. \A h : /\ OfHash(h) = {i \in DOMAIN snips : HashOf(snips[i].text) = h}
             /\ OfHash(h)' = {i \in DOMAIN snips : HashOf(snips'[i].text) = h}
  <2>1. /\ Staying = {i \in DOMAIN snips : ~snips[i].doomed}
        /\ Staying' = {i \in DOMAIN snips' : ~snips'[i].doomed}
    BY <1>2, <1>3, <1>5 DEF HeldBy
  <2>2. Staying = DOMAIN snips /\ Staying' = DOMAIN snips
    BY <1>7, <1>8, <2>1
  <2> QED
    BY <2>2 DEF OfHash
<1>10. ASSUME NEW h \in Hashes
       PROVE  Due(h)' = Due(h)
  <2>1. /\ Behind(h) <=> h = v
        /\ Behind(h)' <=> h = w
    <3>1. ~Replacing(h)
      BY <1>2, <1>4 DEF Replacing, Adding
    <3>2. Replacing(h)' <=> h = w
      BY <1>2, <1>3, <1>4, <1>6 DEF Replacing, Adding
    <3> QED
      BY <1>1, <1>2, <1>3, <1>5, <3>1, <3>2 DEF HeldBy
  <2>2. ~Ahead(h) /\ ~Ahead(h)'
    BY <1>2, <1>4 DEF Ahead
  <2>3. Cardinality(OfHash(h)) \in Nat
    BY OfHashFinite
  <2>4. CASE h # v /\ h # w
    <3>1. OfHash(h)' = OfHash(h)
      BY <1>1, <1>7, <1>9, <2>4
    <3> QED
      BY <2>1, <2>2, <2>4, <3>1 DEF Due
  <2>5. CASE h = v /\ h = w
    <3>1. OfHash(h)' = OfHash(h)
      BY <1>1, <1>7, <1>9, <2>5
    <3> QED
      BY <2>1, <2>2, <2>5, <3>1 DEF Due
  <2>6. CASE h = v /\ h # w
    <3>1. OfHash(h)' = OfHash(h) \ {u} /\ u \in OfHash(h)
      BY <1>1, <1>7, <1>9, <2>6
    <3>2. Cardinality(OfHash(h)') = Cardinality(OfHash(h)) - 1
      BY <3>1, Loses
    <3> QED
      BY <2>1, <2>2, <2>3, <2>6, <3>2 DEF Due
  <2>7. CASE h # v /\ h = w
    <3>1. OfHash(h)' = OfHash(h) \union {u} /\ u \notin OfHash(h)
      BY <1>1, <1>7, <1>9, <2>7
    <3>2. Cardinality(OfHash(h)') = Cardinality(OfHash(h)) + 1
      BY <3>1, Gains
    <3> QED
      BY <2>1, <2>2, <2>3, <2>7, <3>2 DEF Due
  <2> QED
    BY <2>4, <2>5, <2>6, <2>7
<1>11. Marks'
  <2>1. \A i \in DOMAIN snips' : /\ snips'[i].text # Zero /\ ~snips'[i].doomed
    <3>1. \A i \in DOMAIN snips : snips[i].text \in Texts
      BY <1>2, <1>3, VictimHasText
    <3> QED
      BY <1>4, <1>7, <1>8, <3>1, TextAssumption DEF Fresh
  <2>2. \A q \in Procs : me'[q].todo = {}
    <3>1. \A q \in Procs : q # p => me[q].todo = {}
      BY <1>5 DEF HeldBy, Outside
    <3> QED
      BY <1>3, <3>1
  <2> QED
    BY <2>1, <2>2 DEF Marks
<1> QED
  BY <1>2, <1>3, <1>10, <1>11, SnipsAdvance DEF Changing

\* The link of the victim is gone, now the snip goes.
LEMMA DoomLink ==
  ASSUME StoreInv, StoreInv', LinkInv, NEW p \in Procs, Doom(p)
  PROVE  LinkInv'
<1>1. PICK u \in DOMAIN snips, v \in Hashes :
        /\ u = Victim(p) /\ v = VictimHash(p) /\ HashOf(snips[u].text) = v
        /\ u \in me[p].todo
  <2>1. pc[p] = "doom" /\ lock = p
    BY DEF Doom, StoreInv, CallInv, Control, Locked, InRemoval
  <2> QED
    BY <2>1, VictimRemoved, VictimHasText DEF VictimHash
<1>2. /\ pc[p] = "doom" /\ UNCHANGED <<content, lock, op>>
      /\ snips' = [snips EXCEPT ![u].doomed = TRUE]
      /\ me' = [me EXCEPT ![p].todo = @ \ {u}]
      /\ pc' = [pc EXCEPT ![p] = "scan"] /\ pc \in [Procs -> PCs]
      /\ me \in [Procs -> Local] /\ Control(p) /\ op[p] \in Ops
  BY <1>1 DEF Doom, Goto, StoreInv, TypeOK, CallInv
<1>3. /\ lock = p /\ pc'[p] = "scan" /\ me'[p].todo = me[p].todo \ {u}
      /\ me'[p].text = me[p].text
      /\ \A q \in Procs : q # p => pc'[q] = pc[q] /\ me'[q] = me[q]
  BY <1>2 DEF Control, Locked, Local, InRemoval
<1>4. op[p] \in {"trim", "remove"}
  BY <1>2 DEF Control, PlacesOf, Adding, Removing, Ops
<1>5. HeldBy(p) /\ HeldBy(p)' /\ HolderSees(p)
  BY <1>2, <1>3, <1>4, HolderFrame DEF Adding
<1>6. /\ \A i \in DOMAIN snips : snips[i] \in Snip
      /\ DOMAIN snips' = DOMAIN snips
      /\ snips'[u].doomed /\ snips'[u].text = snips[u].text
      /\ \A i \in DOMAIN snips : i # u => snips'[i] = snips[i]
  <2>1. \A i \in DOMAIN snips : snips[i] \in Snip
    BY SnipsTyped
  <2> QED
    BY <1>1, <1>2, <2>1 DEF Snip
<1>7. ~snips[u].doomed
  BY <1>1 DEF LinkInv, Marks
<1>8. /\ Staying = {i \in DOMAIN snips : ~snips[i].doomed}
      /\ Staying' = Staying \ {u}
  <2>1. /\ Staying = {i \in DOMAIN snips : ~snips[i].doomed}
        /\ Staying' = {i \in DOMAIN snips' : ~snips'[i].doomed}
    BY <1>2, <1>3, <1>5 DEF HeldBy
  <2> QED
    BY <1>6, <1>7, <2>1
<1>9. ASSUME NEW h \in Hashes
      PROVE  Due(h)' = Due(h)
  <2>1. (Behind(h) <=> h = v) /\ ~Behind(h)' /\ (Ahead(h)' <=> Ahead(h))
    BY <1>1, <1>2, <1>3, <1>5 DEF HolderSees, Leaving
  <2>2. Cardinality(OfHash(h)) \in Nat
    BY OfHashFinite
  <2>3. CASE h # v
    <3>1. OfHash(h)' = OfHash(h)
      BY <1>1, <1>6, <1>8, <2>3 DEF OfHash
    <3> QED
      BY <2>1, <2>3, <3>1 DEF Due
  <2>4. CASE h = v
    <3>1. OfHash(h)' = OfHash(h) \ {u} /\ u \in OfHash(h)
      BY <1>1, <1>6, <1>7, <1>8, <2>4 DEF OfHash
    <3>2. Cardinality(OfHash(h)') = Cardinality(OfHash(h)) - 1
      BY <3>1, Loses
    <3> QED
      BY <2>1, <2>2, <2>4, <3>2 DEF Due
  <2> QED
    BY <2>3, <2>4
<1>10. Marks'
  <2>1. \A i \in DOMAIN snips' : snips'[i].text # Zero
    <3>1. \A i \in DOMAIN snips : snips[i].text \in Texts
      BY <1>2, <1>3, VictimHasText
    <3> QED
      BY <1>6, <3>1, TextAssumption
  <2>2. \A i \in me'[p].todo : ~snips'[i].doomed
    <3>1. /\ me[p].todo \subseteq DOMAIN snips
          /\ \A i \in me[p].todo : ~snips[i].doomed
      BY DEF LinkInv, Marks, StoreInv, CallInv, Work
    <3> QED
      BY <1>3, <1>6, <3>1
  <2>3. \A q \in Procs : q # p => me'[q].todo = {}
    <3>1. \A q \in Procs : q # p => me[q].todo = {}
      BY <1>5 DEF HeldBy, Outside
    <3> QED
      BY <1>3, <3>1
  <2>4. pc'[p] \in InRemoval /\ op'[p] \in {"trim", "remove"}
    BY <1>2, <1>3, <1>4 DEF InRemoval
  <2> QED
    BY <2>1, <2>2, <2>3, <2>4 DEF Marks
<1> QED
  BY <1>2, <1>3, <1>9, <1>10, SnipsAdvance DEF Changing

\* A snip moves over the gap and stays the snip it was.
LEMMA CompactLink ==
  ASSUME StoreInv, StoreInv', LinkInv, NEW p \in Procs, Compact(p)
  PROVE  LinkInv'
<1>1. PICK n \in Nat :
        /\ n = Len(snips) /\ DOMAIN snips = 1 .. n
        /\ \A i \in 1 .. n : snips[i] \in Snip
  <2>1. Len(snips) \in Nat /\ DOMAIN snips = 1 .. Len(snips)
    BY SnipsTyped
  <2> QED
    BY <2>1, SnipsTyped
<1>2. /\ pc[p] = "compact" /\ UNCHANGED <<content, lock, pc, op>>
      /\ me[p] \in Local /\ me \in [Procs -> Local]
      /\ Control(p) /\ Progress(p) /\ Work(p) /\ op[p] \in Ops
  BY DEF Compact, StoreInv, TypeOK, CallInv
<1>3. PICK s \in 1 .. n, d \in Nat : s = me[p].slot /\ d = me[p].gap /\ d < s
  <2>1. me[p].slot \in 1 .. n /\ me[p].gap \in Nat /\ me[p].gap < me[p].slot
    BY <1>1, <1>2 DEF Compact, Local, Progress
  <2> QED
    BY <2>1
<1>4. /\ lock = p /\ me[p].todo = {} /\ op[p] \in {"trim", "remove"}
  BY <1>2 DEF Control, Work, Locked, InRemoval, PlacesOf, Adding, Removing, Ops
<1>5. /\ me'[p].todo = {} /\ me'[p].text = me[p].text /\ me'[p].slot = s + 1
      /\ me'[p].gap = (IF snips[s].doomed THEN d + 1 ELSE d)
      /\ snips' = IF snips[s].doomed
                  THEN snips ELSE [snips EXCEPT ![s - d] = snips[s]]
      /\ \A q \in Procs : q # p => me'[q] = me[q]
  BY <1>2, <1>3, <1>4 DEF Compact, Local, MoveTo
<1>6. s - d \in 1 .. n
  BY <1>3
<1>7. /\ DOMAIN snips' = 1 .. n
      /\ snips[s].doomed => snips' = snips
      /\ ~snips[s].doomed =>
           \A i \in 1 .. n :
             snips'[i] = IF i = s - d THEN snips[s] ELSE snips[i]
  BY <1>1, <1>5, <1>6
<1>8. HeldBy(p) /\ HeldBy(p)' /\ HolderSees(p)
  BY <1>2, <1>4, <1>5, HolderFrame DEF Adding
<1>9. /\ Staying = {i \in 1 .. n : i < s - d \/ (i >= s /\ ~snips[i].doomed)}
      /\ Staying' = {i \in 1 .. n : \/ i < s + 1 - me'[p].gap
                                    \/ i >= s + 1 /\ ~snips'[i].doomed}
  <2>1. Staying' = {i \in 1 .. n : \/ i < me'[p].slot - me'[p].gap
                                   \/ i >= me'[p].slot /\ ~snips'[i].doomed}
    BY <1>2, <1>7, <1>8 DEF HeldBy
  <2>2. Staying = {i \in 1 .. n : \/ i < me[p].slot - me[p].gap
                                  \/ i >= me[p].slot /\ ~snips[i].doomed}
    BY <1>1, <1>2, <1>8 DEF HeldBy
  <2> QED
    BY <1>3, <1>5, <2>1, <2>2
<1>10. ASSUME NEW h \in Hashes
       PROVE  Due(h)' = Due(h)
  <2>1. ~Behind(h) /\ ~Behind(h)' /\ (Ahead(h)' <=> Ahead(h))
    BY <1>2, <1>8 DEF HolderSees, Leaving
  <2>2. SUFFICES Cardinality(OfHash(h)') = Cardinality(OfHash(h))
    BY <2>1 DEF Due
  <2>3. CASE snips[s].doomed
    <3>1. Staying' = Staying
      BY <1>3, <1>5, <1>7, <1>9, <2>3
    <3> QED
      BY <1>7, <2>3, <3>1 DEF OfHash
  <2>4. CASE ~snips[s].doomed /\ d = 0
    <3>1. snips' = snips
      <4>1. snips \in [1 .. n -> Snip]
        BY <1>1, SnipsTyped, SeqDef
      <4>2. s - d = s
        BY <1>3, <2>4
      <4> QED
        BY <1>1, <1>5, <2>4, <4>1, <4>2
    <3>2. Staying' = Staying
      BY <1>3, <1>5, <1>9, <2>4, <3>1
    <3> QED
      BY <3>1, <3>2 DEF OfHash
  <2>5. CASE ~snips[s].doomed /\ d > 0
    <3>1. /\ s \in Staying /\ s - d \notin Staying
          /\ Staying' = (Staying \ {s}) \union {s - d}
      <4>1. \A i \in 1 .. n : i >= s + 1 => snips'[i] = snips[i]
        BY <1>3, <1>7, <2>5
      <4>2. s \in Staying /\ s - d \notin Staying
        BY <1>3, <1>9, <2>5
      <4>3. Staying' = {i \in 1 .. n : i < s + 1 - d
                                         \/ (i >= s + 1 /\ ~snips[i].doomed)}
        BY <1>5, <1>9, <2>5, <4>1
      <4>4. \A i : i \in Staying' <=> i \in (Staying \ {s}) \union {s - d}
        BY <1>3, <1>6, <1>9, <2>5, <4>3
      <4> QED
        BY <4>2, <4>4
    <3>2. /\ \A i \in 1 .. n : i # s - d => snips'[i] = snips[i]
          /\ snips'[s - d] = snips[s] /\ s # s - d
      BY <1>3, <1>6, <1>7, <2>5
    <3>3. Staying \subseteq 1 .. n
      BY <1>9
    <3>4. CASE HashOf(snips[s].text) = h
      <4> DEFINE T == OfHash(h) \ {s}
      <4>1. s \in OfHash(h) /\ s - d \notin T
        BY <3>1, <3>4 DEF OfHash
      <4>2. OfHash(h)' = T \union {s - d}
        <5>1. \A i : i \in OfHash(h)' <=> i \in T \union {s - d}
          BY <1>6, <3>1, <3>2, <3>3, <3>4 DEF OfHash
        <5> QED
          BY <5>1
      <4>3. IsFiniteSet(T) /\ Cardinality(T) = Cardinality(OfHash(h)) - 1
        BY <4>1, OfHashFinite, FS_RemoveElement
      <4>4. Cardinality(T \union {s - d}) = Cardinality(T) + 1
        BY <4>1, <4>3, FS_AddElement
      <4> QED
        BY <4>2, <4>3, <4>4, OfHashFinite
    <3>5. CASE HashOf(snips[s].text) # h
      <4>1. \A i : i \in OfHash(h)' <=> i \in OfHash(h)
        BY <1>6, <3>1, <3>2, <3>3, <3>5 DEF OfHash
      <4>2. OfHash(h)' = OfHash(h)
        BY <4>1
      <4> QED
        BY <4>2
    <3> QED
      BY <3>4, <3>5
  <2> QED
    BY <1>3, <2>3, <2>4, <2>5
<1>11. Marks'
  <2>1. \A i \in DOMAIN snips' : snips'[i].text # Zero
    <3>1. \A i \in 1 .. n : snips[i].text \in Texts
      BY <1>1, <1>2, <1>4, VictimHasText
    <3> QED
      BY <1>1, <1>3, <1>7, <3>1, TextAssumption
  <2>2. \A q \in Procs : me'[q].todo = {}
    <3>1. \A q \in Procs : q # p => me[q].todo = {}
      BY <1>8 DEF HeldBy, Outside
    <3> QED
      BY <1>5, <3>1
  <2>3. pc'[p] \in InRemoval /\ op'[p] \in {"trim", "remove"}
    BY <1>2, <1>4 DEF InRemoval
  <2> QED
    BY <2>1, <2>2, <2>3 DEF Marks
<1> QED
  BY <1>2, <1>4, <1>5, <1>10, <1>11, SnipsAdvance DEF Changing

\* The cut takes only places away that nobody counts.
LEMMA ShrinkLink ==
  ASSUME StoreInv, StoreInv', LinkInv, NEW p \in Procs, GapEmpty(p), Shrink(p)
  PROVE  LinkInv'
<1>1. /\ pc[p] = "shrink" /\ UNCHANGED <<content, lock, op, me>>
      /\ pc' = [pc EXCEPT ![p] = "unlock"] /\ pc \in [Procs -> PCs]
      /\ me[p] \in Local /\ op[p] \in Ops
      /\ Control(p) /\ Progress(p) /\ Work(p)
  BY DEF Shrink, Goto, StoreInv, TypeOK, CallInv
<1>2. PICK m \in Nat :
        /\ m = Len(snips) - me[p].gap /\ m <= Len(snips)
        /\ DOMAIN snips' = 1 .. m /\ DOMAIN snips = 1 .. Len(snips)
        /\ \A i \in 1 .. m : snips'[i] = snips[i]
        /\ me[p].slot - me[p].gap = m + 1 /\ me[p].slot = Len(snips) + 1
        /\ Len(snips) \in Nat
  <2>1. /\ snips \in Seq(Snip) /\ Len(snips) \in Nat
        /\ DOMAIN snips = 1 .. Len(snips)
    BY SnipsTyped
  <2>2. /\ me[p].slot = Len(snips) + 1 /\ me[p].gap \in Nat
        /\ me[p].gap < me[p].slot
    BY <1>1 DEF Local, Progress
  <2>3. snips' = SubSeq(snips, 1, Len(snips) - me[p].gap)
    BY DEF Shrink
  <2>4. Len(snips) - me[p].gap \in 0 .. Len(snips)
    BY <2>1, <2>2
  <2>5. /\ snips' \in Seq(Snip) /\ Len(snips') = Len(snips) - me[p].gap
        /\ \A i \in 1 .. Len(snips) - me[p].gap : snips'[i] = snips[i]
    BY <2>1, <2>3, <2>4, SubSeqProperties
  <2>6. DOMAIN snips' = 1 .. Len(snips) - me[p].gap
    BY <2>5, LenProperties
  <2>7. me[p].slot - me[p].gap = Len(snips) - me[p].gap + 1
    BY <2>1, <2>2
  <2> QED
    BY <2>1, <2>2, <2>4, <2>5, <2>6, <2>7
<1>3. /\ lock = p /\ me[p].todo = {} /\ op[p] \in {"trim", "remove"}
      /\ pc'[p] = "unlock" /\ \A q \in Procs : q # p => pc'[q] = pc[q]
  BY <1>1 DEF Control, Work, Locked, InRemoval, PlacesOf, Adding, Removing, Ops
<1>4. \A i \in 1 .. m : ~snips[i].doomed
  <2>1. m + 1 - 1 = m
    BY <1>2
  <2> QED
    BY <1>1, <1>2, <2>1 DEF GapEmpty
<1>5. HeldBy(p) /\ HeldBy(p)' /\ HolderSees(p)
  BY <1>1, <1>3, HolderFrame DEF Adding
<1>6. Staying = 1 .. m /\ Staying' = 1 .. m
  <2>1. Staying = {i \in DOMAIN snips : \/ i < me[p].slot - me[p].gap
                                        \/ i >= me[p].slot /\ ~snips[i].doomed}
    BY <1>1, <1>5 DEF HeldBy
  <2>2. Staying' = {i \in DOMAIN snips' : ~snips'[i].doomed}
    BY <1>1, <1>3, <1>5 DEF HeldBy
  <2>3. Staying = 1 .. m
    BY <1>2, <2>1
  <2>4. Staying' = 1 .. m
    BY <1>2, <1>4, <2>2
  <2> QED
    BY <2>3, <2>4
<1>7. ASSUME NEW h \in Hashes
      PROVE  Due(h)' = Due(h)
  <2>1. ~Behind(h) /\ ~Behind(h)' /\ (Ahead(h)' <=> Ahead(h))
    BY <1>1, <1>3, <1>5 DEF HolderSees, Leaving
  <2>2. OfHash(h)' = OfHash(h)
    BY <1>2, <1>6 DEF OfHash
  <2> QED
    BY <2>1, <2>2 DEF Due
<1>8. Marks'
  <2>1. \A i \in DOMAIN snips' : snips'[i].text # Zero /\ ~snips'[i].doomed
    <3>1. \A i \in DOMAIN snips : snips[i].text \in Texts
      BY <1>1, <1>3, VictimHasText
    <3> QED
      BY <1>2, <1>4, <3>1, TextAssumption
  <2>2. \A q \in Procs : me'[q].todo = {}
    <3>1. \A q \in Procs : q # p => me[q].todo = {}
      BY <1>5 DEF HeldBy, Outside
    <3> QED
      BY <1>1, <1>3, <3>1
  <2> QED
    BY <2>1, <2>2 DEF Marks
<1> QED
  BY <1>1, <1>3, <1>7, <1>8, SnipsAdvance DEF Changing

\* A call returns, or ends because there is nothing to replace.
LEMMA EndsLink ==
  ASSUME StoreInv, StoreInv', LinkInv, NEW p \in Procs, Unlock(p) \/ Abort(p)
  PROVE  LinkInv'
<1>1. /\ pc[p] \in {"unlock", "range"} /\ UNCHANGED <<snips, content>>
      /\ lock = p /\ lock' = NoProc
      /\ pc' = [pc EXCEPT ![p] = "idle"] /\ op' = [op EXCEPT ![p] = "none"]
      /\ me' = [me EXCEPT ![p] = AtRest]
  <2>1. pc[p] \in {"unlock", "range"}
    BY DEF Unlock, Abort, LinkInv, Known
  <2>2. lock = p
    BY <2>1 DEF StoreInv, CallInv, Control, Locked
  <2> QED
    BY <2>1, <2>2 DEF Unlock, Abort, Vanish, Goto
<1>2. /\ pc'[p] = "idle" /\ op'[p] = "none" /\ me'[p].todo = {}
      /\ \A q \in Procs : q # p => /\ pc'[q] = pc[q] /\ op'[q] = op[q]
                                   /\ me'[q] = me[q]
  BY <1>1 DEF StoreInv, TypeOK, AtRest
<1>3. HeldBy(p) /\ Unheld'
  <2>1. StoreInv' /\ (lock = NoProc)' => Unheld'
    BY FreeView, PTL
  <2> QED
    BY <1>1, <2>1, HolderView DEF Held
<1>4. Daemon \in Procs
  BY DEF Procs
<1>5. ASSUME NEW h \in Hashes
      PROVE  HashInv(h)'
  <2>1. OfHash(h)' = OfHash(h)
    <3>1. Staying' = Staying
      BY <1>1, <1>3 DEF HeldBy, Unheld
    <3> QED
      BY <1>1, <3>1 DEF OfHash
  <2>2. /\ ~Behind(h) /\ ~Behind(h)' /\ ~AtRmdir(h) /\ ~AtRmdir(h)'
    <3>1. ~Replacing(h)
      <4>1. p = Daemon => ~Replacing(h)
        BY <1>1 DEF Replacing, Adding
      <4> QED
        BY <1>3, <4>1 DEF HeldBy, Replacing
    <3> QED
      BY <1>1, <1>3, <3>1 DEF HeldBy, Unheld
  <2>3. /\ Ahead(h)' <=> Ahead(h)
        /\ MakerAt("create", h)' <=> MakerAt("create", h)
        /\ MakerAt("write", h)' <=> MakerAt("write", h)
    <3>1. CASE p = Daemon
      BY <1>1, <1>2, <3>1 DEF Ahead, MakerAt
    <3>2. CASE p # Daemon
      BY <1>2, <1>4, <3>2 DEF Ahead, MakerAt, NewHash
    <3> QED
      BY <3>1, <3>2
  <2>4. SameHash(h)
    BY <1>1, <2>1, <2>2, <2>3 DEF SameHash, SameCount
  <2> QED
    BY <2>4, SameHashKeeps DEF LinkInv
<1>6. ASSUME NEW q \in Procs
      PROVE  Known(q)'
  <2>1. CASE q = p
    BY <1>2, <2>1 DEF Known
  <2>2. CASE q # p
    BY <1>1, <1>2, <2>2, OthersKnow
  <2> QED
    BY <2>1, <2>2
<1>7. Marks'
  BY <1>1, <1>2, MarksKeep DEF LinkInv, InRemoval, Removing
<1> QED
  BY <1>5, <1>6, <1>7 DEF LinkInv

LEMMA LinkInit == Init => LinkInv
<1> SUFFICES ASSUME Init
             PROVE  LinkInv
  OBVIOUS
<1>1. /\ snips = <<>> /\ content = [h \in Hashes \union {NoHash} |-> NoContent]
      /\ \A p \in Procs : pc[p] = "idle" /\ op[p] = "none" /\ me[p].todo = {}
  BY DEF Init, AtRest
<1>2. Daemon \in Procs
  BY DEF Procs
<1>3. ASSUME NEW h \in Hashes
      PROVE  HashInv(h)
  <2>1. OfHash(h) = {}
    BY <1>1, SnipsTyped, StoreInit DEF OfHash, Staying
  <2>2. /\ ~Ahead(h) /\ ~Behind(h) /\ ~AtRmdir(h)
        /\ ~MakerAt("create", h) /\ ~MakerAt("write", h)
    BY <1>1, <1>2 DEF Ahead, Behind, AtRmdir, MakerAt, Adding
  <2>3. Due(h) = 0
    BY <2>1, <2>2, FS_EmptySet DEF Due
  <2>4. content[h].links = {} /\ ~content[h].dir
    BY <1>1 DEF NoContent
  <2>5. 0 \in Nat /\ 1 .. 0 = {}
    OBVIOUS
  <2> QED
    BY <2>2, <2>3, <2>4, <2>5 DEF HashInv
<1>4. ASSUME NEW p \in Procs
      PROVE  Known(p)
  BY <1>1 DEF Known
<1>5. Marks
  BY <1>1 DEF Marks
<1> QED
  BY <1>3, <1>4, <1>5 DEF LinkInv

LEMMA LinkNext ==
  ASSUME StoreInv, StoreInv', GapInv, LinkInv, ~Overlap, ~Overlap',
         nrKills' = nrKills, [Next]_vars
  PROVE  LinkInv'
<1>1. CASE UNCHANGED vars
  <2>1. UNCHANGED <<snips, content, lock, pc, op, me>>
    BY <1>1 DEF vars
  <2>2. \A h : /\ OfHash(h)' = OfHash(h) /\ (Ahead(h)' <=> Ahead(h))
               /\ Behind(h)' <=> Behind(h)
               /\ AtRmdir(h)' <=> AtRmdir(h)
    BY <2>1
       DEF OfHash, Staying, Compacting, Ahead, Behind, AtRmdir, VictimHash,
           Victim, NewHash
  <2>3. ASSUME NEW h \in Hashes
        PROVE  HashInv(h)'
    <3>1. SameHash(h)
      BY <2>1, <2>2 DEF SameHash, SameCount, MakerAt, NewHash
    <3> QED
      BY <3>1, SameHashKeeps DEF LinkInv
  <2>4. (\A p \in Procs : Known(p))' /\ Marks'
    BY <2>1 DEF LinkInv, Known, Marks, NewHash, VictimHash, Victim
  <2> QED
    BY <2>3, <2>4 DEF LinkInv
<1>2. CASE Calling
  BY <1>2, CallsLink
<1>3. ASSUME NEW p \in Procs, Locking(p)
      PROVE  LinkInv'
  BY <1>3, LocksLink
<1>4. ASSUME NEW p \in Procs, Step(p)
      PROVE  LinkInv'
  <2>1. GapEmpty(p)
    BY DEF GapInv
  <2> QED
    BY <1>4, <2>1, AddStepsLink, RemoveStepsLink, GrowLink, FillLink,
       UpdateLink, DoomLink, CompactLink, ShrinkLink, EndsLink DEF Step
<1>5. ASSUME NEW p \in Procs, Kill(p)
      PROVE  FALSE
  BY <1>5 DEF Kill, StoreInv, TypeOK
<1> QED
  BY <1>1, <1>2, <1>3, <1>4, <1>5 DEF Next

(***************************************************************************)
(* While cs_replace() adds the content of the new text, the newest snip    *)
(* has that text already.                                                  *)
(***************************************************************************)
Refilling == op[Daemon] = "replace" /\ pc[Daemon] \in Adding

Refilled ==
  Refilling => Len(snips) > 0 /\ snips[Len(snips)] = Fresh(me[Daemon].text)

\* The steps of cs_replace() that keep it so, and the one that begins it.
LEMMA RefillSteps ==
  ASSUME StoreInv, StoreInv', Refilled, Step(Daemon), Refilling'
  PROVE  Refilled'
<1>1. /\ Daemon \in Procs /\ pc \in [Procs -> PCs] /\ op \in [Procs -> Ops]
      /\ me \in [Procs -> Local]
  BY DEF Procs, StoreInv, TypeOK
<1>2. CASE Update(Daemon)
  <2>1. PICK u : u = Victim(Daemon)
    OBVIOUS
  <2>2. /\ pc[Daemon] = "update" /\ op' = op
        /\ snips' = [snips EXCEPT ![u] = Fresh(me[Daemon].text)]
        /\ me' = [me EXCEPT ![Daemon].todo = {}]
    BY <1>2, <2>1 DEF Update
  <2>3. op[Daemon] = "replace" /\ me[Daemon].todo \subseteq {Len(snips)}
    BY <1>1, <2>2, DaemonAdds DEF StoreInv, CallInv, Work
  <2>4. u = Len(snips) /\ u \in DOMAIN snips
    BY <1>1, <2>1, <2>2, <2>3, VictimRemoved
  <2>5. Len(snips') = Len(snips) /\ Len(snips) > 0
    BY <2>2, <2>4, SnipsTyped, LenProperties DEF StoreInv, TypeOK
  <2>6. snips'[u] = Fresh(me[Daemon].text)
    BY <2>2, <2>4
  <2>7. me'[Daemon].text = me[Daemon].text
    BY <1>1, <2>2 DEF Local
  <2> QED
    BY <2>4, <2>5, <2>6, <2>7 DEF Refilled
<1>3. CASE ~Update(Daemon)
  <2>1. /\ op'[Daemon] = "replace" /\ pc'[Daemon] \in Adding
    BY DEF Refilling
  <2>2. Refilling /\ snips' = snips /\ me'[Daemon].text = me[Daemon].text
    <3>1. CASE Mkdir(Daemon) \/ StatDupe(Daemon) \/ Link(Daemon)
                 \/ Create(Daemon) \/ Write(Daemon)
      BY <1>1, <2>1, <3>1
         DEF Mkdir, StatDupe, Link, Create, Write, Refilling, Adding, Local
    <3>2. CASE ~(Mkdir(Daemon) \/ StatDupe(Daemon) \/ Link(Daemon)
                   \/ Create(Daemon) \/ Write(Daemon))
      <4>1. pc'[Daemon] \notin Adding
        BY <1>1, <1>3, <3>2
           DEF Step, Grow, Fill, Stat, Unlink, Rmdir, Scan, Doom, Compact,
               Compacted, Shrink, Unlock, Abort, Vanish, Goto, Adding,
               AfterRemove
      <4> QED
        BY <2>1, <4>1
    <3> QED
      BY <3>1, <3>2
  <2> QED
    BY <2>2 DEF Refilled
<1> QED
  BY <1>2, <1>3

LEMMA RefilledNext ==
  ASSUME StoreInv, StoreInv', Refilled, [Next]_vars
  PROVE  Refilled'
<1> SUFFICES ASSUME Refilling'
             PROVE  Refilled'
  BY DEF Refilled
<1>1. /\ Daemon \in Procs /\ pc \in [Procs -> PCs] /\ op \in [Procs -> Ops]
      /\ me \in [Procs -> Local] /\ Len(snips) \in Nat
  BY SnipsTyped DEF Procs, StoreInv, TypeOK
<1>2. ASSUME Refilling, snips' = snips, me'[Daemon] = me[Daemon]
      PROVE  Refilled'
  BY <1>2 DEF Refilled
<1>3. CASE UNCHANGED vars
  BY <1>2, <1>3 DEF vars, Refilling
<1>4. CASE Calling
  <2>1. /\ snips' = snips
        /\ \/ pc'[Daemon] = "mkdir" /\ op'[Daemon] = "add"
           \/ pc'[Daemon] = "wait"
           \/ /\ pc'[Daemon] = pc[Daemon] /\ op'[Daemon] = op[Daemon]
              /\ me'[Daemon] = me[Daemon]
    BY <1>1, <1>4, ProcAssumption
       DEF Calling, CallAdd, CallReplace, CallTrim, CallRemove, Goto, Procs
  <2> QED
    BY <1>2, <2>1 DEF Refilling, Adding
<1>5. CASE Locking(Daemon)
  <2>1. pc'[Daemon] \notin Adding
    BY <1>1, <1>5
       DEF Locking, LockAdd, LockReplace, LockTrim, LockRemove, LockFor, Goto,
           Adding
  <2> QED
    BY <2>1 DEF Refilling
<1>6. CASE Step(Daemon)
  BY <1>6, RefillSteps
<1>7. CASE Kill(Daemon)
  BY <1>1, <1>7 DEF Kill, Vanish, Goto, Refilling, Adding
<1>8. ASSUME NEW q \in Procs, q # Daemon, Locking(q) \/ Step(q) \/ Kill(q)
      PROVE  Refilled'
  <2>1. /\ pc'[Daemon] = pc[Daemon] /\ op'[Daemon] = op[Daemon]
        /\ me'[Daemon] = me[Daemon]
        /\ Refilling
    <3>1. Locking(q) =>
            pc'[Daemon] = pc[Daemon] /\ op' = op /\ me'[Daemon] = me[Daemon]
      BY <1>1, <1>8
         DEF Locking, LockAdd, LockReplace, LockTrim, LockRemove, LockFor,
             Goto
    <3>2. Step(q) => /\ pc'[Daemon] = pc[Daemon] /\ op'[Daemon] = op[Daemon]
                     /\ me'[Daemon] = me[Daemon]
      BY <1>1, <1>8
         DEF Step, Mkdir, StatDupe, Link, Create, Write, Grow, Fill, Stat,
             Unlink, Rmdir, Update, Scan, Doom, Compact, Compacted, Shrink,
             Unlock, Abort, Vanish, Goto
    <3>3. Kill(q) => /\ pc'[Daemon] = pc[Daemon] /\ op'[Daemon] = op[Daemon]
                     /\ me'[Daemon] = me[Daemon]
      BY <1>1, <1>8 DEF Kill, Vanish, Goto
    <3> QED
      BY <1>8, <3>1, <3>2, <3>3 DEF Refilling
  <2>2. lock = Daemon
    BY <1>1, <2>1 DEF Refilling, StoreInv, CallInv, Control, Locked
  <2>3. snips' = snips
    <3>1. ~Locked(q)
      BY <1>8, <2>2 DEF StoreInv, CallInv, Control
    <3> QED
      BY <1>8, <3>1
         DEF Locking, LockAdd, LockReplace, LockTrim, LockRemove, LockFor,
             Kill, Vanish, Step, Mkdir, StatDupe, Link, Create, Write, Grow,
             Fill, Stat, Unlink, Rmdir, Update, Scan, Doom, Compact,
             Compacted, Shrink, Unlock, Abort, Locked, InRemoval
  <2> QED
    BY <1>2, <2>1, <2>3
<1> QED
  BY <1>3, <1>4, <1>5, <1>6, <1>7, <1>8 DEF Next

\* What holds in every state.
StoreHistory ==
  StoreInv /\ GapInv /\ RacedSeen /\ Refilled /\ (Undisturbed => LinkInv)

LEMMA HistoryNext ==
  ASSUME StoreHistory, StoreInv', GapInv', RacedSeen', [Next]_vars
  PROVE  StoreHistory'
<1>1. Refilled'
  BY RefilledNext DEF StoreHistory
<1>2. ASSUME Undisturbed'
      PROVE  LinkInv'
  <2>1. nrKills \in Nat /\ nrKills' = 0 /\ ~raced'
    BY <1>2 DEF Undisturbed, StoreHistory, StoreInv, TypeOK
  <2>2. /\ nrKills' = nrKills \/ nrKills' = nrKills + 1
        /\ raced' = raced \/ raced' = (raced \/ Overlap')
    BY DEF Next, Calling, Locking, Step, Kill, Remember, vars
  <2>3. nrKills' = nrKills /\ nrKills = 0
    BY <2>1, <2>2
  <2>4. ~raced
    BY <2>1, <2>2
  <2>5. ~Overlap /\ ~Overlap'
    BY <2>1, <2>4 DEF RacedSeen, StoreHistory
  <2> QED
    BY <2>3, <2>4, <2>5, LinkNext DEF StoreHistory, Undisturbed
<1> QED
  BY <1>1, <1>2 DEF StoreHistory

LEMMA LinkInvariant == Spec => []StoreHistory
<1>1. Init => StoreHistory
  <2>1. Init => RacedSeen /\ Refilled
    BY DEF Init, RacedSeen, Overlap, BeingAdded, Refilled, Refilling, Adding,
           Procs
  <2> QED
    BY <2>1, StoreInit, GapInit, LinkInit DEF StoreHistory
<1>2. StoreInv /\ GapInv /\ [Next]_vars => StoreInv' /\ GapInv'
  BY StoreNext, GapNext
<1>3. StoreHistory => StoreInv /\ GapInv
  BY DEF StoreHistory
<1>4. StoreHistory /\ StoreInv' /\ GapInv' /\ RacedSeen' /\ [Next]_vars
        => StoreHistory'
  BY HistoryNext
<1> QED
  BY <1>1, <1>2, <1>3, <1>4, RacedIsSeen, PTL DEF Spec

(***************************************************************************)
(* No call finds a content directory it cannot work with, until somebody   *)
(* is killed or an addition overlaps a removal of the same content.        *)
(***************************************************************************)
THEOREM ContentAlwaysFits == Spec => []NoContentError
<1>1. StoreHistory => NoContentError
  BY DEF StoreHistory, LinkInv, Known, NoContentError
<1> QED
  BY <1>1, LinkInvariant, PTL

(***************************************************************************)
(* The links of a hash are as many as its snips.                           *)
(***************************************************************************)
LEMMA LinksAreCounted == StoreHistory => ContentMatchesSnips
<1> SUFFICES ASSUME StoreInv, LinkInv, lock = NoProc,
                    NEW h \in Hashes, ~BeingAdded(h)
             PROVE  /\ content[h].links = 1 .. (Count(h) + Announced(h))
                    /\ content[h].dir <=> content[h].links # {}
                    /\ content[h].dir =>
                         content[h].data \in Texts /\ Hash[content[h].data] = h
  BY DEF ContentMatchesSnips, StoreHistory
<1>1. Unheld /\ HashInv(h) /\ Daemon \in Procs
  BY FreeView DEF LinkInv, Procs
<1>2. Cardinality(OfHash(h)) = Count(h) /\ Count(h) \in Nat
  <2>1. OfHash(h) = {i \in DOMAIN snips :
                       ~snips[i].doomed /\ HashOf(snips[i].text) = h}
    BY <1>1 DEF Unheld, OfHash
  <2> QED
    BY <2>1, OfHashFinite DEF Count
<1>3. Outside(Daemon) /\ (pc[Daemon] \in Adding => op[Daemon] = "add")
  BY <1>1 DEF Unheld, Outside
<1>4. ~MakerAt("create", h) /\ ~MakerAt("write", h)
  BY <1>1, <1>3 DEF MakerAt, BeingAdded, Adding
<1>5. Announced(h) = IF Ahead(h) THEN 1 ELSE 0
  <2> DEFINE A == {p \in Procs : /\ op[p] = "add" /\ pc[p] = "wait"
                                 /\ NewHash(p) = h}
  <2>1. \A p \in A : p = Daemon
    BY DaemonAdds
  <2>2. Daemon \in A <=> Ahead(h)
    BY <1>1, <1>3, <1>4 DEF Ahead, Outside, MakerAt, Adding
  <2>3. A = IF Ahead(h) THEN {Daemon} ELSE {}
    BY <2>1, <2>2
  <2>4. Cardinality({Daemon}) = 1 /\ Cardinality({}) = 0
    BY FS_Singleton, FS_EmptySet
  <2> QED
    BY <2>3, <2>4 DEF Announced
<1>6. Due(h) = Count(h) + Announced(h)
  BY <1>1, <1>2, <1>5 DEF Unheld, Due
<1> QED
  BY <1>1, <1>4, <1>6 DEF Unheld, HashInv

\* Two snips of a hash are more than one.
LEMMA TwoOfHash ==
  ASSUME StoreInv, NEW h, NEW i \in OfHash(h), NEW j \in OfHash(h), i # j
  PROVE  Cardinality(OfHash(h)) > 1
<1>1. /\ IsFiniteSet(OfHash(h) \ {i})
      /\ Cardinality(OfHash(h) \ {i}) = Cardinality(OfHash(h)) - 1
  BY OfHashFinite, FS_RemoveElement
<1>2. Cardinality(OfHash(h) \ {i}) \in Nat /\ Cardinality(OfHash(h) \ {i}) # 0
  <2>1. OfHash(h) \ {i} # {}
    OBVIOUS
  <2> QED
    BY <1>1, <2>1, FS_CardinalityType, FS_EmptySet
<1> QED
  BY <1>1, <1>2, OfHashFinite

\* The snip that is being replaced counts for the hash it gets.
LEMMA RefilledCounts ==
  ASSUME StoreInv, LinkInv, Refilled, NEW h \in Hashes, Refilling,
         NewHash(Daemon) = h
  PROVE  Len(snips) \in OfHash(h) /\ ~Compacting
<1>1. Daemon \in Procs /\ lock = Daemon
  BY DEF Procs, Refilling, StoreInv, CallInv, Control, Locked
<1>2. ~Compacting
  <2>1. pc[Daemon] \notin {"compact", "shrink"}
    BY DEF Refilling, Adding
  <2>2. \A q \in Procs : pc[q] \in {"compact", "shrink"} => lock = q
    BY DEF StoreInv, CallInv, Control, Locked, InRemoval
  <2> QED
    BY <1>1, <2>1, <2>2 DEF Compacting
<1>3. Len(snips) \in DOMAIN snips
  BY SnipsTyped DEF Refilled
<1>4. /\ HashOf(snips[Len(snips)].text) = h /\ ~snips[Len(snips)].doomed
  BY DEF Refilled, Fresh, NewHash
<1> QED
  BY <1>2, <1>3, <1>4 DEF OfHash, Staying

\* A clip whose link is taken away, or not made yet, is not the last.
LEMMA VictimAndAnother ==
  ASSUME StoreInv, LinkInv, Refilled, NEW h \in Hashes, NEW i \in OfHash(h),
         ~InWork(i), Behind(h)
  PROVE  Cardinality(OfHash(h)) > 1
<1>1. Daemon \in Procs
  BY DEF Procs
<1>2. CASE Refilling /\ NewHash(Daemon) = h
  <2>1. i # Len(snips)
    BY <1>1, <1>2 DEF InWork, Refilling
  <2> QED
    BY <1>2, <2>1, RefilledCounts, TwoOfHash
<1>3. CASE ~(Refilling /\ NewHash(Daemon) = h)
  <2>1. PICK p \in Procs : /\ pc[p] \in {"rmdir", "doom", "update"}
                           /\ VictimHash(p) = h
    BY <1>3 DEF Behind, Refilling
  <2>2. Victim(p) \in me[p].todo /\ Victim(p) \in DOMAIN snips
    BY <2>1, VictimRemoved DEF Removing
  <2>3. lock = p
    BY <2>1 DEF StoreInv, CallInv, Control, Locked, InRemoval, Removing
  <2>4. Staying = {j \in DOMAIN snips : ~snips[j].doomed}
    BY <2>1, <2>3, HolderView DEF Held, HeldBy
  <2>5. Victim(p) \in OfHash(h) /\ Victim(p) # i
    BY <2>1, <2>2, <2>4 DEF OfHash, VictimHash, LinkInv, Marks, InWork
  <2> QED
    BY <2>5, TwoOfHash
<1> QED
  BY <1>2, <1>3

\* A clip in the gap of a compaction has a copy that is counted.
LEMMA Counted ==
  ASSUME StoreInv, GapInv, NEW i \in DOMAIN snips, ~InWork(i)
  PROVE  \/ i \in Staying
         \/ Compacting /\ \E j \in Staying : snips[j].text = snips[i].text
<1>1. ~snips[i].doomed
  BY DEF InWork
<1>2. CASE ~Compacting
  BY <1>1, <1>2 DEF Staying
<1>3. CASE Compacting
  <2>1. PICK p \in Procs : pc[p] \in {"compact", "shrink"}
    BY <1>3 DEF Compacting
  <2>2. lock = p /\ me[p] \in Local /\ Progress(p) /\ GapEmpty(p)
    BY <2>1 DEF StoreInv, TypeOK, CallInv, Control, Locked, InRemoval, GapInv
  <2>3. PICK s \in Nat, d \in Nat : s = me[p].slot /\ d = me[p].gap /\ d < s
    BY <2>2 DEF Local, Progress
  <2>4. /\ Len(snips) \in Nat /\ DOMAIN snips = 1 .. Len(snips)
        /\ s <= Len(snips) + 1
    <3>1. Len(snips) \in Nat /\ DOMAIN snips = 1 .. Len(snips)
      BY SnipsTyped
    <3> QED
      BY <2>1, <2>2, <2>3, <3>1 DEF Progress
  <2>5. Staying = {j \in DOMAIN snips : \/ j < s - d
                                        \/ j >= s /\ ~snips[j].doomed}
    BY <2>1, <2>2, <2>3, HolderView DEF Held, HeldBy
  <2>6. CASE i < s - d \/ i >= s
    BY <1>1, <2>5, <2>6
  <2>7. CASE ~(i < s - d \/ i >= s)
    <3>1. i \in s - d .. s - 1
      BY <2>3, <2>4, <2>7
    <3>2. PICK j \in 1 .. s - d - 1 : snips[j].text = snips[i].text
      BY <1>1, <2>1, <2>2, <2>3, <3>1 DEF GapEmpty
    <3>3. j \in Staying
      BY <2>3, <2>4, <2>5, <3>2
    <3> QED
      BY <1>3, <3>2, <3>3
  <2> QED
    BY <2>6, <2>7
<1> QED
  BY <1>2, <1>3

LEMMA WhatStaysIsThere ==
  StoreInv /\ GapInv /\ LinkInv /\ Refilled => SnipsReadable
<1> SUFFICES ASSUME StoreInv, GapInv, LinkInv, Refilled,
                    NEW i \in DOMAIN snips, ~InWork(i)
             PROVE  LET t == ContentGet(HashOf(snips[i].text))
                    IN  t \in Texts /\ Hash[t] = HashOf(snips[i].text)
  BY DEF SnipsReadable
<1>1. snips[i].text \in Texts
  BY SnipsTyped DEF InWork, Snip
<1>2. PICK h \in Hashes : h = HashOf(snips[i].text)
  BY <1>1, TextAssumption DEF HashOf
<1>3. HashInv(h) /\ Cardinality(OfHash(h)) \in Nat /\ Daemon \in Procs
  BY OfHashFinite DEF LinkInv, Procs
<1>4. OfHash(h) # {}
  <2>1. \E j \in Staying : snips[j].text = snips[i].text
    BY Counted
  <2> QED
    BY <1>2, <2>1 DEF OfHash
<1>5. Cardinality(OfHash(h)) # 0
  BY <1>4, OfHashFinite, FS_EmptySet
<1>6. Behind(h) => Cardinality(OfHash(h)) > 1
  <2>1. SUFFICES ASSUME Behind(h)
                 PROVE  Cardinality(OfHash(h)) > 1
    OBVIOUS
  <2>2. ~Compacting
    <3>1. CASE Refilling /\ NewHash(Daemon) = h
      BY <3>1, RefilledCounts
    <3>2. CASE ~(Refilling /\ NewHash(Daemon) = h)
      <4>1. PICK p \in Procs : pc[p] \in {"rmdir", "doom", "update"}
        BY <2>1, <3>2 DEF Behind, Refilling
      <4>2. lock = p
        BY <4>1 DEF StoreInv, CallInv, Control, Locked, InRemoval, Removing
      <4>3. \A q \in Procs : pc[q] \in {"compact", "shrink"} => lock = q
        BY DEF StoreInv, CallInv, Control, Locked, InRemoval
      <4> QED
        BY <4>1, <4>2, <4>3 DEF Compacting
    <3> QED
      BY <3>1, <3>2
  <2>3. i \in OfHash(h)
    BY <1>2, <2>2, Counted DEF OfHash
  <2> QED
    BY <2>1, <2>3, VictimAndAnother
<1>7. PICK n \in Nat : n = Due(h) /\ n > 0 /\ content[h].links = 1 .. n
  <2>1. Due(h) > 0
    BY <1>3, <1>5, <1>6 DEF Due
  <2> QED
    BY <1>3, <2>1 DEF HashInv
<1>8. 1 \in content[h].links
  BY <1>7
<1>9. ~MakerAt("write", h)
  <2>1. SUFFICES ASSUME pc[Daemon] = "write", NewHash(Daemon) = h
                 PROVE  FALSE
    BY DEF MakerAt
  <2>2. content[h].links = {1}
    BY <1>3, <2>1 DEF LinkInv, Known
  <2>3. n = 1
    <3>1. n > 1 => 2 \in content[h].links
      BY <1>7
    <3>2. 2 \notin {1} /\ n \in Nat /\ n > 0
      BY <1>7
    <3> QED
      BY <2>2, <3>1, <3>2
  <2>4. CASE op[Daemon] = "add"
    <3>1. Ahead(h)
      BY <2>1, <2>4 DEF Ahead
    <3> QED
      BY <1>3, <1>5, <1>6, <1>7, <2>3, <3>1 DEF Due
  <2>5. CASE op[Daemon] = "replace"
    <3>1. Refilling
      BY <2>1, <2>5 DEF Refilling, Adding
    <3>2. Len(snips) \in OfHash(h) /\ ~Compacting
      BY <2>1, <3>1, RefilledCounts
    <3>3. i # Len(snips)
      BY <1>3, <3>1 DEF InWork, Refilling
    <3>4. i \in OfHash(h)
      BY <1>2, <3>2, Counted DEF OfHash
    <3>5. Cardinality(OfHash(h)) > 1
      BY <3>2, <3>3, <3>4, TwoOfHash
    <3>6. ~Behind(h)
      <4>1. lock = Daemon
        BY <1>3, <3>1 DEF Refilling, StoreInv, CallInv, Control, Locked
      <4>2. HeldBy(Daemon)
        BY <1>3, <4>1, HolderView DEF Held
      <4> QED
        BY <2>1, <4>2 DEF HeldBy, Replacing
    <3> QED
      BY <1>3, <1>7, <2>3, <3>5, <3>6 DEF Due
  <2> QED
    BY <1>3, <2>1, <2>4, <2>5, DaemonAdds DEF Adding
<1>10. content[h].data \in Texts /\ Hash[content[h].data] = h
  BY <1>3, <1>8, <1>9 DEF HashInv
<1>11. ContentGet(h) = content[h].data
  BY <1>8, <1>10, TextAssumption DEF ContentGet
<1> QED
  BY <1>2, <1>10, <1>11

(***************************************************************************)
(* Whenever nobody holds the flock, the links of every hash that is not    *)
(* being added are as many as its snips, and what they lead to is whole:   *)
(* until somebody is killed, or an addition overlaps a removal of the same *)
(* content, be it of the last snip of that hash or of another.             *)
(***************************************************************************)
THEOREM LinksMatch == Spec => []ContentMatchesSnips
BY LinkInvariant, LinksAreCounted, PTL

(***************************************************************************)
(* At any moment up to then, a reader without the flock finds a whole text *)
(* of its hash for every snip that nobody is removing or replacing.        *)
(***************************************************************************)
THEOREM ClipsReadable == Spec => []ReadableUntilRaced
<1>1. StoreHistory => ReadableUntilRaced
  BY WhatStaysIsThere DEF StoreHistory, ReadableUntilRaced
<1> QED
  BY <1>1, LinkInvariant, PTL
=============================================================================
