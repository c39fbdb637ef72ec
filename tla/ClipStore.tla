----------------------------- MODULE ClipStore ------------------------------
(***************************************************************************)
(* The clip store of src/store.c: the snips (one per clip, oldest first)   *)
(* and the content directory, which holds a directory per hash with the    *)
(* text in a file "1" and a further hard link "2", "3", ... for every      *)
(* further snip of that hash.  clipmenud adds, replaces and trims, clipdel *)
(* removes, both as processes that may be killed at any step.              *)
(*                                                                         *)
(* The layout of the snip file and the flock's reference count are in      *)
(* SnipFile; here the snips are a sequence and cs_file_resize() is a step. *)
(* A system call on the content directory is a step of its own.            *)
(***************************************************************************)
EXTENDS Naturals, Sequences, FiniteSets, FiniteSetsExt

CONSTANTS
  Daemon,    \* the clipmenud process: adds, replaces the newest, trims
  Deleters,  \* the clipdel processes
  NoProc,    \* no process
  Texts,     \* the clips
  Zero,      \* the text of a snip that ftruncate() has just created
  Hashes,    \* values of djb64_hash()
  NoHash,    \* the hash of such a snip
  Hash,      \* djb64_hash() itself, a function from Texts to Hashes
  MaxLen,    \* bound: cs_add() is not called when there are this many snips
  MaxKills   \* bound: how many processes are killed, at any point

Procs == {Daemon} \union Deleters

\* What is in a content file: nothing yet, some of the text, or the text.
Empty   == "empty"
Partial == "partial"

ASSUME ProcAssumption == NoProc \notin Procs /\ Daemon \notin Deleters
ASSUME TextAssumption == /\ {Zero, Empty, Partial} \intersect Texts = {}
                         /\ NoHash \notin Hashes
                         /\ Hash \in [Texts -> Hashes]
ASSUME BoundAssumption == MaxLen \in Nat /\ MaxKills \in Nat

VARIABLES
  snips,    \* the snips: [text, doomed]; its line and hash follow from text
  content,  \* for each hash [dir, links, data]: does the directory exist,
            \* the names in it (all links of one file), what the file holds
  lock,     \* the process that holds the flock, or NoProc
  pc, op,   \* where each process is, and in which library call
  me,       \* the arguments and locals of that call
  nrKills,  \* how many processes have been killed
  raced     \* history variable: has an addition of a content ever overlapped
            \* a removal of that content?  See Overlap.

vars == <<snips, content, lock, pc, op, me, nrKills, raced>>

Local == [text : Texts \union {Zero}, \* cs_add(), cs_replace(): the content
          keep : 0 .. MaxLen,         \* cs_trim(): nr_keep
          todo : SUBSET (1 .. MaxLen),\* snips still to remove or to replace
          nlink : Nat,                \* st_nlink of "1"
          slot : 1 .. MaxLen + 1,     \* compaction: the snip looked at
          gap  : 0 .. MaxLen]         \* compaction: nr_doomed

AtRest == [text |-> Zero, keep |-> 0, todo |-> {}, nlink |-> 0, slot |-> 1,
           gap |-> 0]

Adding   == {"mkdir", "stat_dupe", "link", "create", "write"}
Removing == {"stat", "unlink", "rmdir"}
PCs == Adding \union Removing \union
       {"idle", "wait", "grow", "fill", "scan", "doom", "compact", "shrink",
        "update", "unlock", "fail", "range"}
Ops == {"none", "add", "replace", "trim", "remove"}

Goto(p, l) == pc' = [pc EXCEPT ![p] = l]

HashOf(t) == IF t = Zero THEN NoHash ELSE Hash[t]

NoContent == [dir |-> FALSE, links |-> {}, data |-> Empty]

Fresh(t) == [text |-> t, doomed |-> FALSE]

Count(h) == Cardinality({i \in DOMAIN snips :
                           ~snips[i].doomed /\ HashOf(snips[i].text) = h})

\* The snip cs_remove() comes to next: cs_trim() goes from the newest down,
\* clipdel from the oldest up.
Victim(p) == IF op[p] = "remove" THEN Min(me[p].todo) ELSE Max(me[p].todo)

VictimHash(p) == HashOf(snips[Victim(p)].text)

NewHash(p) == HashOf(me[p].text)

-----------------------------------------------------------------------------
Init ==
  /\ snips = <<>>
  /\ content = [h \in Hashes \union {NoHash} |-> NoContent]
  /\ lock = NoProc
  /\ pc = [p \in Procs |-> "idle"]
  /\ op = [p \in Procs |-> "none"]
  /\ me = [p \in Procs |-> AtRest]
  /\ nrKills = 0
  /\ raced = FALSE

(***************************************************************************)
(* cs_add() works on the content directory without the lock.  What it has  *)
(* learned from mkdirat() it uses up to linkat() or the last write(), and  *)
(* what cs_content_remove() has learned from fstatat() it uses up to its   *)
(* last unlinkat(): the two overlap when one is inside these steps for the *)
(* same hash as the other, whether the snip removed is the last of that    *)
(* hash or not.  Nothing in the code prevents that, and nothing here does: *)
(* raced only remembers it.                                                *)
(***************************************************************************)
BeingAdded(h) == \E p \in Procs : /\ op[p] = "add"
                                  /\ pc[p] \in Adding \ {"mkdir"}
                                  /\ NewHash(p) = h

BeingRemoved(h) == \E p \in Procs : /\ pc[p] \in Removing \ {"stat"}
                                    /\ VictimHash(p) = h

Overlap == \E h \in Hashes : BeingAdded(h) /\ BeingRemoved(h)

Remember == raced' = (raced \/ Overlap')

-----------------------------------------------------------------------------
(***************************************************************************)
(* The calls.                                                              *)
(***************************************************************************)
\* cs_add(): the content first, without the lock.
CallAdd(t) ==
  /\ pc[Daemon] = "idle" /\ Len(snips) < MaxLen
  /\ op' = [op EXCEPT ![Daemon] = "add"]
  /\ me' = [me EXCEPT ![Daemon].text = t]
  /\ Goto(Daemon, "mkdir")
  /\ UNCHANGED <<snips, content, lock>>

\* cs_replace() of the newest snip, the only one clipmenud replaces.
CallReplace(t) ==
  /\ pc[Daemon] = "idle"
  /\ op' = [op EXCEPT ![Daemon] = "replace"]
  /\ me' = [me EXCEPT ![Daemon].text = t]
  /\ Goto(Daemon, "wait")
  /\ UNCHANGED <<snips, content, lock>>

\* cs_trim(): nr_snips is read without the lock.
CallTrim(n) ==
  /\ pc[Daemon] = "idle" /\ n < Len(snips)
  /\ op' = [op EXCEPT ![Daemon] = "trim"]
  /\ me' = [me EXCEPT ![Daemon].keep = n]
  /\ Goto(Daemon, "wait")
  /\ UNCHANGED <<snips, content, lock>>

CallRemove(p) ==
  /\ pc[p] = "idle"
  /\ op' = [op EXCEPT ![p] = "remove"]
  /\ Goto(p, "wait")
  /\ UNCHANGED <<snips, content, lock, me>>

\* cs_ref() returns in cs_snip_add().
LockAdd(p) ==
  /\ pc[p] = "wait" /\ op[p] = "add" /\ lock = NoProc
  /\ lock' = p
  /\ Goto(p, "grow")
  /\ UNCHANGED <<snips, content, op, me>>

\* cs_ref() returns in cs_remove() or cs_replace(), which go for the snips
\* in victims.
LockFor(p, victims) ==
  /\ pc[p] = "wait" /\ lock = NoProc
  /\ lock' = p
  /\ me' = [me EXCEPT ![p].todo = victims]
  /\ UNCHANGED <<snips, content, op>>

\* An empty store has no newest snip: -ERANGE.
LockReplace(p) ==
  /\ op[p] = "replace"
  /\ LockFor(p, IF snips = <<>> THEN {} ELSE {Len(snips)})
  /\ Goto(p, IF snips = <<>> THEN "range" ELSE "stat")

LockTrim(p) ==
  /\ op[p] = "trim"
  /\ LockFor(p, {i \in DOMAIN snips : i + me[p].keep <= Len(snips)})
  /\ Goto(p, IF Len(snips) <= me[p].keep THEN "unlock" ELSE "scan")

\* clipdel's expression matches some lines (those in `lines`) and no others.
\* Without -d it keeps them all, as if there were none.
LockRemove(p) ==
  /\ op[p] = "remove"
  /\ \E lines \in SUBSET (Texts \union {Zero}) :
       LET victims == {i \in DOMAIN snips : snips[i].text \in lines}
       IN  /\ LockFor(p, victims)
           /\ Goto(p, IF victims = {} THEN "unlock" ELSE "scan")

\* The guard goes out of scope: cs_unref().
Unlock(p) ==
  /\ pc[p] = "unlock"
  /\ lock' = NoProc
  /\ Goto(p, "idle")
  /\ op' = [op EXCEPT ![p] = "none"]
  /\ me' = [me EXCEPT ![p] = AtRest]
  /\ UNCHANGED <<snips, content>>

-----------------------------------------------------------------------------
(***************************************************************************)
(* cs_content_add(), in cs_add() without and in cs_replace() with the lock.*)
(***************************************************************************)
AfterAdd(p) == IF op[p] = "add" THEN "wait" ELSE "unlock"

Mkdir(p) ==
  /\ pc[p] = "mkdir"
  /\ content' = [content EXCEPT ![NewHash(p)].dir = TRUE]
  /\ Goto(p, IF content[NewHash(p)].dir THEN "stat_dupe" ELSE "create")
  /\ UNCHANGED <<snips, lock, op, me>>

\* There is such a clip: how many links has its file?
StatDupe(p) ==
  /\ pc[p] = "stat_dupe"
  /\ LET c == content[NewHash(p)]
     IN  /\ me' = [me EXCEPT ![p].nlink = Cardinality(c.links)]
         /\ Goto(p, IF 1 \in c.links THEN "link" ELSE "fail")
  /\ UNCHANGED <<snips, content, lock, op>>

\* Links named after the old count, and with a number left out.
NewLinkSame(p) == me[p].nlink
NewLinkSkips(p) == me[p].nlink + 2

\* The name of the link cs_content_add() makes.
NewLink(p) == me[p].nlink + 1

Link(p) ==
  /\ pc[p] = "link"
  /\ LET h  == NewHash(p)
         links == content[h].links
     IN  IF 1 \in links /\ NewLink(p) \notin links
         THEN /\ content' =
                   [content EXCEPT ![h].links = @ \union {NewLink(p)}]
              /\ Goto(p, AfterAdd(p))
         ELSE /\ Goto(p, "fail")
              /\ UNCHANGED content
  /\ UNCHANGED <<snips, lock, op, me>>

\* openat(..., O_CREAT | O_EXCL)
Create(p) ==
  /\ pc[p] = "create"
  /\ LET h  == NewHash(p)
     IN  IF content[h].dir /\ 1 \notin content[h].links
         THEN /\ content' = [content EXCEPT ![h].links = @ \union {1},
                                            ![h].data = Empty]
              /\ Goto(p, "write")
         ELSE /\ Goto(p, "fail")
              /\ UNCHANGED content
  /\ UNCHANGED <<snips, lock, op, me>>

\* A write() loop that does not count down what remains.
WriteAgain(p) ==
  /\ pc[p] = "write"
  /\ content' = IF 1 \in content[NewHash(p)].links
                THEN [content EXCEPT ![NewHash(p)].data = me[p].text]
                ELSE content
  /\ UNCHANGED <<snips, lock, pc, op, me>>

\* The write() loop: a first write() may be short.  A file that lost its
\* last name meanwhile is written to all the same, and nobody sees it.
Write(p) ==
  /\ pc[p] = "write"
  /\ \E d \in {Partial, me[p].text} :
       /\ content[NewHash(p)].data = Partial => d = me[p].text
       /\ content' = IF 1 \in content[NewHash(p)].links
                     THEN [content EXCEPT ![NewHash(p)].data = d]
                     ELSE content
       /\ Goto(p, IF d = Partial THEN "write" ELSE AfterAdd(p))
  /\ UNCHANGED <<snips, lock, op, me>>

\* A cs_snip_add() that asks for one snip too many.
GrowTwo(p) ==
  /\ pc[p] = "grow"
  /\ snips' = snips \o <<Fresh(Zero), Fresh(Zero)>>
  /\ Goto(p, "fill")
  /\ UNCHANGED <<content, lock, op, me>>

\* cs_snip_add(): cs_file_resize() makes room, cs_snip_update() fills it.
Grow(p) ==
  /\ pc[p] = "grow"
  /\ snips' = Append(snips, Fresh(Zero))
  /\ Goto(p, "fill")
  /\ UNCHANGED <<content, lock, op, me>>

Fill(p) ==
  /\ pc[p] = "fill"
  /\ snips' = [snips EXCEPT ![Len(snips)] = Fresh(me[p].text)]
  /\ Goto(p, "unlock")
  /\ UNCHANGED <<content, lock, op, me>>

-----------------------------------------------------------------------------
(***************************************************************************)
(* cs_content_remove(), always with the lock: the last link goes, and the  *)
(* directory with the first.                                               *)
(***************************************************************************)
AfterRemove(p) == IF op[p] = "replace" THEN "update" ELSE "doom"

Stat(p) ==
  /\ pc[p] = "stat"
  /\ LET c == content[VictimHash(p)]
     IN  /\ me' = [me EXCEPT ![p].nlink = Cardinality(c.links)]
         /\ Goto(p, IF c.dir /\ 1 \in c.links THEN "unlink" ELSE "fail")
  /\ UNCHANGED <<snips, content, lock, op>>

\* A cs_content_remove() that goes for the first link.
LastLinkFirst(p) == 1

\* The name cs_content_remove() unlinks.
LastLink(p) == me[p].nlink

Unlink(p) ==
  /\ pc[p] = "unlink"
  /\ IF LastLink(p) \in content[VictimHash(p)].links
     THEN /\ content' = [content EXCEPT
                           ![VictimHash(p)].links = @ \ {LastLink(p)}]
          /\ Goto(p, IF me[p].nlink = 1 THEN "rmdir" ELSE AfterRemove(p))
     ELSE /\ Goto(p, "fail")
          /\ UNCHANGED content
  /\ UNCHANGED <<snips, lock, op, me>>

Rmdir(p) ==
  /\ pc[p] = "rmdir"
  /\ IF content[VictimHash(p)].links = {}
     THEN /\ content' = [content EXCEPT ![VictimHash(p)] = NoContent]
          /\ Goto(p, AfterRemove(p))
     ELSE /\ Goto(p, "fail")
          /\ UNCHANGED content
  /\ UNCHANGED <<snips, lock, op, me>>

\* cs_replace() overwrites the snip and then adds its content.
Update(p) ==
  /\ pc[p] = "update"
  /\ snips' = [snips EXCEPT ![Victim(p)] = Fresh(me[p].text)]
  /\ me' = [me EXCEPT ![p].todo = {}]
  /\ Goto(p, "mkdir")
  /\ UNCHANGED <<content, lock, op>>

(***************************************************************************)
(* cs_remove(): doom the victims one by one, close the gaps snip by snip,  *)
(* cut the file.                                                           *)
(***************************************************************************)
Scan(p) ==
  /\ pc[p] = "scan"
  /\ Goto(p, IF me[p].todo = {} THEN "compact" ELSE "stat")
  /\ UNCHANGED <<snips, content, lock, op, me>>

Doom(p) ==
  /\ pc[p] = "doom"
  /\ snips' = [snips EXCEPT ![Victim(p)].doomed = TRUE]
  /\ me' = [me EXCEPT ![p].todo = @ \ {Victim(p)}]
  /\ Goto(p, "scan")
  /\ UNCHANGED <<content, lock, op>>

\* A compaction that moves nothing, and only cuts.
MoveNowhere(p) == me[p].slot

\* Where cs_snip_remove_doomed() moves a snip that stays.
MoveTo(p) == me[p].slot - me[p].gap

\* One round of cs_snip_remove_doomed().
Compact(p) ==
  /\ pc[p] = "compact" /\ me[p].slot <= Len(snips)
  /\ LET s == me[p].slot
     IN  IF snips[s].doomed
         THEN /\ me' = [me EXCEPT ![p].slot = s + 1, ![p].gap = @ + 1]
              /\ UNCHANGED snips
         ELSE /\ me' = [me EXCEPT ![p].slot = s + 1]
              /\ snips' = [snips EXCEPT ![MoveTo(p)] = snips[s]]
  /\ UNCHANGED <<content, lock, pc, op>>

Compacted(p) ==
  /\ pc[p] = "compact" /\ me[p].slot > Len(snips)
  /\ Goto(p, "shrink")
  /\ UNCHANGED <<snips, content, lock, op, me>>

Shrink(p) ==
  /\ pc[p] = "shrink"
  /\ snips' = SubSeq(snips, 1, Len(snips) - me[p].gap)
  /\ Goto(p, "unlock")
  /\ UNCHANGED <<content, lock, op, me>>

-----------------------------------------------------------------------------
\* The process ends, and the kernel releases its flock.
Vanish(p) ==
  /\ lock' = IF lock = p THEN NoProc ELSE lock
  /\ Goto(p, "idle")
  /\ op' = [op EXCEPT ![p] = "none"]
  /\ me' = [me EXCEPT ![p] = AtRest]
  /\ UNCHANGED <<snips, content>>

\* The callers wrap the calls in expect(): an error ends in abort().
Abort(p) == pc[p] \in {"fail", "range"} /\ Vanish(p)

\* SIGKILL, or a system call that fails for good (a full disk) and ends in
\* abort().
Kill(p) ==
  /\ nrKills < MaxKills /\ pc[p] # "idle"
  /\ nrKills' = nrKills + 1
  /\ Vanish(p)
  /\ Remember

Calling ==
  /\ \/ \E t \in Texts : CallAdd(t) \/ CallReplace(t)
     \/ \E n \in 0 .. MaxLen : CallTrim(n)
     \/ \E p \in Deleters : CallRemove(p)
  /\ UNCHANGED nrKills /\ Remember

Locking(p) ==
  /\ LockAdd(p) \/ LockReplace(p) \/ LockTrim(p) \/ LockRemove(p)
  /\ UNCHANGED nrKills /\ Remember

Step(p) ==
  /\ \/ Mkdir(p) \/ StatDupe(p) \/ Link(p) \/ Create(p) \/ Write(p)
     \/ Grow(p) \/ Fill(p)
     \/ Stat(p) \/ Unlink(p) \/ Rmdir(p) \/ Update(p)
     \/ Scan(p) \/ Doom(p) \/ Compact(p) \/ Compacted(p) \/ Shrink(p)
     \/ Unlock(p) \/ Abort(p)
  /\ UNCHANGED nrKills /\ Remember

Next ==
  \/ Calling
  \/ \E p \in Procs : Locking(p) \/ Step(p) \/ Kill(p)

Spec == Init /\ [][Next]_vars

\* As in SnipFile: a call only ever waits in flock(), which is first come,
\* first served.
Fairness == \A p \in Procs : WF_vars(Step(p)) /\ SF_vars(Locking(p))

FairSpec == Spec /\ Fairness

-----------------------------------------------------------------------------
TypeOK ==
  /\ snips \in Seq([text : Texts \union {Zero}, doomed : BOOLEAN])
  /\ Len(snips) <= MaxLen
  /\ content \in [Hashes \union {NoHash} ->
                    [dir : BOOLEAN, links : SUBSET (Nat \ {0}),
                     data : {Empty, Partial} \union Texts]]
  /\ lock \in Procs \union {NoProc}
  /\ pc \in [Procs -> PCs]
  /\ op \in [Procs -> Ops]
  /\ me \in [Procs -> Local]
  /\ nrKills \in 0 .. MaxKills
  /\ raced \in BOOLEAN

\* cs_add() has added the content of h and not yet the snip.
Announced(h) ==
  Cardinality({p \in Procs : /\ op[p] = "add" /\ pc[p] = "wait"
                             /\ NewHash(p) = h})

\* Nobody has been killed, and no addition has overlapped a removal of the
\* same content: up to then the properties below that say so hold.
Undisturbed == nrKills = 0 /\ ~raced

(***************************************************************************)
(* The reference count made of hard links is right: when nobody is inside  *)
(* a locked call, the links of a hash are named 1, 2, ... up to the number *)
(* of its snips (and of the clip that is about to get its snip), the       *)
(* directory is gone with the last, and what is there is a whole text of   *)
(* that hash.  It is what makes a later cs_content_remove() find its name  *)
(* and what makes a deletion delete.  It holds until an addition overlaps  *)
(* a removal of the same content.                                          *)
(***************************************************************************)
ContentMatchesSnips ==
  Undisturbed /\ lock = NoProc =>
    \A h \in Hashes : ~BeingAdded(h) =>
      LET c == content[h]
      IN  /\ c.links = 1 .. (Count(h) + Announced(h))
          /\ c.dir <=> c.links # {}
          /\ c.dir => c.data \in Texts /\ Hash[c.data] = h

\* cs_content_get(): mmap() refuses an empty file.
ContentGet(h) ==
  IF 1 \in content[h].links /\ content[h].data # Empty
  THEN content[h].data ELSE "error"

\* A locked call is at work on snip i.
InWork(i) ==
  \/ snips[i].doomed \/ snips[i].text = Zero
  \/ \E p \in Procs : \/ i \in me[p].todo
                      \/ /\ op[p] = "replace" /\ pc[p] \in Adding
                         /\ i = Len(snips)

(***************************************************************************)
(* clipserve reads content without the lock, at any time: whatever others  *)
(* are doing, a snip that no call is removing or replacing at this moment  *)
(* leads to the whole of a text with its hash (its own, but for collisions *)
(* of djb64_hash(): the content of a hash is that of its first clip).      *)
(***************************************************************************)
SnipsReadable ==
  \A i \in DOMAIN snips :
    LET t == ContentGet(HashOf(snips[i].text))
    IN  ~InWork(i) => t \in Texts /\ Hash[t] = HashOf(snips[i].text)

(***************************************************************************)
(* The same of every state up to the first overlap of an addition with a   *)
(* removal of the same content: a removal that overlaps no addition of     *)
(* that hash, however many of its snips it takes, and every step of a      *)
(* replacement, leave the other snips readable.                            *)
(***************************************************************************)
ReadableUntilRaced == Undisturbed => SnipsReadable

(***************************************************************************)
(* No call meets a content directory it cannot work with (an ENOENT or an  *)
(* EEXIST it aborts on), until an addition overlaps a removal of the same  *)
(* content, also of a snip that is not its last.                           *)
(***************************************************************************)
NoContentError == Undisturbed => \A p \in Procs : pc[p] # "fail"

(***************************************************************************)
(* The snips that stay: of a compaction under way those it has moved and,  *)
(* among the ones it has not looked at, those that are not doomed.         *)
(***************************************************************************)
Compacting == \E p \in Procs : pc[p] \in {"compact", "shrink"}

Staying ==
  IF Compacting
  THEN LET s == me[lock].slot
       IN  {i \in DOMAIN snips : \/ i < s - me[lock].gap
                                 \/ i >= s /\ ~snips[i].doomed}
  ELSE {i \in DOMAIN snips : ~snips[i].doomed}

(***************************************************************************)
(* The log of ClipLog: the texts of the snips, without the snip that is    *)
(* not filled yet; from the start of the compaction on only of those that  *)
(* stay.                                                                   *)
(***************************************************************************)
Increasing(f) == \A i, j \in DOMAIN f : i < j => f[i] < f[j]

InOrder(S) == CHOOSE f \in [1 .. Cardinality(S) -> S] : Increasing(f)

TextsAt(f) == [k \in DOMAIN f |-> snips[f[k]].text]

Filling == \E p \in Procs : pc[p] = "fill"

Committed ==
  CASE Filling    -> [i \in 1 .. Len(snips) - 1 |-> snips[i].text]
    [] Compacting -> TextsAt(InOrder(Staying))
    [] OTHER      -> [i \in DOMAIN snips |-> snips[i].text]

Abstract == INSTANCE ClipLog WITH log <- Committed

\* Seen as a log, the store does what ClipLog does, each call at one instant.
ImplementsLog == Abstract!Spec

(***************************************************************************)
(* cs_remove() removes "those for which the predicate function returns     *)
(* CS_ACTION_REMOVE", and a killed one no others: a live clip stays, or    *)
(* is moved to another place, unless this very clip is marked for removal  *)
(* or replaced, whoever was killed half way through a compaction before,   *)
(* and left doomed snips and copies behind.                                *)
(***************************************************************************)
Live(t) == \E i \in DOMAIN snips : snips[i].text = t /\ ~snips[i].doomed

KeepsOthers ==
  [][\A t \in Texts :
       Live(t) => \/ Live(t)'
                  \/ \E p \in Procs : /\ pc[p] \in {"doom", "update"}
                                       /\ snips[Victim(p)].text = t]_vars

(***************************************************************************)
(* How many steps a call has still to go, at most: a snip to remove takes  *)
(* five, each place of the store one round of the compaction, and write()  *)
(* is called again once.                                                   *)
(***************************************************************************)
AfterVictim(p) ==
  IF op[p] = "replace" THEN 9 ELSE MaxLen + 5 * Cardinality(me[p].todo)

\* The next write() is the last, for it has the rest or nobody sees it.
WrittenInPart(h) == 1 \in content[h].links => content[h].data = Partial

StepsLeft(p) ==
  CASE pc[p] = "idle"    -> 0
    [] pc[p] \in {"unlock", "fail", "range"} -> 1
    [] pc[p] \in {"fill", "shrink"}          -> 2
    [] pc[p] = "grow"    -> 3
    [] pc[p] = "compact" -> 3 + (MaxLen + 1 - me[p].slot)
    [] pc[p] = "wait"    -> CASE op[p] = "add"     -> 4
                              [] op[p] = "replace" -> 13
                              [] OTHER             -> 6 * MaxLen + 5
    [] pc[p] = "link"    -> 5
    [] pc[p] = "write"   -> IF WrittenInPart(NewHash(p)) THEN 5 ELSE 6
    [] pc[p] = "stat_dupe" -> 6
    [] pc[p] = "create"  -> 7
    [] pc[p] = "mkdir"   -> 8
    [] pc[p] \in {"update", "doom"} -> AfterVictim(p)
    [] pc[p] = "rmdir"   -> AfterVictim(p) + 1
    [] pc[p] = "unlink"  -> AfterVictim(p) + 2
    [] pc[p] = "stat"    -> AfterVictim(p) + 3
    [] pc[p] = "scan"    -> AfterVictim(p) + 4

(***************************************************************************)
(* Every call is finite: whatever it does brings it nearer to its end, and *)
(* nothing that others do, or that happens to them, takes it back.  So no  *)
(* loop of the code runs on: not the one over the victims, which cs_trim() *)
(* and clipdel walk in different directions, not the compaction, and not   *)
(* that of write() on a file that is removed meanwhile.                    *)
(***************************************************************************)
CallsShorten ==
  [][\A p \in Procs : pc[p] # "idle" =>
       /\ StepsLeft(p)' <= StepsLeft(p)
       /\ Locking(p) \/ Step(p) => StepsLeft(p)' < StepsLeft(p)]_vars

\* A call that was made returns, or ends its process.
CallsReturn == \A p \in Procs : pc[p] # "idle" ~> pc[p] = "idle"
=============================================================================
