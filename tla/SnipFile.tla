------------------------------ MODULE SnipFile ------------------------------
(***************************************************************************)
(* The snip file of the clip store (src/store.c): one file shared by every *)
(* clipmenu program, its header (nr_snips, nr_snips_alloc), the flock()    *)
(* that guards it, and for each process its `struct clip_store`: the lock  *)
(* reference count, the header values it last saw and the length of its    *)
(* mapping.                                                                *)
(*                                                                         *)
(* Lengths are counted in records of CS_SNIP_SIZE bytes; record 0 is the   *)
(* header and snip i (from 0) is record i + 1.  What a snip holds is the   *)
(* business of ClipStore; here it only matters which snips are touched.    *)
(*                                                                         *)
(* A system call that changes the file is a step of its own, so that a     *)
(* process can die between any two of them.                                *)
(***************************************************************************)
EXTENDS Naturals

CONSTANTS
  Procs,     \* the processes that use the library
  NoProc,    \* no process
  Batch,     \* CS_SNIP_ALLOC_BATCH, 1024 in the code
  MaxSnips,  \* bound: cs_add() is not called on a file that holds this many
  Kills,     \* may a process be killed at any point?
  Faults     \* the system calls that may fail: "ftruncate", "mmap", "mremap"

ASSUME NoProcAssumption   == NoProc \notin Procs
ASSUME BatchAssumption    == Batch \in Nat \ {0}
ASSUME MaxSnipsAssumption == MaxSnips \in Nat
ASSUME FaultAssumption    ==
  /\ Kills \in BOOLEAN
  /\ Faults \subseteq {"ftruncate", "mmap", "mremap"}

VARIABLES
  fileSize,    \* st_size of the snip file, in records
  nrSnips,     \* header->nr_snips (0 in an empty file)
  nrAlloc,     \* header->nr_snips_alloc (0 in an empty file)
  lock,        \* the process whose open file holds the flock, or NoProc
  pc, op,      \* what each process is doing, and in which library call
  target,      \* the new_nr_snips a process passed to cs_file_resize()
  refcount,    \* cs->refcount
  localNr,     \* cs->local_nr_snips
  localAlloc,  \* cs->local_nr_snips_alloc
  mapLen,      \* records mapped from cs->header on
  torn         \* history: did a process leave cs_file_resize() for good
               \* between ftruncate() and the last store to the header?

fileVars == <<fileSize, nrSnips, nrAlloc>>
csVars   == <<localNr, localAlloc, mapLen>>
vars     == <<fileVars, lock, pc, op, target, refcount, csVars, torn>>

(***************************************************************************)
(* "down": no such process, or it has not called cs_init().  "wait":       *)
(* blocked in flock().  "fail": a call returned a negative value;          *)
(* but for clipmenu's cs_ref(), the callers wrap the calls in expect(), so *)
(* abort() is next.                                                        *)
(***************************************************************************)
PCs == {"down", "wait", "extend", "map", "idle", "ref", "op", "inner", "iter",
        "truncate", "remap", "header", "headerAlloc", "fill", "unref", "fail",
        "destroyed"}

Calls == {"add", "replace", "remove", "list"}

\* "unlisted": to list snips with a guard that has an error.
Ops == {"none", "init", "unlisted"} \union Calls

Held == {"extend", "map", "ref", "op", "inner", "iter", "truncate", "remap",
         "header", "headerAlloc", "fill", "unref", "fail"}

Goto(p, l) == pc' = [pc EXCEPT ![p] = l]

\* Leave cs_file_resize(): its argument goes out of scope.
Resized(p, l) == /\ Goto(p, l)
                 /\ target' = [target EXCEPT ![p] = 0]

-----------------------------------------------------------------------------
(***************************************************************************)
(* Helpers of store.c.                                                     *)
(***************************************************************************)
\* A cs_file_size() that forgets the header.
FileSizeNoHeader(n) == n

\* cs_file_size(), in records.
FileSize(n) == n + 1

\* A round_up() that rounds down.
RoundUpTruncated(n, step) == (n \div step) * step

RoundUp(n, step) == ((n + step - 1) \div step) * step

\* cs_header_validate()
HeaderValid(size) == /\ nrSnips <= nrAlloc
                     /\ FileSize(nrAlloc) = size

Grows(n) == n >= nrSnips

\* A resize that batches a shrink, too.
NewAllocBatched(n) == RoundUp(n, Batch)

NewAlloc(n) == IF Grows(n) THEN RoundUp(n, Batch) ELSE n

\* An mremap() to a length without the header.
MremapNoHeader(p, new) == mapLen' = [mapLen EXCEPT ![p] = new]

\* mremap(), in cs_ref() and in cs_file_resize().
Mremap(p, new) == mapLen' = [mapLen EXCEPT ![p] = FileSize(new)]

\* A cs_ref_no_update() that counts without flock().
TakeRefNoFlock(p) ==
  /\ lock' = p
  /\ refcount' = [refcount EXCEPT ![p] = @ + 1]

\* cs_ref_no_update(): flock() on the first reference, then count it.
TakeRef(p) ==
  /\ refcount[p] = 0 => lock = NoProc
  /\ lock' = p
  /\ refcount' = [refcount EXCEPT ![p] = @ + 1]

\* A cs_unref() that never gives up the last reference.
DropRefButOne(p) ==
  /\ refcount' = [refcount EXCEPT ![p] = IF @ > 1 THEN @ - 1 ELSE @]
  /\ lock' = lock

\* cs_unref()
DropRef(p) ==
  /\ refcount' = [refcount EXCEPT ![p] = @ - 1]
  /\ lock' = IF refcount[p] = 1 THEN NoProc ELSE lock

\* What the kernel takes back from a process that ends: its lock, its memory.
Vanish(p) ==
  /\ Goto(p, "down")
  /\ op' = [op EXCEPT ![p] = "none"]
  /\ target' = [target EXCEPT ![p] = 0]
  /\ localNr' = [localNr EXCEPT ![p] = 0]
  /\ localAlloc' = [localAlloc EXCEPT ![p] = 0]
  /\ lock' = IF lock = p THEN NoProc ELSE lock
  /\ refcount' = [refcount EXCEPT ![p] = 0]
  /\ mapLen' = [mapLen EXCEPT ![p] = 0]

-----------------------------------------------------------------------------
Init ==
  /\ fileSize = 0 /\ nrSnips = 0 /\ nrAlloc = 0
  /\ lock = NoProc
  /\ pc = [p \in Procs |-> "down"]
  /\ op = [p \in Procs |-> "none"]
  /\ target = [p \in Procs |-> 0]
  /\ refcount = [p \in Procs |-> 0]
  /\ localNr = [p \in Procs |-> 0]
  /\ localAlloc = [p \in Procs |-> 0]
  /\ mapLen = [p \in Procs |-> 0]
  /\ torn = FALSE

(***************************************************************************)
(* Calling into the library, and getting the lock.                         *)
(***************************************************************************)
\* main() of a program reaches cs_init().
CallInit(p) ==
  /\ pc[p] = "down"
  /\ Goto(p, "wait")
  /\ op' = [op EXCEPT ![p] = "init"]
  /\ UNCHANGED <<fileVars, lock, target, refcount, csVars, torn>>

\* A program calls cs_snip_add(), cs_replace(), cs_remove() or lists snips.
CallOp(p) ==
  /\ pc[p] = "idle"
  /\ Goto(p, "wait")
  /\ \E o \in Calls :
       /\ o = "add" => nrSnips < MaxSnips
       /\ op' = [op EXCEPT ![p] = o]
  /\ UNCHANGED <<fileVars, lock, target, refcount, csVars, torn>>

\* flock() returns.
Lock(p) ==
  /\ pc[p] = "wait"
  /\ TakeRef(p)
  /\ Goto(p, IF op[p] = "init" THEN "extend" ELSE "ref")
  /\ UNCHANGED <<fileVars, op, target, csVars, torn>>

\* cs_unref() when the guard of the call goes out of scope.
Unref(p) ==
  /\ pc[p] = "unref"
  /\ DropRef(p)
  /\ Goto(p, "idle")
  /\ op' = [op EXCEPT ![p] = "none"]
  /\ UNCHANGED <<fileVars, target, csVars, torn>>

(***************************************************************************)
(* cs_init().                                                              *)
(***************************************************************************)
\* An empty file is extended to one zeroed record, the header.
InitExtend(p) ==
  /\ pc[p] = "extend"
  /\ \/ /\ fileSize = 0
        /\ fileSize' = FileSize(0)
        /\ Goto(p, "map")
     \/ /\ fileSize # 0
        /\ Goto(p, "map")
        /\ UNCHANGED fileSize
     \/ /\ fileSize = 0 /\ "ftruncate" \in Faults
        /\ Goto(p, "fail")
        /\ UNCHANGED fileSize
  /\ UNCHANGED <<nrSnips, nrAlloc, lock, op, target, refcount, csVars,
                 torn>>

\* The whole file is mapped and its header validated.
InitMap(p) ==
  /\ pc[p] = "map"
  /\ \/ /\ HeaderValid(fileSize)
        /\ mapLen' = [mapLen EXCEPT ![p] = fileSize]
        /\ localNr' = [localNr EXCEPT ![p] = nrSnips]
        /\ localAlloc' = [localAlloc EXCEPT ![p] = nrAlloc]
        /\ Goto(p, "unref")
     \/ /\ ~HeaderValid(fileSize) \/ "mmap" \in Faults
        /\ Goto(p, "fail")
        /\ UNCHANGED <<localNr, localAlloc, mapLen>>
  /\ UNCHANGED <<fileVars, lock, op, target, refcount, torn>>

(***************************************************************************)
(* cs_ref(), outermost reference: revalidate and remap if the header is    *)
(* not the one last seen.                                                  *)
(***************************************************************************)
\* A cs_ref() that compares only the number of snips.
HeaderChangedNrOnly(p) == localNr[p] # nrSnips

HeaderChanged(p) == localNr[p] # nrSnips \/ localAlloc[p] # nrAlloc

RefSeen(p) ==
  /\ pc[p] = "ref"
  /\ ~HeaderChanged(p)
  /\ Goto(p, "op")
  /\ UNCHANGED <<fileVars, lock, op, target, refcount, csVars, torn>>

RefUpdate(p) ==
  /\ pc[p] = "ref"
  /\ HeaderChanged(p)
  /\ HeaderValid(fileSize)
  /\ \/ /\ localAlloc[p] < nrAlloc
        /\ Mremap(p, nrAlloc)
     \/ /\ localAlloc[p] >= nrAlloc
        /\ UNCHANGED mapLen
  /\ localNr' = [localNr EXCEPT ![p] = nrSnips]
  /\ localAlloc' = [localAlloc EXCEPT ![p] = nrAlloc]
  /\ Goto(p, "op")
  /\ UNCHANGED <<fileVars, lock, op, target, refcount, torn>>

\* clipmenu does not look at the guard's status and goes on to cs_len(), whose
\* inner cs_ref() succeeds; cs_snip_iter() does look, and yields no snip.
RefFail(p) ==
  /\ pc[p] = "ref"
  /\ HeaderChanged(p)
  /\ \/ ~HeaderValid(fileSize)
     \/ localAlloc[p] < nrAlloc /\ "mremap" \in Faults
  /\ \/ /\ op[p] = "list"
        /\ Goto(p, "op")
        /\ op' = [op EXCEPT ![p] = "unlisted"]
     \/ /\ op[p] # "list"
        /\ Goto(p, "fail")
        /\ UNCHANGED op
  /\ UNCHANGED <<fileVars, lock, target, refcount, csVars, torn>>

-----------------------------------------------------------------------------
(***************************************************************************)
(* The calls, under the lock.                                              *)
(***************************************************************************)
\* cs_snip_add() asks for one snip more.
BeginAdd(p) ==
  /\ pc[p] = "op" /\ op[p] = "add"
  /\ target' = [target EXCEPT ![p] = nrSnips + 1]
  /\ Goto(p, "truncate")
  /\ UNCHANGED <<fileVars, lock, op, refcount, csVars, torn>>

\* cs_remove() has gone through the snips, doomed some and compacted the rest.
BeginRemove(p) ==
  /\ pc[p] = "op" /\ op[p] = "remove"
  /\ \E kept \in 0 .. nrSnips :
       /\ kept < nrSnips
       /\ target' = [target EXCEPT ![p] = kept]
  /\ Goto(p, "truncate")
  /\ UNCHANGED <<fileVars, lock, op, refcount, csVars, torn>>

(***************************************************************************)
(* The calls that leave the header alone: cs_remove() when the predicate   *)
(* wants no snip removed, and cs_replace(), which overwrites a snip in     *)
(* place or returns -ERANGE.                                               *)
(***************************************************************************)
InPlace(p) ==
  /\ pc[p] = "op" /\ op[p] \in {"remove", "replace"}
  /\ Goto(p, "unref")
  /\ UNCHANGED <<fileVars, lock, op, target, refcount, csVars, torn>>

\* clipmenu holds a reference and calls cs_len(), which takes an inner one.
ListRefInner(p) ==
  /\ pc[p] = "op" /\ op[p] \in {"list", "unlisted"}
  /\ TakeRef(p)
  /\ Goto(p, "inner")
  /\ UNCHANGED <<fileVars, op, target, csVars, torn>>

ListUnrefInner(p) ==
  /\ pc[p] = "inner"
  /\ DropRef(p)
  /\ Goto(p, IF op[p] = "list" THEN "iter" ELSE "unref")
  /\ UNCHANGED <<fileVars, op, target, csVars, torn>>

\* clipmenu goes through every snip with cs_snip_iter().
ListIterate(p) ==
  /\ pc[p] = "iter"
  /\ Goto(p, "unref")
  /\ UNCHANGED <<fileVars, lock, op, target, refcount, csVars, torn>>

(***************************************************************************)
(* cs_file_resize().                                                       *)
(***************************************************************************)
Resizing == {"remap", "header", "headerAlloc"}

AfterResize(p) == IF op[p] = "add" THEN "fill" ELSE "unref"

FitsAlloc(p) == Grows(target[p]) /\ target[p] <= nrAlloc

\* There is room in the batch: only the header's count changes.
ResizeInAlloc(p) ==
  /\ pc[p] = "truncate"
  /\ FitsAlloc(p)
  /\ nrSnips' = target[p]
  /\ Resized(p, AfterResize(p))
  /\ UNCHANGED <<fileSize, nrAlloc, lock, op, refcount, csVars, torn>>

ResizeTruncate(p) ==
  /\ pc[p] = "truncate"
  /\ ~FitsAlloc(p)
  /\ \/ /\ fileSize' = FileSize(NewAlloc(target[p]))
        /\ Goto(p, IF Grows(target[p]) THEN "remap" ELSE "header")
     \/ /\ "ftruncate" \in Faults
        /\ Goto(p, "fail")
        /\ UNCHANGED fileSize
  /\ UNCHANGED <<nrSnips, nrAlloc, lock, op, target, refcount, csVars,
                 torn>>

ResizeRemap(p) ==
  /\ pc[p] = "remap"
  /\ \/ /\ Mremap(p, NewAlloc(target[p]))
        /\ Goto(p, "header")
        /\ UNCHANGED torn
     \/ /\ "mremap" \in Faults
        /\ Goto(p, "fail")
        /\ torn' = TRUE
        /\ UNCHANGED mapLen
  /\ UNCHANGED <<fileVars, lock, op, target, refcount, localNr, localAlloc>>

(***************************************************************************)
(* header->nr_snips and then header->nr_snips_alloc.  fileSize is that of  *)
(* the ftruncate() before, so FileSize(new_nr_snips_alloc) is fileSize.    *)
(***************************************************************************)
ResizeHeader(p) ==
  /\ pc[p] = "header"
  /\ nrSnips' = target[p]
  /\ localNr' = [localNr EXCEPT ![p] = target[p]]
  /\ Goto(p, "headerAlloc")
  /\ UNCHANGED <<fileSize, nrAlloc, lock, op, target, refcount, localAlloc,
                 mapLen, torn>>

ResizeHeaderAlloc(p) ==
  /\ pc[p] = "headerAlloc"
  /\ nrAlloc' = fileSize - 1
  /\ localAlloc' = [localAlloc EXCEPT ![p] = fileSize - 1]
  /\ Resized(p, AfterResize(p))
  /\ UNCHANGED <<fileSize, nrSnips, lock, op, refcount, localNr, mapLen,
                 torn>>

\* cs_snip_add() writes the snip it made room for.
AddFill(p) ==
  /\ pc[p] = "fill"
  /\ Goto(p, "unref")
  /\ UNCHANGED <<fileVars, lock, op, target, refcount, csVars, torn>>

-----------------------------------------------------------------------------
(***************************************************************************)
(* The end of a process.                                                   *)
(***************************************************************************)
\* cs_destroy(), as main() returns; it asks munmap() for FileSize(localAlloc).
Destroy(p) ==
  /\ pc[p] = "idle"
  /\ mapLen' = [mapLen EXCEPT ![p] = 0]
  /\ Goto(p, "destroyed")
  /\ UNCHANGED <<fileVars, lock, op, target, refcount, localNr, localAlloc,
                 torn>>

\* main() returns, or expect() aborts on the error a call returned.
Exit(p) ==
  /\ pc[p] \in {"destroyed", "fail"}
  /\ Vanish(p)
  /\ UNCHANGED <<fileVars, torn>>

\* SIGKILL, at any point.
Kill(p) ==
  /\ Kills
  /\ pc[p] # "down"
  /\ Vanish(p)
  /\ torn' = (torn \/ pc[p] \in Resizing)
  /\ UNCHANGED fileVars

Step(p) ==
  \/ InitExtend(p) \/ InitMap(p)
  \/ RefSeen(p) \/ RefUpdate(p) \/ RefFail(p)
  \/ BeginAdd(p) \/ BeginRemove(p) \/ InPlace(p)
  \/ ListRefInner(p) \/ ListUnrefInner(p) \/ ListIterate(p)
  \/ ResizeInAlloc(p) \/ ResizeTruncate(p) \/ ResizeRemap(p)
  \/ ResizeHeader(p) \/ ResizeHeaderAlloc(p)
  \/ AddFill(p) \/ Unref(p) \/ Exit(p)

Next == \E p \in Procs :
  CallInit(p) \/ CallOp(p) \/ Lock(p) \/ Step(p) \/ Destroy(p) \/ Kill(p)

Spec == Init /\ [][Next]_vars

(***************************************************************************)
(* Nothing in the library waits but flock(), so a process inside a call    *)
(* keeps going (WF).  Linux queues the waiters of a flock first in, first  *)
(* out, so a process that waits while the lock is free over and over gets  *)
(* it (SF).  Nobody has to call the library, to exit or to be killed.      *)
(***************************************************************************)
Fairness == \A p \in Procs : WF_vars(Step(p)) /\ SF_vars(Lock(p))

FairSpec == Spec /\ Fairness

-----------------------------------------------------------------------------
TypeOK ==
  /\ fileSize \in Nat /\ nrSnips \in Nat /\ nrAlloc \in Nat
  /\ lock \in Procs \union {NoProc}
  /\ pc \in [Procs -> PCs]
  /\ op \in [Procs -> Ops]
  /\ target \in [Procs -> Nat]
  /\ refcount \in [Procs -> 0 .. 2]
  /\ localNr \in [Procs -> Nat]
  /\ localAlloc \in [Procs -> Nat]
  /\ mapLen \in [Procs -> Nat]
  /\ torn \in BOOLEAN

(***************************************************************************)
(* The reference count and the flock agree: a process that counts a        *)
(* reference holds the lock (so no two do), and the lock is never left     *)
(* held by a process that counts none (so nobody waits for ever for it).   *)
(* cs_ref_no_update() and cs_unref(), nested references included.          *)
(***************************************************************************)
LockedWhileReferenced == \A p \in Procs : refcount[p] > 0 <=> lock = p

\* The states of a call in which it reads or writes snips 0 .. nr_snips - 1.
TouchesSnips(p) ==
  \/ pc[p] \in {"iter", "fill"}
  \/ pc[p] = "op" /\ op[p] \in {"remove", "replace"}

\* Programs that hold a ready store may read the header without the lock.
MayTouchHeader(p) ==
  /\ pc[p] \notin {"down", "extend", "map", "fail", "destroyed"}
  /\ ~(pc[p] = "wait" /\ op[p] = "init")

(***************************************************************************)
(* No access through the mapping leaves it or goes past the end of the     *)
(* file (SIGSEGV, SIGBUS), whatever other processes did to the file since  *)
(* this one last mapped it: cs_ref() catches up before any snip is touched *)
(* and the header cs_trim() reads without the lock is always there.  (Until*)
(* a process dies inside cs_file_resize(): a file cut that way is shorter  *)
(* than a header that nobody has a reason to validate again.)              *)
(***************************************************************************)
AccessInBounds ==
  ~torn => \A p \in Procs :
    /\ TouchesSnips(p) => FileSize(nrSnips) <= mapLen[p]
    /\ TouchesSnips(p) => FileSize(nrSnips) <= fileSize
    /\ MayTouchHeader(p) => mapLen[p] > 0 /\ fileSize > 0

(***************************************************************************)
(* Whenever nobody holds the lock, the next cs_init() or cs_ref() accepts  *)
(* the file: it is empty or cs_header_validate() holds of it.              *)
(***************************************************************************)
FileValidWhenUnlocked == lock = NoProc => fileSize = 0 \/ HeaderValid(fileSize)

(***************************************************************************)
(* The same until a process dies, or fails, inside cs_file_resize(), and   *)
(* whatever dies or fails elsewhere: calls that run to their end leave a   *)
(* file that the next one accepts.                                         *)
(***************************************************************************)
FileValidUntorn == ~torn => FileValidWhenUnlocked

(***************************************************************************)
(* A process never passes mremap() or munmap() more than it has mapped     *)
(* from cs->header on: neither cs_ref() and cs_destroy(), which go by the  *)
(* local counts, nor cs_file_resize(), which goes by the header, whatever  *)
(* other processes did to it and whatever dies or fails around it.         *)
(***************************************************************************)
MapCoversLocal ==
  \A p \in Procs :
    /\ MayTouchHeader(p) => FileSize(localAlloc[p]) <= mapLen[p]
    /\ pc[p] = "remap" => FileSize(nrAlloc) <= mapLen[p]

(***************************************************************************)
(* cs_file_resize(): "someone may be deleting sensitive snips and so it's  *)
(* best to remove them immediately".  The count never goes down before the *)
(* file has been cut right behind the last snip kept.                      *)
(***************************************************************************)
ShrinkCutsFile == [][nrSnips' < nrSnips => fileSize' = FileSize(nrSnips')]_vars

(***************************************************************************)
(* A call that waits for the lock gets it and returns: nobody keeps the    *)
(* lock for ever and nobody is passed over for ever.                       *)
(***************************************************************************)
CallsReturn ==
  \A p \in Procs : pc[p] = "wait" ~> pc[p] \in {"idle", "down"}
=============================================================================
