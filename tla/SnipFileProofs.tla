--------------------------- MODULE SnipFileProofs ---------------------------
(***************************************************************************)
(* What SnipFile promises for any number of processes, any batch and any   *)
(* bound on the snips.                                                     *)
(***************************************************************************)
EXTENDS SnipFile, TLAPS

-----------------------------------------------------------------------------
(***************************************************************************)
(* The inductive invariant.                                                *)
(***************************************************************************)
\* The place in the code decides who holds the lock and how often it counts.
LockInv ==
  \A p \in Procs :
    /\ lock = p <=> pc[p] \in Held
    /\ refcount[p] = IF pc[p] = "inner" THEN 2
                     ELSE IF pc[p] \in Held THEN 1 ELSE 0

\* What cs_ref() has established for the call that follows it.
UpToDate(p) == /\ localAlloc[p] = nrAlloc
               /\ nrSnips <= nrAlloc
               /\ FileSize(nrAlloc) <= mapLen[p]

InvReady(p) ==
  MayTouchHeader(p) =>
    /\ fileSize > 0
    /\ FileSize(localAlloc[p]) <= mapLen[p]
    /\ pc[p] # "headerAlloc" => localNr[p] <= localAlloc[p]

InvUpToDate(p) ==
  (\/ pc[p] \in {"iter", "truncate", "remap", "fill"}
   \/ pc[p] \in {"op", "inner"} /\ op[p] # "unlisted") => UpToDate(p)

InvRemap(p) ==
  pc[p] = "remap" => /\ target[p] > nrAlloc
                     /\ fileSize = FileSize(RoundUp(target[p], Batch))

InvHeader(p) ==
  pc[p] = "header" => /\ target[p] < fileSize
                      /\ fileSize <= mapLen[p]
                      /\ target[p] < nrSnips => fileSize = FileSize(target[p])

InvHeaderAlloc(p) ==
  pc[p] = "headerAlloc" => /\ nrSnips = target[p]
                           /\ localNr[p] = target[p]
                           /\ target[p] < fileSize
                           /\ fileSize <= mapLen[p]

CallInv(p) == /\ InvReady(p)  /\ InvUpToDate(p) /\ InvRemap(p)
              /\ InvHeader(p) /\ InvHeaderAlloc(p)

Inv == /\ TypeOK
       /\ LockInv
       /\ \A p \in Procs : CallInv(p)

-----------------------------------------------------------------------------
(***************************************************************************)
(* Rounding up to the batch.                                               *)
(***************************************************************************)
\* round_up() returns at least what it is given.
LEMMA RoundUpBound ==
  ASSUME NEW n \in Nat
  PROVE  RoundUp(n, Batch) \in Nat /\ n <= RoundUp(n, Batch)
<1> DEFINE m == n + Batch - 1
           q == m \div Batch
<1>1. m \in Nat /\ Batch \in Nat /\ Batch > 0
  BY BatchAssumption
<1>2. /\ q \in Nat
      /\ m = Batch * q + (m % Batch)
      /\ m % Batch \in 0 .. (Batch - 1)
  BY <1>1, SMT
<1>3. q * Batch = Batch * q /\ q * Batch \in Nat
  BY <1>1, <1>2, SMT
<1>4. n <= q * Batch
  BY <1>1, <1>2, <1>3, SMT
<1> QED
  BY <1>3, <1>4 DEF RoundUp

-----------------------------------------------------------------------------
(***************************************************************************)
(* One lemma for each conjunct of Inv, one step for each action.           *)
(***************************************************************************)
\* Every step keeps the types.
LEMMA TypeStep == Inv /\ [Next]_vars => TypeOK'
<1> SUFFICES ASSUME Inv, [Next]_vars PROVE TypeOK'
  OBVIOUS
<1> USE NoProcAssumption, BatchAssumption DEF Inv, TypeOK, PCs, Ops, Calls,
        fileVars, csVars, Goto, FileSize
<1>u. CASE UNCHANGED vars
  BY <1>u DEF vars
<1> SUFFICES ASSUME NEW p \in Procs,
                    \/ CallInit(p) \/ CallOp(p) \/ Lock(p)
                    \/ Step(p) \/ Destroy(p) \/ Kill(p)
             PROVE  TypeOK'
  BY <1>u DEF Next
<1>1. CASE CallInit(p)
  BY <1>1 DEF CallInit
<1>2. CASE CallOp(p)
  BY <1>2 DEF CallOp
<1>3. CASE Lock(p)
  BY <1>3 DEF Lock, TakeRef, LockInv, Held
<1>4. CASE InitExtend(p)
  BY <1>4 DEF InitExtend
<1>5. CASE InitMap(p)
  BY <1>5 DEF InitMap
<1>6. CASE RefSeen(p)
  BY <1>6 DEF RefSeen
<1>7. CASE RefUpdate(p)
  BY <1>7 DEF RefUpdate, Mremap
<1>8. CASE RefFail(p)
  BY <1>8 DEF RefFail
<1>9. CASE BeginAdd(p)
  BY <1>9 DEF BeginAdd
<1>10. CASE BeginRemove(p)
  BY <1>10 DEF BeginRemove
<1>11. CASE InPlace(p)
  BY <1>11 DEF InPlace
<1>12. CASE ListRefInner(p)
  BY <1>12 DEF ListRefInner, TakeRef, LockInv, Held
<1>13. CASE ListUnrefInner(p)
  BY <1>13 DEF ListUnrefInner, DropRef, LockInv, Held
<1>14. CASE ListIterate(p)
  BY <1>14 DEF ListIterate
<1>15. CASE ResizeInAlloc(p)
  BY <1>15 DEF ResizeInAlloc, Resized, AfterResize
<1>16. CASE ResizeTruncate(p)
  BY <1>16, RoundUpBound DEF ResizeTruncate, NewAlloc
<1>17. CASE ResizeRemap(p)
  <2>1. torn' \in BOOLEAN
    BY <1>17, Zenon DEF ResizeRemap
  <2> QED
    BY <1>17, <2>1, RoundUpBound DEF ResizeRemap, Mremap, NewAlloc
<1>18. CASE ResizeHeader(p)
  BY <1>18 DEF ResizeHeader
<1>19. CASE ResizeHeaderAlloc(p)
  BY <1>19 DEF ResizeHeaderAlloc, Resized, AfterResize, InvHeaderAlloc, CallInv
<1>20. CASE AddFill(p)
  BY <1>20 DEF AddFill
<1>21. CASE Unref(p)
  BY <1>21 DEF Unref, DropRef, LockInv, Held
<1>22. CASE Exit(p)
  BY <1>22 DEF Exit, Vanish
<1>23. CASE Destroy(p)
  BY <1>23 DEF Destroy
<1>24. CASE Kill(p)
  BY <1>24 DEF Kill, Vanish
<1> QED
  BY <1>1, <1>2, <1>3, <1>4, <1>5, <1>6, <1>7, <1>8, <1>9, <1>10, <1>11,
     <1>12, <1>13, <1>14, <1>15, <1>16, <1>17, <1>18, <1>19, <1>20, <1>21,
     <1>22, <1>23, <1>24
     DEF Step

\* Every step keeps the lock and the count in agreement.
LEMMA LockStep == Inv /\ [Next]_vars => LockInv'
<1> SUFFICES ASSUME Inv, [Next]_vars PROVE LockInv'
  OBVIOUS
<1> USE NoProcAssumption, BatchAssumption DEF Inv, TypeOK, PCs, Ops, Calls,
        fileVars, csVars, Goto, LockInv, Held
<1>u. CASE UNCHANGED vars
  BY <1>u DEF vars
<1> SUFFICES ASSUME NEW p \in Procs,
                    \/ CallInit(p) \/ CallOp(p) \/ Lock(p)
                    \/ Step(p) \/ Destroy(p) \/ Kill(p)
             PROVE  LockInv'
  BY <1>u DEF Next
<1>1. CASE CallInit(p)
  BY <1>1 DEF CallInit
<1>2. CASE CallOp(p)
  BY <1>2 DEF CallOp
<1>3. CASE Lock(p)
  BY <1>3 DEF Lock, TakeRef
<1>4. CASE InitExtend(p)
  BY <1>4 DEF InitExtend
<1>5. CASE InitMap(p)
  BY <1>5 DEF InitMap
<1>6. CASE RefSeen(p)
  BY <1>6 DEF RefSeen
<1>7. CASE RefUpdate(p)
  BY <1>7 DEF RefUpdate, Mremap
<1>8. CASE RefFail(p)
  BY <1>8 DEF RefFail
<1>9. CASE BeginAdd(p)
  BY <1>9 DEF BeginAdd
<1>10. CASE BeginRemove(p)
  BY <1>10 DEF BeginRemove
<1>11. CASE InPlace(p)
  BY <1>11 DEF InPlace
<1>12. CASE ListRefInner(p)
  BY <1>12 DEF ListRefInner, TakeRef
<1>13. CASE ListUnrefInner(p)
  BY <1>13 DEF ListUnrefInner, DropRef
<1>14. CASE ListIterate(p)
  BY <1>14 DEF ListIterate
<1>15. CASE ResizeInAlloc(p)
  BY <1>15 DEF ResizeInAlloc, Resized, AfterResize
<1>16. CASE ResizeTruncate(p)
  BY <1>16 DEF ResizeTruncate, NewAlloc
<1>17. CASE ResizeRemap(p)
  BY <1>17 DEF ResizeRemap, Mremap, NewAlloc
<1>18. CASE ResizeHeader(p)
  BY <1>18 DEF ResizeHeader
<1>19. CASE ResizeHeaderAlloc(p)
  BY <1>19 DEF ResizeHeaderAlloc, Resized, AfterResize
<1>20. CASE AddFill(p)
  BY <1>20 DEF AddFill
<1>21. CASE Unref(p)
  BY <1>21 DEF Unref, DropRef
<1>22. CASE Exit(p)
  BY <1>22 DEF Exit, Vanish
<1>23. CASE Destroy(p)
  BY <1>23 DEF Destroy
<1>24. CASE Kill(p)
  BY <1>24 DEF Kill, Vanish
<1> QED
  BY <1>1, <1>2, <1>3, <1>4, <1>5, <1>6, <1>7, <1>8, <1>9, <1>10, <1>11,
     <1>12, <1>13, <1>14, <1>15, <1>16, <1>17, <1>18, <1>19, <1>20, <1>21,
     <1>22, <1>23, <1>24
     DEF Step

\* Every step keeps what the calls rely on.
LEMMA CallStep == Inv /\ [Next]_vars => (\A q \in Procs : CallInv(q))'
<1> SUFFICES ASSUME Inv, [Next]_vars PROVE (\A q \in Procs : CallInv(q))'
  OBVIOUS
<1> USE NoProcAssumption, BatchAssumption DEF Inv, TypeOK, PCs, Ops, Calls,
        fileVars, csVars, Goto, CallInv, InvReady, InvUpToDate, InvRemap,
        InvHeader, InvHeaderAlloc, UpToDate, MayTouchHeader, LockInv, Held,
        FileSize
<1>u. CASE UNCHANGED vars
  BY <1>u DEF vars
<1> SUFFICES ASSUME NEW p \in Procs,
                    \/ CallInit(p) \/ CallOp(p) \/ Lock(p)
                    \/ Step(p) \/ Destroy(p) \/ Kill(p)
             PROVE  (\A q \in Procs : CallInv(q))'
  BY <1>u DEF Next
<1>1. CASE CallInit(p)
  BY <1>1 DEF CallInit
<1>2. CASE CallOp(p)
  BY <1>2 DEF CallOp
<1>3. CASE Lock(p)
  BY <1>3 DEF Lock, TakeRef
<1>4. CASE InitExtend(p)
  BY <1>4 DEF InitExtend
<1>5. CASE InitMap(p)
  BY <1>5 DEF InitMap, HeaderValid
<1>6. CASE RefSeen(p)
  BY <1>6 DEF RefSeen, HeaderChanged
<1>7. CASE RefUpdate(p)
  BY <1>7 DEF RefUpdate, Mremap, HeaderChanged, HeaderValid
<1>8. CASE RefFail(p)
  BY <1>8 DEF RefFail
<1>9. CASE BeginAdd(p)
  BY <1>9 DEF BeginAdd
<1>10. CASE BeginRemove(p)
  BY <1>10 DEF BeginRemove
<1>11. CASE InPlace(p)
  BY <1>11 DEF InPlace
<1>12. CASE ListRefInner(p)
  BY <1>12 DEF ListRefInner, TakeRef
<1>13. CASE ListUnrefInner(p)
  BY <1>13 DEF ListUnrefInner, DropRef
<1>14. CASE ListIterate(p)
  BY <1>14 DEF ListIterate
<1>15. CASE ResizeInAlloc(p)
  BY <1>15 DEF ResizeInAlloc, Resized, AfterResize, FitsAlloc, Grows
<1>16. CASE ResizeTruncate(p)
  BY <1>16, RoundUpBound DEF ResizeTruncate, NewAlloc, FitsAlloc, Grows
<1>17. CASE ResizeRemap(p)
  BY <1>17, RoundUpBound DEF ResizeRemap, Mremap, NewAlloc, Grows
<1>18. CASE ResizeHeader(p)
  BY <1>18 DEF ResizeHeader
<1>19. CASE ResizeHeaderAlloc(p)
  BY <1>19 DEF ResizeHeaderAlloc, Resized, AfterResize
<1>20. CASE AddFill(p)
  BY <1>20 DEF AddFill
<1>21. CASE Unref(p)
  BY <1>21 DEF Unref, DropRef
<1>22. CASE Exit(p)
  BY <1>22 DEF Exit, Vanish
<1>23. CASE Destroy(p)
  BY <1>23 DEF Destroy
<1>24. CASE Kill(p)
  BY <1>24 DEF Kill, Vanish
<1> QED
  BY <1>1, <1>2, <1>3, <1>4, <1>5, <1>6, <1>7, <1>8, <1>9, <1>10, <1>11,
     <1>12, <1>13, <1>14, <1>15, <1>16, <1>17, <1>18, <1>19, <1>20, <1>21,
     <1>22, <1>23, <1>24
     DEF Step

-----------------------------------------------------------------------------
(***************************************************************************)
(* What follows from the invariant, whatever fails and whoever is killed.  *)
(***************************************************************************)
LEMMA InvInit == Init => Inv
<1> SUFFICES ASSUME Init PROVE Inv
  OBVIOUS
<1>1. torn \in BOOLEAN
  BY Zenon DEF Init
<1>2. TypeOK
  BY <1>1 DEF Init, TypeOK, PCs, Ops
<1>3. LockInv
  BY NoProcAssumption DEF Init, LockInv, Held
<1>4. \A p \in Procs : CallInv(p)
  BY DEF Init, CallInv, InvReady, InvUpToDate, InvRemap, InvHeader,
         InvHeaderAlloc, MayTouchHeader
<1> QED
  BY <1>2, <1>3, <1>4 DEF Inv

\* Inv is an invariant of the specification.
THEOREM Invariance == Spec => []Inv
<1>1. Inv /\ [Next]_vars => Inv'
  <2> SUFFICES ASSUME Inv, [Next]_vars PROVE Inv'
    OBVIOUS
  <2>1. TypeOK'
    BY TypeStep
  <2>2. LockInv'
    BY LockStep
  <2>3. (\A q \in Procs : CallInv(q))'
    BY CallStep
  <2> QED
    BY <2>1, <2>2, <2>3 DEF Inv
<1> QED
  BY InvInit, <1>1, PTL DEF Spec

\* The variables keep their types: counts stay natural numbers (no header
\* count is ever computed from a file shorter than a header) and a process
\* never counts more than two references.
THEOREM TypeCorrect == Spec => []TypeOK
<1>1. Inv => TypeOK
  BY DEF Inv
<1> QED
  BY Invariance, <1>1, PTL

\* cs_ref_no_update() and cs_unref() keep the flock and the reference count
\* in agreement, so at most one process is inside a call.
THEOREM MutualExclusion == Spec => []LockedWhileReferenced
<1>1. Inv => LockedWhileReferenced
  <2> SUFFICES ASSUME Inv, NEW p \in Procs
               PROVE  refcount[p] > 0 <=> lock = p
    BY DEF LockedWhileReferenced
  <2>1. CASE pc[p] \in Held
    BY <2>1 DEF Inv, LockInv
  <2>2. CASE pc[p] \notin Held
    BY <2>2 DEF Inv, LockInv, Held
  <2> QED
    BY <2>1, <2>2
<1> QED
  BY Invariance, <1>1, PTL

\* mremap() and munmap() are never asked for more than is mapped.
THEOREM LocalMapping == Spec => []MapCoversLocal
<1>1. Inv => MapCoversLocal
  BY DEF Inv, CallInv, InvReady, InvUpToDate, UpToDate, MapCoversLocal
<1> QED
  BY Invariance, <1>1, PTL

\* A call never lowers the count of snips before it has cut the file.
THEOREM ShrinkIsExact == Spec => ShrinkCutsFile
<1>1. Inv /\ [Next]_vars
        => [nrSnips' < nrSnips => fileSize' = FileSize(nrSnips')]_vars
  <2> SUFFICES ASSUME Inv, Next, nrSnips' < nrSnips
               PROVE  fileSize' = FileSize(nrSnips')
    OBVIOUS
  <2> PICK p \in Procs : \/ CallInit(p) \/ CallOp(p) \/ Lock(p)
                        \/ Step(p) \/ Destroy(p) \/ Kill(p)
    BY DEF Next
  <2> USE DEF Inv, TypeOK, fileVars
  <2>1. CASE ResizeInAlloc(p)
    BY <2>1 DEF ResizeInAlloc, FitsAlloc, Grows
  <2>2. CASE ResizeHeader(p)
    BY <2>2 DEF ResizeHeader, CallInv, InvHeader
  <2>3. ResizeInAlloc(p) \/ ResizeHeader(p) \/ UNCHANGED nrSnips
    BY DEF Step, CallInit, CallOp, Lock, Destroy, Kill, InitExtend, InitMap,
           RefSeen, RefUpdate, RefFail, BeginAdd, BeginRemove, InPlace,
           ListRefInner, ListUnrefInner, ListIterate, ResizeTruncate,
           ResizeRemap, ResizeHeaderAlloc, AddFill, Unref, Exit
  <2> QED
    BY <2>1, <2>2, <2>3
<1> QED
  BY Invariance, <1>1, PTL DEF Spec, ShrinkCutsFile

-----------------------------------------------------------------------------
(***************************************************************************)
(* What holds until a process leaves cs_file_resize() for good between     *)
(* ftruncate() and the last store to the header.                           *)
(***************************************************************************)
Acceptable == \/ fileSize = 0 /\ nrSnips = 0 /\ nrAlloc = 0
              \/ HeaderValid(fileSize)

FileInv == ~torn /\ (\A p \in Procs : pc[p] \notin Resizing) => Acceptable

\* Every step leaves a file the next call accepts.
LEMMA FileStep == Inv /\ FileInv /\ [Next]_vars => FileInv'
<1> SUFFICES ASSUME Inv, FileInv, [Next]_vars PROVE FileInv'
  OBVIOUS
<1> USE NoProcAssumption, BatchAssumption DEF Inv, TypeOK, PCs, Ops, Calls,
        fileVars, csVars, Goto, FileSize, LockInv, Held, FileInv, Resizing,
        Acceptable, HeaderValid
<1>u. CASE UNCHANGED vars
  BY <1>u DEF vars
<1> SUFFICES ASSUME NEW p \in Procs,
                    \/ CallInit(p) \/ CallOp(p) \/ Lock(p)
                    \/ Step(p) \/ Destroy(p) \/ Kill(p)
             PROVE  FileInv'
  BY <1>u DEF Next
<1>1. CASE CallInit(p)
  BY <1>1 DEF CallInit
<1>2. CASE CallOp(p)
  BY <1>2 DEF CallOp
<1>3. CASE Lock(p)
  BY <1>3 DEF Lock, TakeRef
<1>4. CASE InitExtend(p)
  BY <1>4 DEF InitExtend
<1>5. CASE InitMap(p)
  BY <1>5 DEF InitMap
<1>6. CASE RefSeen(p)
  BY <1>6 DEF RefSeen
<1>7. CASE RefUpdate(p)
  BY <1>7 DEF RefUpdate, Mremap
<1>8. CASE RefFail(p)
  BY <1>8 DEF RefFail
<1>9. CASE BeginAdd(p)
  BY <1>9 DEF BeginAdd
<1>10. CASE BeginRemove(p)
  BY <1>10 DEF BeginRemove
<1>11. CASE InPlace(p)
  BY <1>11 DEF InPlace
<1>12. CASE ListRefInner(p)
  BY <1>12 DEF ListRefInner, TakeRef
<1>13. CASE ListUnrefInner(p)
  BY <1>13 DEF ListUnrefInner, DropRef
<1>14. CASE ListIterate(p)
  BY <1>14 DEF ListIterate
<1>15. CASE ResizeInAlloc(p)
  BY <1>15 DEF ResizeInAlloc, Resized, AfterResize, FitsAlloc, Grows
<1>16. CASE ResizeTruncate(p)
  BY <1>16 DEF ResizeTruncate, NewAlloc
<1>17. CASE ResizeRemap(p)
  BY <1>17 DEF ResizeRemap, Mremap, NewAlloc
<1>18. CASE ResizeHeader(p)
  BY <1>18 DEF ResizeHeader
<1>19. CASE ResizeHeaderAlloc(p)
  BY <1>19 DEF ResizeHeaderAlloc, Resized, AfterResize, CallInv, InvHeaderAlloc
<1>20. CASE AddFill(p)
  BY <1>20 DEF AddFill
<1>21. CASE Unref(p)
  BY <1>21 DEF Unref, DropRef
<1>22. CASE Exit(p)
  BY <1>22 DEF Exit, Vanish
<1>23. CASE Destroy(p)
  BY <1>23 DEF Destroy
<1>24. CASE Kill(p)
  BY <1>24 DEF Kill, Vanish
<1> QED
  BY <1>1, <1>2, <1>3, <1>4, <1>5, <1>6, <1>7, <1>8, <1>9, <1>10, <1>11,
     <1>12, <1>13, <1>14, <1>15, <1>16, <1>17, <1>18, <1>19, <1>20, <1>21,
     <1>22, <1>23, <1>24
     DEF Step

LEMMA FileInvariance == Spec => []FileInv
<1>1. Init => FileInv
  BY DEF Init, FileInv, Acceptable
<1> QED
  BY Invariance, <1>1, FileStep, PTL DEF Spec

\* Whenever the lock is free, the next cs_init() or cs_ref() accepts the file.
THEOREM FileStaysValid == Spec => []FileValidUntorn
<1>1. Inv /\ FileInv => FileValidUntorn
  BY NoProcAssumption
     DEF Inv, LockInv, Held, FileInv, Resizing, Acceptable,
         FileValidWhenUnlocked, FileValidUntorn
<1> QED
  BY Invariance, FileInvariance, <1>1, PTL

\* No access through a mapping leaves the mapping or the file.
THEOREM AccessesStayInBounds == Spec => []AccessInBounds
<1>1. Inv /\ FileInv => AccessInBounds
  <2> SUFFICES ASSUME Inv, FileInv, ~torn, NEW p \in Procs
               PROVE  /\ TouchesSnips(p) => FileSize(nrSnips) <= mapLen[p]
                      /\ TouchesSnips(p) => FileSize(nrSnips) <= fileSize
                      /\ MayTouchHeader(p) => mapLen[p] > 0 /\ fileSize > 0
    BY DEF AccessInBounds
  <2> USE DEF Inv, TypeOK, FileSize
  <2>1. MayTouchHeader(p) => mapLen[p] > 0 /\ fileSize > 0
    BY DEF CallInv, InvReady
  <2>2. TouchesSnips(p) => UpToDate(p) /\ fileSize > 0
    BY DEF TouchesSnips, MayTouchHeader, CallInv, InvReady, InvUpToDate
  <2>3. TouchesSnips(p) => Acceptable
    BY DEF TouchesSnips, LockInv, Held, FileInv, Resizing
  <2> QED
    BY <2>1, <2>2, <2>3 DEF UpToDate, Acceptable, HeaderValid
<1> QED
  BY Invariance, FileInvariance, <1>1, PTL

=============================================================================
