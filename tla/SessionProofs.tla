--------------------------- MODULE SessionProofs ----------------------------
(***************************************************************************)
(* What a session adds to its clipserve processes: nothing that Clipserve  *)
(* does not have, so that what is proved of them there holds in a session, *)
(* for any number of menus, clips, kills and so on.                        *)
(***************************************************************************)
EXTENDS Session, ClipserveProofs, FiniteSetTheorems, SequenceTheorems

\* What clipserve needs of the store: contents that cs_content_get() knows of,
\* and a clip that clipmenud stores.
AddPCs == {"idle", "write", "lock", "grow", "fill"}

StoreInv ==
  /\ adding \in [at : AddPCs, text : Texts \union {Zero}]
  /\ content \in [Texts -> Contents]
  /\ adding.at = "idle" \/ adding.text \in Texts

SessionInv == StoreInv /\ ServeInv

LEMMA SessionInit == Init => SessionInv
<1> SUFFICES ASSUME Init
             PROVE  SessionInv
  OBVIOUS
<1>1. StoreInv
  BY DEF Init, MenuInit, StoreInv, Contents, AddPCs
<1> QED
  BY <1>1, InvInit DEF Init, SessionInv

\* Every step of a session is one of Clipserve, or none of its concern.
LEMMA SessionStep ==
  ASSUME SessionInv, [Next]_vars
  PROVE  [ServeNext]_serveVars
<1>1. Hashes = Texts /\ NoHash = Zero /\ Servers = Menus \union {Clipmenud}
  BY SessionAssumption
<1>2. ASSUME NEW p \in Servers, NEW h \in Texts \union {Zero}, Launch(p, h)
      PROVE  ServeNext
  BY <1>1, <1>2 DEF ServeNext
<1>3. CASE MenuOnly
  BY <1>3 DEF MenuOnly
<1>4. CASE ServeOnly
  BY <1>4 DEF ServeOnly, ServeNext
<1>5. CASE StoreAndServe
  <2>1. adding.text \in Texts
    BY <1>5 DEF StoreAndServe, AddFill, SessionInv, StoreInv
  <2> QED
    BY <1>1, <1>2, <1>5, <2>1 DEF StoreAndServe
<1>6. ASSUME NEW m \in Menus, ChooseAndServe(m)
      PROVE  ServeNext
  BY <1>1, <1>2, <1>6 DEF ChooseAndServe
<1>7. ASSUME NEW p \in Servers, FetchContent(p)
      PROVE  ServeNext
  <2>1. hash[p] \in Texts \union {NoHash}
    BY <1>1 DEF SessionInv, ServeInv, ServeTypeOK
  <2> DEFINE c == IF hash[p] = NoHash THEN "none" ELSE content[hash[p]]
  <2>2. c \in {"none", "empty", "partial", "whole"}
    BY <2>1 DEF SessionInv, StoreInv, Contents
  <2>3. Fetch(p, c)
    BY <1>7 DEF FetchContent
  <2> HIDE DEF c
  <2> QED
    BY <2>2, <2>3 DEF ServeNext
<1>8. CASE UNCHANGED vars
  BY <1>8 DEF vars
<1> QED
  BY <1>3, <1>4, <1>5, <1>6, <1>7, <1>8 DEF Next

\* What the others do to the store.
LEMMA StoreStep ==
  ASSUME SessionInv, [Next]_vars
  PROVE  StoreInv'
<1> USE DEF AddPCs, StoreInv, storeVars, menuVars, listVars, userVars
<1>1. StoreInv
  BY DEF SessionInv
<1>2. CASE MenuOnly
  <2>1. ASSUME NEW t \in Texts, AddContent(t)
        PROVE  StoreInv'
    BY <1>1, <2>1 DEF AddContent, FirstOfAdd, Contents
  <2>2. CASE AddWrite
    BY <1>1, <2>2 DEF AddWrite, AddGoto, Contents
  <2>3. CASE AddLock \/ AddGrow \/ KillClipmenud
    BY <1>1, <2>3 DEF AddLock, AddGrow, KillClipmenud, AddGoto, Contents
  <2>4. ASSUME NEW S \in SUBSET DOMAIN snips, RemoveClips(S)
        PROVE  StoreInv'
    <3>1. /\ \E gone : content' = [t \in Texts |-> IF t \in gone THEN "none"
                                                   ELSE content[t]]
          /\ UNCHANGED adding
      BY <2>4 DEF RemoveClips
    <3> QED
      BY <1>1, <3>1 DEF Contents
  <2>5. ASSUME NEW m \in Menus,
               \/ LauncherReads(m) \/ LauncherExits(m) \/ MenuStart(m)
               \/ MenuLock(m) \/ MenuStep(m) \/ KillMenu(m)
        PROVE  StoreInv'
    <3>1. UNCHANGED <<content, adding>>
      BY <2>5 DEF LauncherReads, LauncherExits, MenuStart, MenuLock, MenuStep,
                  KillMenu, ListClip, ListZeroed, BrokenPipe, MenuUnref,
                  NoChoice, End
    <3> QED
      BY <1>1, <3>1
  <2> QED
    BY <1>2, <2>1, <2>2, <2>3, <2>4, <2>5 DEF MenuOnly, Others
<1>3. CASE ServeOnly
  BY <1>1, <1>3 DEF ServeOnly
<1>4. CASE StoreAndServe
  BY <1>1, <1>4 DEF StoreAndServe, AddFill
<1>5. ASSUME NEW m \in Menus, ChooseAndServe(m)
      PROVE  StoreInv'
  BY <1>1, <1>5 DEF ChooseAndServe, MenuChoice
<1>6. ASSUME NEW p \in Servers, FetchContent(p)
      PROVE  StoreInv'
  BY <1>1, <1>6 DEF FetchContent
<1>7. CASE UNCHANGED vars
  BY <1>1, <1>7 DEF vars
<1> QED
  BY <1>2, <1>3, <1>4, <1>5, <1>6, <1>7 DEF Next

LEMMA SessionInvariance == Spec => []SessionInv
<1>1. SessionInv /\ [Next]_vars => SessionInv'
  BY SessionStep, StoreStep, InvStep DEF SessionInv
<1> QED
  BY <1>1, SessionInit, PTL DEF Spec

(***************************************************************************)
(* A session implements Clipserve: whatever clipmenu and clipmenud launch  *)
(* and whatever clipserve finds in the store is what Clipserve allows for. *)
(***************************************************************************)
THEOREM SessionImplementsClipserve == Spec => ServeSpec
<1>1. Init => ServeInit
  BY DEF Init
<1>2. SessionInv /\ [Next]_vars => [ServeNext]_serveVars
  BY SessionStep
<1> QED
  BY <1>1, <1>2, SessionInvariance, PTL DEF Spec, ServeSpec

\* Clips that users choose, and clips of clipmenud, are served until another
\* window has taken both selections.
THEOREM SessionServesUntilLost == Spec => []ServesUntilLost
BY SessionImplementsClipserve, ServersServeUntilLost, PTL

-----------------------------------------------------------------------------
(***************************************************************************)
(* Proof that a session serves what its user has chosen (ChosenIsServed),  *)
(* for any number of menus, clips, additions, removals and kills.          *)
(*                                                                         *)
(* A property of the end of a session needs to be followed through it: the *)
(* content of every clip that is in the store is there (Present), so it is *)
(* when the clip is listed, and from then on only removals that `removed`  *)
(* records take it away; the table agrees with what was shown; and what    *)
(* clipserve is launched with is not touched before it ends.               *)
(***************************************************************************)
\* The content of t is there, or may be half there because of a kill.
Present(t) == content[t] = "whole" \/ t \in leaked

StoreFull ==
  /\ snips \in Seq(Texts \union {Zero})
  /\ \A i \in DOMAIN snips : snips[i] # Zero => Present(snips[i])
  /\ adding.at \in {"lock", "grow", "fill"} => Present(adding.text)
  /\ \A t \in Texts : content[t] \in {"empty", "partial"} =>
       t \in leaked \/ (adding.at = "write" /\ adding.text = t)
  /\ adding.at \in {"grow", "fill"} => lock = Clipmenud
  /\ adding.at = "fill" => snips # <<>>

MenuVarsTyped ==
  /\ DOMAIN mpc = Menus /\ DOMAIN clips = Menus /\ DOMAIN clipIdx = Menus
  /\ DOMAIN table = Menus /\ DOMAIN shown = Menus /\ DOMAIN launcher = Menus
  /\ DOMAIN output = Menus /\ DOMAIN removed = Menus

\* What clipmenu m has listed, by what is known at each place.
Listed(m) ==
  /\ mpc[m] \in {"iter", "unref"} => lock = m
  /\ mpc[m] \in {"off", "lock", "ended"} => DOMAIN shown[m] = {}
  /\ mpc[m] = "iter" => /\ clips[m] = Len(snips)
                        /\ clipIdx[m] \in 1 .. clips[m]
                        /\ DOMAIN shown[m] = clipIdx[m] + 1 .. clips[m]
  /\ mpc[m] \in {"unref", "read"} => DOMAIN shown[m] \in {{}, 1 .. clips[m]}

TableShown(m) ==
  /\ table[m] = shown[m]
  /\ \A i \in DOMAIN shown[m] :
       /\ shown[m][i] \in Texts
       /\ Present(shown[m][i]) \/ shown[m][i] \in removed[m]

Running(m) == pc[m] \notin {"off", "done", "aborted", "X error"}

Launched(m) ==
  /\ pc[m] # "off" => mpc[m] = "served"
  /\ mpc[m] = "served" => launcher[m] # "running"

\* ChosenIsServed, of m.
Served(m) ==
  (Running(m) /\ DOMAIN shown[m] # {}) =>
    /\ output[m] \in DOMAIN shown[m] /\ hash[m] = shown[m][output[m]]
    /\ pc[m] # "open" /\ hash[m] \notin removed[m] \union leaked =>
         data[m] = "whole"

MenuInv(m) == Listed(m) /\ TableShown(m) /\ Launched(m) /\ Served(m)

ChosenInv ==
  SessionInv /\ StoreFull /\ MenuVarsTyped /\ \A m \in Menus : MenuInv(m)

\* Every clip of an earlier session is whole, and no menu has begun.
LEMMA ChosenInit == Init => ChosenInv
<1> SUFFICES ASSUME Init
             PROVE  ChosenInv
  OBVIOUS
<1> USE DEF Init, MenuInit, ServeInit
<1>1. SessionInv
  BY SessionInit
<1>2. StoreFull
  <2>1. /\ snips \in Seq(Texts \union {Zero})
        /\ \A i \in DOMAIN snips :
             snips[i] \in Texts /\ snips[i] \in Range(snips)
    BY StoredAssumption DEF Range
  <2>2. \A t \in Range(snips) : t \in Texts /\ t \notin leaked
    BY <2>1 DEF Range
  <2>3. ASSUME NEW t \in Texts
        PROVE  /\ t \in Range(snips) => content[t] = "whole"
               /\ content[t] \in {"empty", "partial"} => t \in leaked
    BY <2>2
  <2> QED
    BY <2>1, <2>2, <2>3 DEF StoreFull, Present
<1>3. MenuVarsTyped
  BY DEF MenuVarsTyped
<1>4. ASSUME NEW m \in Menus
      PROVE  MenuInv(m)
  BY SessionAssumption
     DEF MenuInv, Listed, TableShown, Launched, Served, Running
<1> QED
  BY <1>1, <1>2, <1>3, <1>4 DEF ChosenInv

-----------------------------------------------------------------------------
(***************************************************************************)
(* What a step may do without a menu m being concerned by it.              *)
(***************************************************************************)
\* Its clipserve goes on, or ends.
ServerFrame(m) ==
  \/ pc'[m] = pc[m] /\ hash'[m] = hash[m] /\ data'[m] = data[m]
  \/ /\ pc[m] \notin {"off", "open"} /\ pc'[m] \notin {"off", "open"}
     /\ \/ pc'[m] \in {"done", "aborted", "X error"}
        \/ Running(m) /\ hash'[m] = hash[m] /\ data'[m] = data[m]

\* It has listed what it had listed, unless it had not begun to.
ListFrame(m) ==
  /\ mpc'[m] = mpc[m] /\ clips'[m] = clips[m] /\ clipIdx'[m] = clipIdx[m]
  /\ table'[m] = table[m] /\ shown'[m] = shown[m]
  /\ \/ output'[m] = output[m] /\ launcher'[m] = launcher[m]
     \/ mpc[m] # "served"

\* The store keeps what the menu may still need.
StoreFrame(m) ==
  /\ lock = m => lock' = m
  /\ mpc[m] = "iter" => Len(snips') = Len(snips)
  /\ leaked \subseteq leaked'
  /\ DOMAIN shown[m] # {} =>
       /\ removed[m] \subseteq removed'[m]
       /\ \A t \in Texts : Present(t) => Present(t)' \/ t \in removed'[m]

\* Then what is known of m stays true.
LEMMA MenuFrame ==
  ASSUME NEW m \in Menus, MenuInv(m),
         ServerFrame(m), ListFrame(m), StoreFrame(m)
  PROVE  MenuInv(m)'
<1> USE DEF MenuInv
<1>1. Listed(m)'
  BY DEF Listed, ListFrame, StoreFrame
<1>2. TableShown(m)'
  BY DEF TableShown, ListFrame, StoreFrame
<1>3. Launched(m)'
  BY DEF Launched, ListFrame, ServerFrame
<1>4. Served(m)'
  <2>1. SUFFICES ASSUME Running(m)', DOMAIN shown[m]' # {}
                 PROVE  /\ output[m]' \in DOMAIN shown[m]'
                        /\ hash[m]' = shown[m]'[output[m]']
                        /\ pc[m]' # "open"
                             /\ hash[m]' \notin removed[m]' \union leaked'
                             => data[m]' = "whole"
    BY DEF Served
  <2>2. /\ Running(m) /\ hash[m]' = hash[m] /\ data[m]' = data[m]
        /\ pc[m]' = "open" <=> pc[m] = "open"
    BY <2>1 DEF ServerFrame, Running
  <2>3. output[m]' = output[m] /\ shown[m]' = shown[m]
    BY <2>2 DEF ListFrame, Launched, Running
  <2> QED
    BY <2>1, <2>2, <2>3 DEF Served, StoreFrame
<1> QED
  BY <1>1, <1>2, <1>3, <1>4

\* What a clipserve does after it has opened its clip.
LEMMA ServeSteps ==
  ASSUME ServeTypeOK, NEW p \in Servers, ServeStep(p), NEW m \in Servers
  PROVE  ServerFrame(m)
<1> USE DEF ServeTypeOK, ServeGoto, Exit, ServerFrame, Running
<1>1. CASE TakeSelection(p)
  BY <1>1 DEF TakeSelection
<1>2. CASE CheckOwner(p)
  <2>1. pc[p] = "check"
    BY <1>2 DEF CheckOwner
  <2>2. \/ /\ \E l \in {"loop", "take"} : pc' = [pc EXCEPT ![p] = l]
           /\ UNCHANGED <<hash, data>>
        \/ Exit(p, "aborted")
    BY <1>2 DEF CheckOwner
  <2> QED
    BY <2>1, <2>2
<1>3. ASSUME NEW k \in Kinds, HandleRequest(p, k)
      PROVE  ServerFrame(m)
  BY <1>3 DEF HandleRequest, Handles
<1>4. CASE HandleClear(p)
  BY <1>4 DEF HandleClear, Handles
<1>5. CASE FatalXError(p) \/ CloseDisplay(p) \/ Unmap(p)
  BY <1>5 DEF FatalXError, CloseDisplay, Unmap
<1> QED
  BY <1>1, <1>2, <1>3, <1>4, <1>5 DEF ServeStep

-----------------------------------------------------------------------------
(***************************************************************************)
(* The steps of the others: the store stays as it should be (StoreFull),   *)
(* and no menu is concerned.                                               *)
(***************************************************************************)
Harmless == StoreFull' /\ \A m \in Menus : StoreFrame(m)

\* cs_content_add() and the lock: nothing is taken away.
LEMMA AddSteps ==
  ASSUME ChosenInv,
         \/ \E t \in Texts : AddContent(t)
         \/ AddWrite \/ AddLock \/ KillClipmenud
  PROVE  Harmless
<1>1. StoreInv /\ StoreFull /\ \A m \in Menus : Listed(m)
  BY DEF ChosenInv, SessionInv, MenuInv
<1>2. Free # Clipmenud /\ \A m \in Menus : m # Free /\ m # Clipmenud
  BY HolderAssumption
<1>0. \A i \in DOMAIN snips : snips[i] # Zero => snips[i] \in Texts
  BY <1>1 DEF StoreFull
<1> USE <1>1, <1>2 DEF StoreFrame, Present, StoreInv, Harmless, AddPCs
<1>3. ASSUME NEW t \in Texts, AddContent(t)
      PROVE  Harmless
  <2>1. /\ content' = [content EXCEPT ![t] = IF @ = "none" THEN "empty" ELSE @]
        /\ adding.at = "idle"
        /\ adding' = [at |-> FirstOfAdd(t), text |-> t]
        /\ UNCHANGED <<snips, lock, leaked, mpc, shown, removed>>
    BY <1>3 DEF AddContent, listVars
  <2>2. \A u \in Texts : /\ content[u] = "whole" => content'[u] = "whole"
                         /\ content'[u] \in {"empty", "partial"} =>
                              u \in leaked \/ (u = t /\ content[u] = "none")
    BY <2>1 DEF StoreFull
  <2>3. /\ adding'.at = FirstOfAdd(t) /\ adding'.text = t
        /\ FirstOfAdd(t) \in {"write", "lock"}
        /\ FirstOfAdd(t) = "lock" => content[t] # "none"
    BY <2>1 DEF FirstOfAdd
  <2>5. FirstOfAdd(t) = "lock" => Present(t)'
    <3>1. content[t] \in {"empty", "partial"} => t \in leaked
      BY <2>1 DEF StoreFull
    <3> QED
      BY <2>1, <2>2, <2>3, <3>1 DEF Contents
  <2>4. StoreFull'
    <3>1. \A u \in Texts : content'[u] \in {"empty", "partial"} =>
            u \in leaked' \/ (adding'.at = "write" /\ adding'.text = u)
      BY <2>1, <2>2, <2>3 DEF FirstOfAdd
    <3>2. \A i \in DOMAIN snips' : snips'[i] # Zero => Present(snips[i])'
      <4>1. \A u \in Texts : Present(u) => Present(u)'
        BY <2>1, <2>2
      <4>2. \A i \in DOMAIN snips : snips[i] # Zero => Present(snips[i])
        BY DEF StoreFull
      <4> HIDE DEF Present
      <4> QED
        BY <1>0, <2>1, <4>1, <4>2
    <3> QED
      BY <2>1, <2>3, <2>5, <3>1, <3>2 DEF StoreFull
  <2> QED
    BY <2>1, <2>2, <2>4
<1>4. CASE AddWrite
  <2>1. /\ adding.at = "write"
        /\ \/ /\ content' = [content EXCEPT ![adding.text] = "whole"]
              /\ adding' = [adding EXCEPT !.at = "lock"]
           \/ /\ content[adding.text] = "empty"
              /\ content' = [content EXCEPT ![adding.text] = "partial"]
              /\ UNCHANGED adding
        /\ UNCHANGED <<snips, lock, leaked, mpc, shown, removed>>
    BY <1>4 DEF AddWrite, AddGoto, listVars
  <2>2. adding.text \in Texts
    BY <2>1
  <2>3. \A u \in Texts : content[u] = "whole" => content'[u] = "whole"
    BY <2>1, <2>2
  <2>4. StoreFull'
    <3>1. \A u \in Texts : content'[u] \in {"empty", "partial"} =>
            u \in leaked' \/ (adding'.at = "write" /\ adding'.text = u)
      BY <2>1, <2>2 DEF StoreFull
    <3>2. \A i \in DOMAIN snips' : snips'[i] # Zero => Present(snips[i])'
      <4>1. \A u \in Texts : Present(u) => Present(u)'
        BY <2>1, <2>3
      <4>2. \A i \in DOMAIN snips : snips[i] # Zero => Present(snips[i])
        BY DEF StoreFull
      <4> HIDE DEF Present
      <4> QED
        BY <1>0, <2>1, <4>1, <4>2
    <3>3. adding'.at \in {"write", "lock"} /\ adding'.text = adding.text
      BY <2>1
    <3>4. adding'.at = "lock" => Present(adding.text)'
      BY <2>1, <2>2
    <3> QED
      BY <2>1, <3>1, <3>2, <3>3, <3>4 DEF StoreFull
  <2> QED
    BY <2>1, <2>3, <2>4
<1>5. CASE AddLock
  <2>1. /\ adding.at = "lock" /\ lock = Free /\ lock' = Clipmenud
        /\ adding' = [adding EXCEPT !.at = "grow"]
        /\ UNCHANGED <<snips, content, leaked, mpc, shown, removed>>
    BY <1>5 DEF AddLock, AddGoto, listVars
  <2>2. adding'.text = adding.text /\ adding'.at = "grow"
    BY <2>1
  <2> QED
    BY <2>1, <2>2 DEF StoreFull
<1>6. CASE KillClipmenud
  <2>1. /\ adding' = [at |-> "idle", text |-> Zero]
        /\ lock' = IF lock = Clipmenud THEN Free ELSE lock
        /\ leaked' = leaked \union {adding.text}
        /\ UNCHANGED <<snips, content, mpc, shown, removed>>
    BY <1>6 DEF KillClipmenud, listVars
  <2> QED
    BY <2>1 DEF StoreFull
<1> QED
  BY <1>3, <1>4, <1>5, <1>6

\* The snip that cs_snip_add() adds is zero at first,
LEMMA GrowStep ==
  ASSUME ChosenInv, AddGrow
  PROVE  Harmless
<1>1. StoreInv /\ StoreFull /\ \A m \in Menus : Listed(m)
  BY DEF ChosenInv, SessionInv, MenuInv
<1>2. /\ adding.at = "grow" /\ lock = Clipmenud
      /\ adding'.at = "fill" /\ adding'.text = adding.text
      /\ snips' = Append(snips, Zero)
      /\ UNCHANGED <<content, lock, leaked, mpc, shown, removed>>
  BY <1>1 DEF AddGrow, AddGoto, listVars, StoreFull, StoreInv
<1>3. /\ DOMAIN snips' = 1 .. Len(snips') /\ Len(snips') = Len(snips) + 1
      /\ \A i \in DOMAIN snips' :
           snips'[i] = IF i \in DOMAIN snips THEN snips[i] ELSE Zero
  BY <1>1, <1>2 DEF StoreFull
<1>4. \A m \in Menus : lock # m
  BY <1>2, HolderAssumption
<1>5. StoreFull'
  BY <1>1, <1>2, <1>3 DEF StoreFull, Present
<1> QED
  BY <1>1, <1>2, <1>4, <1>5 DEF Harmless, StoreFrame, Listed, Present

\* and gets the hash of a content that is there by then.
LEMMA FillStep ==
  ASSUME ChosenInv, AddFill
  PROVE  Harmless
<1>1. StoreInv /\ StoreFull /\ \A m \in Menus : Listed(m)
  BY DEF ChosenInv, SessionInv, MenuInv
<1>2. /\ adding.at = "fill" /\ lock = Clipmenud /\ adding.text \in Texts
      /\ Present(adding.text) /\ lock' = Free
      /\ adding'.at = "idle"
      /\ snips' = [snips EXCEPT ![Len(snips)] = adding.text]
      /\ UNCHANGED <<content, leaked, mpc, shown, removed>>
  BY <1>1 DEF AddFill, listVars, StoreFull, StoreInv
<1>3. /\ snips' \in Seq(Texts \union {Zero}) /\ Len(snips') = Len(snips)
      /\ \A i \in DOMAIN snips' :
           snips'[i] = IF i = Len(snips) THEN adding.text ELSE snips[i]
  <2>1. snips \in Seq(Texts \union {Zero}) /\ Len(snips) \in 1 .. Len(snips)
    BY <1>1, <1>2 DEF StoreFull
  <2> QED
    BY <1>2, <2>1, ExceptSeq
<1>4. \A m \in Menus : lock # m
  BY <1>2, HolderAssumption
<1>5. StoreFull'
  BY <1>1, <1>2, <1>3 DEF StoreFull, Present
<1> QED
  BY <1>1, <1>2, <1>4, <1>5 DEF Harmless, StoreFrame, Listed, Present

\* cs_remove(): a content goes only if no snip is left for it, and `removed`
\* tells every menu that has listed its clips.
LEMMA RemoveStep ==
  ASSUME ChosenInv, NEW S \in SUBSET DOMAIN snips, RemoveClips(S)
  PROVE  Harmless
<1>1. StoreInv /\ StoreFull /\ \A m \in Menus : Listed(m)
  BY DEF ChosenInv, SessionInv, MenuInv
<1> DEFINE gone == {t \in {snips[i] : i \in S} \ leaked :
                      \A i \in DOMAIN snips \ S : snips[i] # t}
           n == Len(snips) - Cardinality(S)
<1>2. /\ lock = Free /\ \A i \in S : snips[i] # adding.text
      /\ content' = [t \in Texts |-> IF t \in gone THEN "none" ELSE content[t]]
      /\ removed' = [m \in Menus |->
                      IF mpc[m] \in {"off", "lock", "ended"} THEN {}
                      ELSE removed[m] \union gone]
      /\ UNCHANGED <<lock, adding, leaked, mpc, shown>>
  BY DEF RemoveClips, listVars
<1>3. PICK kept \in Kept(S) : snips' = [j \in DOMAIN kept |-> snips[kept[j]]]
  BY DEF RemoveClips
<1>4. n \in Nat
  <2>1. /\ IsFiniteSet(DOMAIN snips) /\ Cardinality(DOMAIN snips) = Len(snips)
        /\ Len(snips) \in Nat
    BY <1>1, FS_Interval DEF StoreFull
  <2>2. Cardinality(S) \in Nat /\ Cardinality(S) <= Len(snips)
    BY <2>1, FS_Subset, FS_CardinalityType
  <2> QED
    BY <2>1, <2>2
<1>5. kept \in [1 .. n -> DOMAIN snips \ S]
  BY DEF Kept
<1> HIDE DEF n
<1>6. /\ snips' \in Seq(Texts \union {Zero})
      /\ \A j \in DOMAIN snips' :
           \E i \in DOMAIN snips \ S : snips'[j] = snips[i]
  BY <1>1, <1>3, <1>4, <1>5 DEF StoreFull
<1>7. \A i \in DOMAIN snips \ S : snips[i] \notin gone
  OBVIOUS
<1>8. adding.text \notin gone
  BY <1>2
<1>9. \A t \in Texts : Present(t) => Present(t)' \/ t \in gone
  BY <1>2 DEF Present
<1> HIDE DEF gone
<1>10. StoreFull'
  <2>1. \A j \in DOMAIN snips' : snips'[j] # Zero => Present(snips[j])'
    <3>1. \A i \in DOMAIN snips : snips[i] # Zero =>
            snips[i] \in Texts /\ Present(snips[i])
      BY <1>1 DEF StoreFull
    <3>2. SUFFICES ASSUME NEW j \in DOMAIN snips', snips'[j] # Zero
                   PROVE  Present(snips[j])'
      OBVIOUS
    <3>3. PICK i \in DOMAIN snips \ S : snips'[j] = snips[i]
      BY <1>6
    <3>4. Present(snips[i]) /\ snips[i] \in Texts /\ snips[i] \notin gone
      BY <1>7, <3>1, <3>2, <3>3
    <3>5. content'[snips[i]] = "whole" \/ snips[i] \in leaked'
      BY <1>2, <3>4 DEF Present
    <3> QED
      BY <3>3, <3>5 DEF Present
  <2>2. adding'.at \in {"lock", "grow", "fill"} => Present(adding.text)'
    <3>1. adding.at # "idle" => adding.text \in Texts
      BY <1>1 DEF StoreInv
    <3>2. adding.at \in {"lock", "grow", "fill"} => Present(adding.text)
      BY <1>1 DEF StoreFull
    <3> QED
      BY <1>2, <1>8, <3>1, <3>2 DEF Present
  <2>3. \A t \in Texts : content'[t] \in {"empty", "partial"} =>
          t \in leaked' \/ (adding'.at = "write" /\ adding'.text = t)
    BY <1>1, <1>2 DEF StoreFull
  <2>4. adding'.at \notin {"grow", "fill"}
    BY <1>1, <1>2, HolderAssumption DEF StoreFull
  <2> QED
    BY <1>6, <2>1, <2>2, <2>3, <2>4 DEF StoreFull
<1>11. ASSUME NEW m \in Menus
       PROVE  StoreFrame(m)
  <2>1. mpc[m] # "iter" /\ (lock = m => lock' = m)
    BY <1>1, <1>2, HolderAssumption DEF Listed
  <2>2. DOMAIN shown[m] # {} => removed'[m] = removed[m] \union gone
    BY <1>1, <1>2 DEF Listed
  <2> QED
    BY <1>2, <1>9, <2>1, <2>2 DEF StoreFrame
<1> QED
  BY <1>10, <1>11 DEF Harmless

-----------------------------------------------------------------------------
(***************************************************************************)
(* The steps of a menu n and of its launcher.                              *)
(***************************************************************************)
\* They concern n, and the lock as far as n takes it or gives it up.
OnlyOf(n) ==
  /\ UNCHANGED <<snips, content, adding, leaked>>
  /\ \/ lock' = lock
     \/ lock = Free /\ lock' = n
     \/ lock = n /\ lock' = Free
  /\ MenuVarsTyped'
  /\ \A m \in Menus \ {n} :
       ListFrame(m) /\ ServerFrame(m) /\ removed'[m] = removed[m]

\* Then the others, and the store, stay as they should be.
LEMMA OthersOfMenu ==
  ASSUME ChosenInv, NEW n \in Menus, OnlyOf(n)
  PROVE  StoreFull' /\ \A m \in Menus \ {n} : MenuInv(m)'
<1>1. StoreFull'
  <2>1. StoreFull
    BY DEF ChosenInv
  <2>2. adding.at \in {"grow", "fill"} => lock' = Clipmenud
    BY <2>1, HolderAssumption DEF StoreFull, OnlyOf
  <2> QED
    BY <2>1, <2>2 DEF StoreFull, OnlyOf, Present
<1>2. ASSUME NEW m \in Menus \ {n}
      PROVE  MenuInv(m)'
  <2>1. MenuInv(m)
    BY DEF ChosenInv
  <2>2. StoreFrame(m)
    BY HolderAssumption DEF OnlyOf, StoreFrame, Present
  <2> QED
    BY <2>1, <2>2, MenuFrame DEF OnlyOf
<1> QED
  BY <1>1, <1>2

\* The launcher reads, or ends: its output does not change after the choice.
LEMMA LauncherSteps ==
  ASSUME ChosenInv, NEW n \in Menus, UNCHANGED serveVars,
         LauncherReads(n) \/ LauncherExits(n)
  PROVE  OnlyOf(n) /\ MenuInv(n)'
<1>1. MenuVarsTyped /\ MenuInv(n)
  BY DEF ChosenInv
<1>2. /\ UNCHANGED <<snips, content, adding, leaked, removed, lock>>
      /\ UNCHANGED <<mpc, clips, clipIdx, table, shown, pc, hash, data>>
      /\ \/ UNCHANGED <<launcher, output>>
         \/ /\ launcher[n] = "running"
            /\ \E a, b : /\ launcher' = [launcher EXCEPT ![n] = a]
                         /\ output' = [output EXCEPT ![n] = b]
  BY DEF LauncherReads, LauncherExits, storeVars, listVars, serveVars,
         serverVars
<1>3. OnlyOf(n)
  BY <1>1, <1>2 DEF OnlyOf, ListFrame, ServerFrame, MenuVarsTyped
<1>4. ListFrame(n) /\ ServerFrame(n)
  BY <1>1, <1>2 DEF ListFrame, ServerFrame, MenuInv, Launched
<1>5. StoreFrame(n)
  BY <1>2 DEF StoreFrame, Present
<1> QED
  BY <1>1, <1>3, <1>4, <1>5, MenuFrame

\* A menu that ends without a choice has no clipserve.
LEMMA EndStep ==
  ASSUME ChosenInv, NEW n \in Menus, UNCHANGED serveVars,
         mpc[n] # "served", End(n)
  PROVE  OnlyOf(n) /\ MenuInv(n)'
<1>1. MenuVarsTyped /\ MenuInv(n)
  BY DEF ChosenInv
<1>2. /\ mpc' = [mpc EXCEPT ![n] = "ended"]
      /\ clips' = [clips EXCEPT ![n] = 0]
      /\ clipIdx' = [clipIdx EXCEPT ![n] = 0]
      /\ table' = [table EXCEPT ![n] = <<>>]
      /\ shown' = [shown EXCEPT ![n] = <<>>]
      /\ removed' = [removed EXCEPT ![n] = {}]
      /\ launcher' = [launcher EXCEPT ![n] = "off"]
      /\ output' = [output EXCEPT ![n] = 0]
      /\ lock' = IF lock = n THEN Free ELSE lock
      /\ UNCHANGED <<snips, content, adding, leaked, pc, hash, data>>
  BY DEF End, MenuGoto, serveVars, serverVars
<1>3. OnlyOf(n)
  BY <1>1, <1>2 DEF OnlyOf, ListFrame, ServerFrame, MenuVarsTyped
<1>4. /\ mpc'[n] = "ended" /\ table'[n] = <<>> /\ shown'[n] = <<>>
      /\ pc'[n] = "off"
  BY <1>1, <1>2 DEF MenuVarsTyped, MenuInv, Launched
<1>5. DOMAIN shown'[n] = {}
  BY <1>4
<1> QED
  BY <1>3, <1>4, <1>5
     DEF MenuInv, Listed, TableShown, Launched, Served, Running

\* The beginning of a listing, and the end of it.
LEMMA StartStep ==
  ASSUME ChosenInv, NEW n \in Menus, UNCHANGED serveVars,
         MenuStart(n) \/ MenuLock(n) \/ MenuUnref(n)
  PROVE  OnlyOf(n) /\ MenuInv(n)'
<1>1. MenuVarsTyped /\ MenuInv(n)
  BY DEF ChosenInv
<1>2. snips \in Seq(Texts \union {Zero})
  BY DEF ChosenInv, StoreFull
<1> USE DEF MenuGoto, storeVars, listVars, userVars, serveVars, serverVars
<1>3. CASE MenuStart(n)
  <2>1. /\ mpc[n] = "off" /\ mpc' = [mpc EXCEPT ![n] = "lock"]
        /\ launcher' = [launcher EXCEPT ![n] = "running"]
        /\ UNCHANGED <<snips, content, adding, leaked, removed, lock, clips,
                       clipIdx, table, shown, output, pc, hash, data>>
    BY <1>3 DEF MenuStart
  <2>2. OnlyOf(n)
    BY <1>1, <2>1 DEF OnlyOf, ListFrame, ServerFrame, MenuVarsTyped
  <2>3. MenuInv(n)'
    BY <1>1, <2>1 DEF MenuInv, Listed, TableShown, Launched, Served, Running,
                      MenuVarsTyped
  <2> QED
    BY <2>2, <2>3
<1>4. CASE MenuLock(n)
  <2>1. /\ mpc[n] = "lock" /\ lock = Free /\ lock' = n
        /\ clips' = [clips EXCEPT ![n] = Len(snips)]
        /\ clipIdx' = [clipIdx EXCEPT ![n] = Len(snips)]
        /\ \/ snips # <<>> /\ mpc' = [mpc EXCEPT ![n] = "iter"]
           \/ mpc' = [mpc EXCEPT ![n] = "unref"]
        /\ UNCHANGED <<snips, content, adding, leaked, removed, launcher,
                       table, shown, output, pc, hash, data>>
    BY <1>4 DEF MenuLock
  <2>2. OnlyOf(n)
    BY <1>1, <2>1 DEF OnlyOf, ListFrame, ServerFrame, MenuVarsTyped
  <2>3. /\ clips'[n] = Len(snips') /\ clipIdx'[n] = clips'[n]
        /\ mpc'[n] \in {"iter", "unref"} /\ pc'[n] = "off"
        /\ mpc'[n] = "iter" => Len(snips) > 0
        /\ Len(snips) \in Nat /\ DOMAIN shown'[n] = {}
        /\ shown'[n] = shown[n] /\ table'[n] = shown'[n]
    BY <1>1, <1>2, <2>1
       DEF MenuInv, Listed, TableShown, Launched, MenuVarsTyped
  <2>4. Len(snips) + 1 .. Len(snips) = {}
    BY <2>3
  <2>5. MenuInv(n)'
    BY <2>1, <2>3, <2>4
       DEF MenuInv, Listed, TableShown, Launched, Served, Running
  <2> QED
    BY <2>2, <2>5
<1>5. CASE MenuUnref(n)
  <2>1. /\ mpc[n] = "unref" /\ lock' = Free
        /\ mpc' = [mpc EXCEPT ![n] = "read"]
        /\ UNCHANGED <<snips, content, adding, leaked, removed, launcher,
                       clips, clipIdx, table, shown, output, pc, hash, data>>
    BY <1>5 DEF MenuUnref
  <2>2. lock = n
    BY <1>1, <2>1 DEF MenuInv, Listed
  <2>3. OnlyOf(n)
    BY <1>1, <2>1, <2>2 DEF OnlyOf, ListFrame, ServerFrame, MenuVarsTyped
  <2>4. mpc'[n] = "read"
    BY <1>1, <2>1 DEF MenuVarsTyped
  <2>5. MenuInv(n)'
    BY <1>1, <2>1, <2>4
       DEF MenuInv, Listed, TableShown, Launched, Served, Running, Present
  <2> QED
    BY <2>3, <2>5
<1> QED
  BY <1>3, <1>4, <1>5

\* A line more, and an entry more in the table.
LEMMA ListStep ==
  ASSUME ChosenInv, NEW n \in Menus, UNCHANGED serveVars, ListClip(n)
  PROVE  OnlyOf(n) /\ MenuInv(n)'
<1> DEFINE i == clipIdx[n]
           lines == With(shown[n], i, snips[i])
<1>1. MenuVarsTyped /\ MenuInv(n) /\ StoreFull
  BY DEF ChosenInv
<1>2. /\ mpc[n] = "iter" /\ snips[i] # Zero
      /\ shown' = [shown EXCEPT ![n] = With(@, i, snips[i])]
      /\ table' = [table EXCEPT ![n] = With(@, i, snips[i])]
      /\ clipIdx' = [clipIdx EXCEPT ![n] = i - 1]
      /\ mpc' = [mpc EXCEPT ![n] = IF i = 1 THEN "unref" ELSE "iter"]
      /\ UNCHANGED <<snips, content, adding, leaked, removed, lock, launcher,
                     clips, output, pc, hash, data>>
  BY DEF ListClip, Slot, MenuGoto, storeVars, serveVars, serverVars
<1>3. /\ lock = n /\ clips[n] = Len(snips) /\ i \in 1 .. clips[n]
      /\ DOMAIN shown[n] = i + 1 .. clips[n] /\ pc[n] = "off"
      /\ Len(snips) \in Nat
  BY <1>1, <1>2 DEF MenuInv, Listed, Launched, StoreFull
<1>4. /\ DOMAIN lines = i .. clips[n]
      /\ lines[i] = snips[i]
      /\ \A j \in DOMAIN shown[n] : lines[j] = shown[n][j]
  BY <1>3 DEF With
<1>5. snips[i] \in Texts /\ Present(snips[i])
  BY <1>1, <1>2, <1>3 DEF StoreFull
<1>6. OnlyOf(n)
  BY <1>1, <1>2 DEF OnlyOf, ListFrame, ServerFrame, MenuVarsTyped
<1>7. /\ shown'[n] = lines /\ table'[n] = shown'[n]
      /\ mpc'[n] = IF i = 1 THEN "unref" ELSE "iter"
      /\ clipIdx'[n] = i - 1
  BY <1>1, <1>2 DEF MenuVarsTyped, MenuInv, TableShown
<1> HIDE DEF lines
<1>8. Listed(n)'
  BY <1>2, <1>3, <1>4, <1>7 DEF Listed
<1>9. TableShown(n)'
  <2>1. SUFFICES ASSUME NEW j \in DOMAIN shown'[n]
                 PROVE  /\ shown'[n][j] \in Texts
                        /\ \/ content[shown'[n][j]] = "whole"
                           \/ shown'[n][j] \in leaked \union removed[n]
    BY <1>2, <1>7 DEF TableShown, Present
  <2>2. j = i \/ j \in DOMAIN shown[n]
    BY <1>3, <1>4, <1>7, <2>1
  <2>3. CASE j = i
    BY <1>4, <1>5, <1>7, <2>3 DEF Present
  <2>4. CASE j \in DOMAIN shown[n]
    BY <1>1, <1>4, <1>7, <2>4 DEF MenuInv, TableShown, Present
  <2> QED
    BY <2>2, <2>3, <2>4
<1>10. Launched(n)' /\ Served(n)'
  BY <1>2, <1>3, <1>7 DEF Launched, Served, Running
<1> QED
  BY <1>6, <1>8, <1>9, <1>10 DEF MenuInv

\* The choice, and the launch of clipserve with what the table has for it.
LEMMA ChooseStep ==
  ASSUME ChosenInv, NEW n \in Menus, ChooseAndServe(n)
  PROVE  OnlyOf(n) /\ MenuInv(n)'
<1>1. /\ MenuVarsTyped /\ MenuInv(n) /\ ServeTypeOK
      /\ n \in Servers
  BY SessionAssumption DEF ChosenInv, SessionInv, ServeInv
<1>2. PICK h : MenuChoice(n, h) /\ Launch(n, h)
  BY DEF ChooseAndServe
<1>3. /\ mpc[n] = "read" /\ launcher[n] = "success"
      /\ output[n] \in 1 .. clips[n] /\ h \in Lookup(n, output[n])
      /\ mpc' = [mpc EXCEPT ![n] = "served"]
      /\ pc' = [pc EXCEPT ![n] = "open"] /\ hash' = [hash EXCEPT ![n] = h]
      /\ UNCHANGED <<snips, content, adding, leaked, removed, lock, launcher,
                     clips, clipIdx, table, shown, output, data>>
  BY <1>2 DEF MenuChoice, Launch, Valid, MenuGoto, ServeGoto, storeVars,
              listVars
<1>4. OnlyOf(n)
  BY <1>1, <1>3 DEF OnlyOf, ListFrame, ServerFrame, MenuVarsTyped
<1>5. mpc'[n] = "served" /\ pc'[n] = "open" /\ hash'[n] = h
  BY <1>1, <1>3 DEF MenuVarsTyped, ServeTypeOK
<1>6. DOMAIN shown[n] # {} =>
        output[n] \in DOMAIN shown[n] /\ h = shown[n][output[n]]
  BY <1>1, <1>3 DEF MenuInv, Listed, TableShown, Lookup
<1>7. Listed(n)' /\ Launched(n)'
  BY <1>3, <1>5 DEF Listed, Launched
<1>8. TableShown(n)'
  BY <1>1, <1>3 DEF MenuInv, TableShown, Present
<1>9. Served(n)'
  BY <1>3, <1>5, <1>6 DEF Served
<1> QED
  BY <1>4, <1>7, <1>8, <1>9 DEF MenuInv

\* cs_content_get() of a clipserve.
LEMMA OpenStep ==
  ASSUME ChosenInv, NEW p \in Servers, FetchContent(p), NEW m \in Menus
  PROVE  MenuInv(m)'
<1>1. MenuInv(m) /\ ServeTypeOK /\ m \in Servers
  BY SessionAssumption DEF ChosenInv, SessionInv, ServeInv
<1> DEFINE c == IF hash[p] = NoHash THEN "none" ELSE content[hash[p]]
<1>2. Fetch(p, c) /\ UNCHANGED menuVars
  BY DEF FetchContent
<1> HIDE DEF c
<1>3. ListFrame(m) /\ StoreFrame(m)
  BY <1>2 DEF ListFrame, StoreFrame, Present, menuVars, storeVars, listVars,
              userVars
<1>4. CASE p # m
  <2>1. ServerFrame(m)
    BY <1>1, <1>2, <1>4 DEF Fetch, ServeGoto, ServerFrame, ServeTypeOK
  <2> QED
    BY <1>1, <1>3, <2>1, MenuFrame
<1>5. CASE p = m
  <2>1. /\ pc[m] = "open" /\ hash'[m] = hash[m]
        /\ pc'[m] \in {"take", "inaccessible"}
        /\ c = "whole" => data'[m] = "whole"
    BY <1>1, <1>2, <1>5 DEF Fetch, ServeGoto, ServeTypeOK
  <2>2. UNCHANGED <<mpc, clips, clipIdx, table, shown, removed, launcher,
                    output, lock, snips, content, leaked>>
    BY <1>2 DEF menuVars, storeVars, listVars, userVars
  <2>3. Listed(m)' /\ TableShown(m)' /\ Launched(m)'
    BY <1>1, <2>1, <2>2 DEF MenuInv, Listed, TableShown, Launched, Present
  <2>4. ASSUME DOMAIN shown[m] # {}
        PROVE  /\ output[m] \in DOMAIN shown[m]
               /\ hash[m] = shown[m][output[m]] /\ hash[m] \in Texts
               /\ hash[m] \notin removed[m] \union leaked => c = "whole"
    <3>1. output[m] \in DOMAIN shown[m] /\ hash[m] = shown[m][output[m]]
      BY <1>1, <2>1, <2>4 DEF MenuInv, Served, Running
    <3>2. /\ hash[m] \in Texts
          /\ Present(hash[m]) \/ hash[m] \in removed[m]
      BY <1>1, <3>1 DEF MenuInv, TableShown
    <3>3. hash[m] # NoHash
      BY <3>2, HashAssumption, SessionAssumption
    <3> QED
      BY <1>5, <3>1, <3>2, <3>3 DEF Present, c
  <2>5. Served(m)'
    BY <2>1, <2>2, <2>4 DEF Served
  <2> QED
    BY <2>3, <2>5 DEF MenuInv
<1> QED
  BY <1>4, <1>5

-----------------------------------------------------------------------------
(***************************************************************************)
(* All the steps of a session.                                             *)
(***************************************************************************)
\* A step that leaves the menus as they are keeps what is known of them.
LEMMA HarmlessStep ==
  ASSUME ChosenInv, Harmless, MenuVarsTyped',
         \A m \in Menus : ServerFrame(m) /\ ListFrame(m)
  PROVE  StoreFull' /\ MenuVarsTyped' /\ \A m \in Menus : MenuInv(m)'
BY MenuFrame DEF ChosenInv, Harmless

\* The same of a step of one menu.
LEMMA MenuOfStep ==
  ASSUME ChosenInv, NEW n \in Menus, OnlyOf(n), MenuInv(n)'
  PROVE  StoreFull' /\ MenuVarsTyped' /\ \A m \in Menus : MenuInv(m)'
BY OthersOfMenu DEF OnlyOf

\* No step of a session breaks the invariant.
LEMMA ChosenStep ==
  ASSUME ChosenInv, [Next]_vars
  PROVE  StoreFull' /\ MenuVarsTyped' /\ \A m \in Menus : MenuInv(m)'
<1> DEFINE AllKept ==
             StoreFull' /\ MenuVarsTyped' /\ \A m \in Menus : MenuInv(m)'
<1>1. MenuVarsTyped /\ ServeTypeOK /\ Menus \subseteq Servers
  BY SessionAssumption DEF ChosenInv, SessionInv, ServeInv
<1>2. CASE Others /\ UNCHANGED serveVars
  <2>1. Harmless
    BY <1>2, AddSteps, GrowStep, RemoveStep DEF Others
  <2>2. /\ UNCHANGED <<mpc, listVars, userVars>>
        /\ \/ UNCHANGED removed
           \/ DOMAIN removed' = Menus
    BY <1>2 DEF Others, AddContent, AddWrite, AddLock, AddGrow, KillClipmenud,
                RemoveClips
  <2>3. MenuVarsTyped'
    BY <1>1, <2>2 DEF MenuVarsTyped, listVars, userVars
  <2>4. \A m \in Menus : ServerFrame(m) /\ ListFrame(m)
    BY <1>2, <2>2 DEF ServerFrame, ListFrame, listVars, userVars, serveVars,
                      serverVars
  <2> QED
    BY <2>1, <2>3, <2>4, HarmlessStep
<1>3. ASSUME NEW n \in Menus, UNCHANGED serveVars,
             \/ LauncherReads(n) \/ LauncherExits(n) \/ MenuStart(n)
             \/ MenuLock(n) \/ MenuStep(n) \/ KillMenu(n)
      PROVE  AllKept
  <2>1. \/ LauncherReads(n) \/ LauncherExits(n)
        \/ MenuStart(n) \/ MenuLock(n) \/ MenuUnref(n) \/ ListClip(n)
        \/ mpc[n] # "served" /\ End(n)
    BY <1>3 DEF MenuStep, KillMenu, ListZeroed, BrokenPipe, NoChoice
  <2>2. OnlyOf(n) /\ MenuInv(n)'
    BY <1>3, <2>1, LauncherSteps, StartStep, ListStep, EndStep
  <2> QED
    BY <2>2, MenuOfStep
<1>4. CASE ServeOnly
  <2>1. /\ UNCHANGED <<storeVars, mpc, listVars, userVars>>
        /\ XClients \/ \E p \in Servers : ServeStep(p)
    BY <1>4 DEF ServeOnly, menuVars
  <2>2. Harmless
    BY <2>1 DEF Harmless, StoreFrame, StoreFull, Present, ChosenInv, storeVars,
                listVars
  <2>3. MenuVarsTyped'
    BY <1>1, <2>1 DEF MenuVarsTyped, storeVars, listVars, userVars
  <2>4. ASSUME NEW m \in Menus
        PROVE  ServerFrame(m) /\ ListFrame(m)
    <3>1. ListFrame(m)
      BY <2>1 DEF ListFrame, listVars, userVars
    <3>2. CASE XClients
      BY <3>1, <3>2 DEF XClients, AppOwns, Ask, ServerFrame, serverVars
    <3> QED
      BY <1>1, <2>1, <3>1, <3>2, ServeSteps
  <2> QED
    BY <2>2, <2>3, <2>4, HarmlessStep
<1>5. CASE StoreAndServe
  <2>1. AddFill /\ (UNCHANGED serveVars \/ Launch(Clipmenud, adding.text))
    BY <1>5 DEF StoreAndServe
  <2>2. Harmless
    BY <2>1, FillStep
  <2>3. MenuVarsTyped'
    BY <1>1, <2>1 DEF MenuVarsTyped, AddFill, listVars, userVars
  <2>4. ASSUME NEW m \in Menus
        PROVE  ServerFrame(m) /\ ListFrame(m)
    <3>1. ListFrame(m)
      BY <2>1 DEF AddFill, ListFrame, listVars, userVars
    <3>2. m # Clipmenud
      BY HolderAssumption
    <3>3. ServerFrame(m)
      BY <1>1, <2>1, <3>2
         DEF Launch, ServeGoto, ServerFrame, ServeTypeOK, serveVars, serverVars
    <3> QED
      BY <3>1, <3>3
  <2> QED
    BY <2>2, <2>3, <2>4, HarmlessStep
<1>6. ASSUME NEW n \in Menus, ChooseAndServe(n)
      PROVE  AllKept
  BY <1>6, ChooseStep, MenuOfStep
<1>7. ASSUME NEW p \in Servers, FetchContent(p)
      PROVE  AllKept
  <2>1. UNCHANGED <<storeVars, mpc, listVars, userVars>>
    BY <1>7 DEF FetchContent, menuVars
  <2>2. StoreFull' /\ MenuVarsTyped'
    BY <1>1, <2>1 DEF MenuVarsTyped, StoreFull, Present, ChosenInv, storeVars,
                      listVars, userVars
  <2> QED
    BY <1>7, <2>2, OpenStep
<1>8. CASE UNCHANGED vars
  <2>1. UNCHANGED <<storeVars, mpc, listVars, userVars, serverVars>>
    BY <1>8 DEF vars, menuVars, serveVars
  <2>2. Harmless
    BY <2>1 DEF Harmless, StoreFrame, StoreFull, Present, ChosenInv, storeVars,
                listVars
  <2>3. MenuVarsTyped'
    BY <1>1, <2>1 DEF MenuVarsTyped, storeVars, listVars, userVars
  <2>4. \A m \in Menus : ServerFrame(m) /\ ListFrame(m)
    BY <2>1 DEF ServerFrame, ListFrame, listVars, userVars, serverVars
  <2> QED
    BY <2>2, <2>3, <2>4, HarmlessStep
<1> QED
  BY <1>2, <1>3, <1>4, <1>5, <1>6, <1>7, <1>8 DEF Next, MenuOnly

LEMMA ChosenInvStep == ChosenInv /\ [Next]_vars => ChosenInv'
<1>1. ChosenInv /\ [Next]_vars => SessionInv'
  BY SessionStep, StoreStep, InvStep DEF SessionInv, ChosenInv
<1> QED
  BY <1>1, ChosenStep DEF ChosenInv

(***************************************************************************)
(* The clip that is served is the one that was shown under the number that *)
(* was chosen, whatever was added, removed or killed in the meantime, and  *)
(* its content is the whole text unless the clip was removed or a          *)
(* clipmenud died while it added it: cs_add() writes the content before    *)
(* the snip is there, and cs_remove() takes it away with the last one.     *)
(***************************************************************************)
THEOREM SessionServesChosen == Spec => []ChosenIsServed
<1>1. ChosenInv => ChosenIsServed
  BY DEF ChosenInv, MenuInv, Served, Running, ChosenIsServed
<1> QED
  BY <1>1, ChosenInit, ChosenInvStep, PTL DEF Spec

-----------------------------------------------------------------------------
(***************************************************************************)
(* Type correctness of the menus.  What they have counted is bounded since *)
(* the store is (Room): one clip is added at a time, and there was room    *)
(* for it when its addition began.                                         *)
(***************************************************************************)
Room == /\ Len(snips) <= MaxSnips
        /\ adding.at \in {"write", "lock", "grow"} => Len(snips) < MaxSnips

Indices == [Menus -> 0 .. MaxSnips]

ListTypes == /\ clips \in Indices /\ clipIdx \in Indices
             /\ \A m \in Menus : DOMAIN shown[m] \subseteq 1 .. clips[m]

UserTypes == /\ pipe \in [Menus -> 0 .. PipeSize]
             /\ launcher \in [Menus -> {"off", "running", "success",
                                        "failure"}]
             /\ output \in Indices

HistoryTypes == /\ removed \in [Menus -> SUBSET Texts]
                /\ leaked \subseteq Texts

BudgetTypes == menuBudget \in [adds : 0 .. MaxAdds,
                               removals : 0 .. MaxRemovals,
                               kills : 0 .. MaxKills]

PlaceTypes == /\ lock \in Menus \union {Clipmenud, Free}
              /\ mpc \in [Menus -> MenuPCs]

MenuTypes == /\ Room /\ ListTypes /\ UserTypes /\ HistoryTypes /\ BudgetTypes
             /\ PlaceTypes

LEMMA MenuTypesSuffice == ChosenInv /\ MenuTypes => TypeOK
<1> SUFFICES ASSUME ChosenInv, MenuTypes
             PROVE  TypeOK
  OBVIOUS
<1>1. StoreInv /\ ServeTypeOK /\ StoreFull /\ \A m \in Menus : TableShown(m)
  BY DEF ChosenInv, SessionInv, ServeInv, MenuInv
<1>2. ASSUME NEW m \in Menus, NEW f \in {table[m], shown[m]}
      PROVE  DOMAIN f \subseteq 1 .. clips[m] /\ Range(f) \subseteq Texts
  <2>1. f = shown[m]
    BY <1>1 DEF TableShown
  <2>2. \A i \in DOMAIN f : f[i] \in Texts
    BY <1>1, <2>1 DEF TableShown
  <2>3. Range(f) \subseteq Texts
    BY <2>2 DEF Range
  <2> QED
    BY <2>1, <2>3 DEF MenuTypes, ListTypes
<1>3. MenuTypeOK
  BY <1>1, <1>2 DEF MenuTypeOK, MenuTypes, ListTypes, UserTypes,
     HistoryTypes, BudgetTypes, PlaceTypes, StoreInv, StoreFull, AddPCs,
     Indices
<1> QED
  BY <1>1, <1>3 DEF TypeOK

LEMMA MenuTypesInit == Init => MenuTypes
<1> SUFFICES ASSUME Init
             PROVE  MenuTypes
  OBVIOUS
<1> USE DEF Init, MenuInit
<1>1. 0 \in 0 .. MaxSnips /\ 0 \in 0 .. PipeSize
  BY MenuBoundAssumption, PipeAssumption
<1>2. Room
  BY StoredAssumption DEF Room
<1>3. ListTypes
  BY <1>1 DEF ListTypes, Indices
<1>4. UserTypes
  BY <1>1 DEF UserTypes, Indices
<1>5. HistoryTypes
  BY DEF HistoryTypes
<1>6. BudgetTypes
  <2>1. Cardinality(leaked) \in Nat
    BY FS_CardinalityType
  <2>2. MaxKills - Cardinality(leaked) \in 0 .. MaxKills
    BY <2>1, MenuBoundAssumption
  <2> QED
    BY <2>2, MenuBoundAssumption DEF BudgetTypes
<1>7. PlaceTypes
  BY DEF PlaceTypes, MenuPCs
<1> QED
  BY <1>2, <1>3, <1>4, <1>5, <1>6, <1>7 DEF MenuTypes

\* Nothing is spent that is not there.
LEMMA SpendTypes ==
  ASSUME BudgetTypes, NEW b \in {"adds", "removals", "kills"}, Spend(b)
  PROVE  BudgetTypes'
BY MenuBoundAssumption DEF BudgetTypes, Spend

\* cs_add() and cs_remove().
LEMMA OthersTypes ==
  ASSUME ChosenInv, MenuTypes, Others
  PROVE  MenuTypes'
<1>1. StoreInv /\ StoreFull
  BY DEF ChosenInv, SessionInv
<1>2. Room /\ ListTypes /\ UserTypes /\ HistoryTypes /\ BudgetTypes
      /\ PlaceTypes
  BY DEF MenuTypes
<1>3. snips \in Seq(Texts \union {Zero}) /\ Len(snips) \in Nat
      /\ MaxSnips \in Nat
  BY <1>1, MenuBoundAssumption DEF StoreFull
<1>4. UNCHANGED <<mpc, listVars, userVars>>
  BY DEF Others, AddContent, AddWrite, AddLock, AddGrow, KillClipmenud,
     RemoveClips
<1>5. ListTypes' /\ UserTypes' /\ mpc' \in [Menus -> MenuPCs]
  BY <1>2, <1>4 DEF ListTypes, UserTypes, PlaceTypes, listVars, userVars
<1>6. lock' \in {lock, Clipmenud, Free}
  BY DEF Others, AddContent, AddWrite, AddLock, AddGrow, KillClipmenud,
     RemoveClips
<1>7. PlaceTypes'
  BY <1>2, <1>5, <1>6 DEF PlaceTypes
<1>8. ASSUME NEW t \in Texts, AddContent(t)
      PROVE  Room' /\ HistoryTypes' /\ BudgetTypes'
  BY <1>2, <1>3, <1>8, SpendTypes DEF AddContent, Room, HistoryTypes
<1>9. CASE AddWrite \/ AddLock
  <2>1. /\ adding.at \in {"write", "lock"}
        /\ UNCHANGED <<snips, removed, leaked, menuBudget>>
    BY <1>9 DEF AddWrite, AddLock
  <2> QED
    BY <1>2, <1>5, <1>7, <2>1 DEF Room, HistoryTypes, BudgetTypes, MenuTypes
<1>10. CASE AddGrow
  <2>1. Len(snips') = Len(snips) + 1 /\ Len(snips) < MaxSnips
        /\ adding'.at = "fill"
    BY <1>1, <1>2, <1>3, <1>10 DEF AddGrow, AddGoto, Room, StoreInv
  <2>2. Room'
    BY <1>3, <2>1 DEF Room
  <2>3. UNCHANGED <<removed, leaked, menuBudget>>
    BY <1>10 DEF AddGrow
  <2> QED
    BY <1>2, <1>5, <1>7, <2>2, <2>3 DEF HistoryTypes, BudgetTypes, MenuTypes
<1>11. CASE KillClipmenud
  <2>1. adding.text \in Texts
    BY <1>1, <1>11 DEF KillClipmenud, StoreInv
  <2>2. /\ adding'.at = "idle" /\ leaked' = leaked \union {adding.text}
        /\ UNCHANGED <<snips, removed>> /\ Spend("kills")
    BY <1>11 DEF KillClipmenud
  <2>3. BudgetTypes'
    BY <1>2, <2>2, SpendTypes
  <2> QED
    BY <1>2, <1>5, <1>7, <2>1, <2>2, <2>3 DEF Room, HistoryTypes, MenuTypes
<1>12. ASSUME NEW S \in SUBSET DOMAIN snips, RemoveClips(S)
       PROVE  Room' /\ HistoryTypes' /\ BudgetTypes'
  <2> DEFINE gone == {t \in {snips[i] : i \in S} \ leaked :
                        \A i \in DOMAIN snips \ S : snips[i] # t}
             n == Len(snips) - Cardinality(S)
  <2>1. gone \subseteq Texts
    <3>1. \A i \in S : snips[i] \in Texts
      BY <1>3, <1>12 DEF RemoveClips
    <3> QED
      BY <3>1
  <2>2. PICK kept \in Kept(S) : snips' = [j \in DOMAIN kept |-> snips[kept[j]]]
    BY <1>12 DEF RemoveClips
  <2>3. n \in Nat /\ n <= Len(snips)
    <3>1. /\ IsFiniteSet(DOMAIN snips)
          /\ Cardinality(DOMAIN snips) = Len(snips)
      BY <1>1, FS_Interval DEF StoreFull
    <3>2. Cardinality(S) \in Nat /\ Cardinality(S) <= Len(snips)
      BY <3>1, FS_Subset, FS_CardinalityType
    <3> QED
      BY <1>3, <3>2
  <2>4. kept \in [1 .. n -> DOMAIN snips \ S]
    BY <2>2 DEF Kept
  <2> HIDE DEF n
  <2>5. Len(snips') = n
    BY <1>3, <2>2, <2>3, <2>4
  <2>6. removed' \in [Menus -> SUBSET Texts]
    <3>1. removed' = [m \in Menus |->
                       IF mpc[m] \in {"off", "lock", "ended"} THEN {}
                       ELSE removed[m] \union gone]
      BY <1>12 DEF RemoveClips
    <3> HIDE DEF gone
    <3> QED
      BY <1>2, <2>1, <3>1 DEF HistoryTypes
  <2>7. Room'
    BY <1>2, <1>3, <1>12, <2>3, <2>5 DEF RemoveClips, Room
  <2> QED
    BY <1>2, <1>12, <2>6, <2>7, SpendTypes DEF RemoveClips, HistoryTypes
<1> QED
  BY <1>5, <1>7, <1>8, <1>9, <1>10, <1>11, <1>12 DEF Others, MenuTypes

\* The steps of a menu and of its launcher.
LEMMA MenuStepTypes ==
  ASSUME ChosenInv, MenuTypes, NEW m \in Menus,
         \/ LauncherReads(m) \/ LauncherExits(m) \/ MenuStart(m)
         \/ MenuLock(m) \/ MenuStep(m) \/ KillMenu(m)
         \/ \E h : MenuChoice(m, h)
  PROVE  MenuTypes'
<1>1. StoreFull /\ Listed(m)
      /\ \A o \in Menus : mpc[o] \in {"off", "lock", "ended"}
           => DOMAIN shown[o] = {}
  BY DEF ChosenInv, MenuInv, Listed
<1>2. Room /\ ListTypes /\ UserTypes /\ HistoryTypes /\ BudgetTypes
      /\ PlaceTypes /\ MenuVarsTyped
  BY DEF MenuTypes, ChosenInv
<1>3. Len(snips) \in 0 .. MaxSnips /\ MaxSnips \in Nat /\ PipeSize \in Nat
      /\ 0 \in 0 .. MaxSnips /\ 0 \in 0 .. PipeSize
  BY <1>1, <1>2, MenuBoundAssumption, PipeAssumption DEF StoreFull, Room
<1> USE DEF ListTypes, UserTypes, HistoryTypes, PlaceTypes, MenuTypes,
        MenuPCs, MenuGoto, storeVars, listVars, userVars, Indices
<1>4. UNCHANGED <<snips, adding, leaked>>
  BY DEF LauncherReads, LauncherExits, MenuStart, MenuLock, MenuStep, KillMenu,
     MenuChoice, ListClip, ListZeroed, BrokenPipe, MenuUnref, NoChoice, End
<1>5. Room'
  BY <1>2, <1>4 DEF Room
<1>6. BudgetTypes'
  <2>1. UNCHANGED menuBudget \/ Spend("kills")
    BY DEF LauncherReads, LauncherExits, MenuStart, MenuLock, MenuStep,
       KillMenu, MenuChoice, ListClip, ListZeroed, BrokenPipe, MenuUnref,
       NoChoice, End
  <2> QED
    BY <1>2, <2>1, SpendTypes DEF BudgetTypes
<1>7. CASE LauncherReads(m)
  <2>1. pipe[m] - 1 \in 0 .. PipeSize
    BY <1>2, <1>3, <1>7 DEF LauncherReads
  <2>2. pipe' \in [Menus -> 0 .. PipeSize]
    BY <1>2, <1>7, <2>1 DEF LauncherReads
  <2> QED
    BY <1>2, <1>5, <1>6, <1>7, <2>2 DEF LauncherReads
<1>8. CASE LauncherExits(m)
  BY <1>2, <1>5, <1>6, <1>8 DEF LauncherExits
<1>9. CASE MenuStart(m)
  BY <1>2, <1>5, <1>6, <1>9 DEF MenuStart
<1>10. CASE MenuLock(m)
  <2>1. clips' \in Indices /\ clipIdx' \in Indices /\ shown' = shown
    BY <1>2, <1>3, <1>10 DEF MenuLock
  <2>2. \A o \in Menus : DOMAIN shown'[o] \subseteq 1 .. clips'[o]
    BY <1>1, <1>2, <1>10 DEF MenuLock
  <2>3. mpc' \in [Menus -> MenuPCs] /\ lock' \in Menus \union {Clipmenud, Free}
    BY <1>2, <1>10 DEF MenuLock
  <2> QED
    BY <1>2, <1>5, <1>6, <1>10, <2>1, <2>2, <2>3 DEF MenuLock
<1>11. CASE ListClip(m)
  <2>1. clipIdx[m] \in 1 .. clips[m] /\ clips[m] \in 0 .. MaxSnips
    BY <1>1, <1>2, <1>11 DEF ListClip, Listed
  <2>2. clipIdx[m] - 1 \in 0 .. MaxSnips
    BY <1>3, <2>1
  <2>3. clipIdx' \in Indices /\ clips' = clips
    BY <1>2, <1>11, <2>2 DEF ListClip
  <2>4. pipe[m] + 1 \in 0 .. PipeSize
    BY <1>2, <1>3, <1>11 DEF ListClip
  <2>5. pipe' \in [Menus -> 0 .. PipeSize]
    BY <1>2, <1>11, <2>4 DEF ListClip
  <2>6. \A o \in Menus : DOMAIN shown'[o] \subseteq 1 .. clips'[o]
    <3>1. \A o \in Menus : shown'[o] = IF o = m
            THEN With(shown[m], clipIdx[m], snips[clipIdx[m]]) ELSE shown[o]
      BY <1>2, <1>11 DEF ListClip, MenuVarsTyped
    <3>2. DOMAIN With(shown[m], clipIdx[m], snips[clipIdx[m]])
          = {clipIdx[m]} \union DOMAIN shown[m]
      BY DEF With
    <3> QED
      BY <1>2, <2>1, <2>3, <3>1, <3>2
  <2>7. mpc' \in [Menus -> MenuPCs]
    BY <1>2, <1>11 DEF ListClip
  <2> QED
    BY <1>2, <1>5, <1>6, <1>11, <2>3, <2>5, <2>6, <2>7 DEF ListClip
<1>12. CASE End(m)
  <2>1. lock' \in Menus \union {Clipmenud, Free}
    BY <1>2, <1>12 DEF End
  <2>2. clips' \in Indices /\ clipIdx' \in Indices
        /\ output' \in Indices
    BY <1>2, <1>3, <1>12 DEF End
  <2>3. \A o \in Menus : DOMAIN shown'[o] \subseteq 1 .. clips'[o]
    <3>1. \A o \in Menus : /\ shown'[o] = IF o = m THEN <<>> ELSE shown[o]
                           /\ clips'[o] = IF o = m THEN 0 ELSE clips[o]
      BY <1>2, <1>12 DEF End, MenuVarsTyped
    <3>2. DOMAIN <<>> = {}
      OBVIOUS
    <3>3. ASSUME NEW o \in Menus
          PROVE  DOMAIN shown'[o] \subseteq 1 .. clips'[o]
      <4>1. CASE o = m
        BY <3>1, <3>2, <4>1
      <4>2. CASE o # m
        BY <1>2, <3>1, <4>2
      <4> QED
        BY <4>1, <4>2
    <3> QED
      BY <3>3
  <2>4. pipe' \in [Menus -> 0 .. PipeSize]
        /\ launcher' \in [Menus -> {"off", "running", "success", "failure"}]
        /\ mpc' \in [Menus -> MenuPCs] /\ removed' \in [Menus -> SUBSET Texts]
    BY <1>2, <1>3, <1>12 DEF End
  <2> QED
    BY <1>2, <1>4, <1>5, <1>6, <2>1, <2>2, <2>3, <2>4
<1>13. CASE MenuUnref(m)
  BY <1>2, <1>5, <1>6, <1>13 DEF MenuUnref
<1>14. ASSUME NEW h, MenuChoice(m, h)
       PROVE  MenuTypes'
  BY <1>2, <1>3, <1>5, <1>6, <1>14 DEF MenuChoice
<1> QED
  BY <1>7, <1>8, <1>9, <1>10, <1>11, <1>12, <1>13, <1>14
     DEF MenuStep, ListZeroed, BrokenPipe, NoChoice, KillMenu

LEMMA MenuTypesStep ==
  ASSUME ChosenInv, MenuTypes, [Next]_vars
  PROVE  MenuTypes'
<1> USE DEF MenuTypes
<1>1. ASSUME UNCHANGED menuVars
      PROVE  MenuTypes'
  BY <1>1 DEF menuVars, storeVars, listVars, userVars, Room, ListTypes,
     UserTypes, HistoryTypes, BudgetTypes, PlaceTypes
<1>2. CASE MenuOnly
  BY <1>2, OthersTypes, MenuStepTypes DEF MenuOnly
<1>3. CASE StoreAndServe
  <2>1. AddFill
    BY <1>3 DEF StoreAndServe
  <2>2. snips \in Seq(Texts \union {Zero})
    BY DEF ChosenInv, StoreFull
  <2>3. Len(snips') = Len(snips) /\ adding'.at = "idle"
    BY <2>1, <2>2 DEF AddFill
  <2>4. Room'
    BY <2>3 DEF Room
  <2> QED
    BY <2>1, <2>4 DEF AddFill, listVars, userVars, ListTypes, UserTypes,
       HistoryTypes, BudgetTypes, PlaceTypes
<1>4. ASSUME NEW m \in Menus, ChooseAndServe(m)
      PROVE  MenuTypes'
  BY <1>4, MenuStepTypes DEF ChooseAndServe
<1>5. CASE UNCHANGED vars
  BY <1>1, <1>5 DEF vars
<1>6. CASE ServeOnly
  BY <1>1, <1>6 DEF ServeOnly
<1>7. ASSUME NEW p \in Servers, FetchContent(p)
      PROVE  MenuTypes'
  BY <1>1, <1>7 DEF FetchContent
<1> QED
  BY <1>2, <1>3, <1>4, <1>5, <1>6, <1>7 DEF Next

(***************************************************************************)
(* Every variable of a session keeps its type: no index leaves the array   *)
(* clipmenu allocated for the clips it counted, and no line is written to  *)
(* a pipe that is full.                                                    *)
(***************************************************************************)
THEOREM SessionTypeOK == Spec => []TypeOK
<1>1. ChosenInv /\ [Next]_vars => ChosenInv'
  BY ChosenInvStep
<1>2. ChosenInv /\ MenuTypes /\ [Next]_vars => MenuTypes'
  BY MenuTypesStep
<1> QED
  BY <1>1, <1>2, ChosenInit, MenuTypesInit, MenuTypesSuffice, PTL DEF Spec
=============================================================================
