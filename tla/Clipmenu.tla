------------------------------ MODULE Clipmenu ------------------------------
(***************************************************************************)
(* clipmenu (src/clipmenu.c): a process that lists the clips to a launcher *)
(* while it holds the lock of the clip store, gives the lock up, waits for *)
(* what the user chooses and looks up its hash in the table it has made    *)
(* while listing.  Several of them run at a time, while clipmenud adds     *)
(* clips and others remove some.                                           *)
(*                                                                         *)
(* The store is here what its users see of it (see ClipStore for how it    *)
(* gets there): snips under the lock, and content, which is written and    *)
(* read without.  Texts stand for their hashes.                            *)
(***************************************************************************)
EXTENDS Naturals, SequencesExt

CONSTANTS
  Menus,       \* the clipmenu processes
  Clipmenud,   \* clipmenud
  Free,        \* no process
  Texts,       \* what a clip can hold
  Zero,        \* the hash of a snip that cs_snip_update() has not written
  Stored,      \* the clips there are to begin with
  PipeSize,    \* how many lines the launcher's pipe holds
  MaxSnips,    \* bound: no clip is added to a store of this many
  MaxAdds,     \* bound: how many clips are added
  MaxRemovals, \* bound: how often somebody removes clips
  MaxKills,    \* bound: how many processes are killed
  RefFails     \* may cs_ref() return an error?

ASSUME HolderAssumption == /\ {Clipmenud, Free} \intersect Menus = {}
                           /\ Clipmenud # Free
ASSUME ZeroAssumption == Zero \notin Texts
ASSUME PipeAssumption == PipeSize \in Nat \ {0}
ASSUME MenuBoundAssumption == /\ {MaxSnips, MaxAdds, MaxRemovals} \subseteq Nat
                              /\ MaxKills \in Nat /\ RefFails \in BOOLEAN
ASSUME StoredAssumption == Stored \in Seq(Texts) /\ Len(Stored) <= MaxSnips

VARIABLES
  snips,      \* the hashes of the snips, oldest first
  content,    \* what there is in the content directory for each text
  lock,       \* who holds the flock
  adding,     \* where clipmenud is in cs_add(), and the text it adds
  mpc,        \* where each clipmenu is
  clips,      \* cur_clips
  clipIdx,    \* clip_idx
  table,      \* idx_to_hash, as far as it has been written
  pipe,       \* how many lines are in input_pipe
  launcher,   \* "off", "running", or the exit status: "success", "failure"
  output,     \* the number the launcher has printed; 0 is anything else
  shown,      \* history: the lines written, by their number
  removed,    \* history: the texts that left the store since the listing
  leaked,     \* history: the texts whose content a killed cs_add() left behind
  menuBudget  \* what is left of the bounds

storeVars == <<snips, content, lock, adding, removed, leaked>>
listVars  == <<clips, clipIdx, table, shown>>
userVars  == <<pipe, launcher, output>>
menuVars  == <<storeVars, mpc, listVars, userVars, menuBudget>>

MenuPCs == {"off", "lock", "iter", "unref", "read", "served", "ended"}
Contents == {"none", "empty", "partial", "whole"}

MenuGoto(m, l) == mpc' = [mpc EXCEPT ![m] = l]
Spend(b) == /\ menuBudget[b] > 0
            /\ menuBudget' = [menuBudget EXCEPT ![b] = @ - 1]
AddGoto(l) == adding' = [adding EXCEPT !.at = l]

\* The store of an earlier session, perhaps with what a clipmenud left behind
\* that was killed in cs_content_add(), which counts as one of the kills.
MenuInit ==
  /\ snips = Stored
  /\ leaked \in SUBSET (Texts \ Range(Stored)) /\ IsFiniteSet(leaked)
  /\ Cardinality(leaked) <= MaxKills
  /\ content = [t \in Texts |-> CASE t \in leaked -> "partial"
                                  [] t \in Range(Stored) -> "whole"
                                  [] OTHER -> "none"]
  /\ lock = Free
  /\ adding = [at |-> "idle", text |-> Zero]
  /\ mpc = [m \in Menus |-> "off"]
  /\ clips = [m \in Menus |-> 0]
  /\ clipIdx = [m \in Menus |-> 0]
  /\ table = [m \in Menus |-> <<>>]
  /\ pipe = [m \in Menus |-> 0]
  /\ launcher = [m \in Menus |-> "off"]
  /\ output = [m \in Menus |-> 0]
  /\ shown = [m \in Menus |-> <<>>]
  /\ removed = [m \in Menus |-> {}]
  /\ menuBudget = [adds |-> MaxAdds, removals |-> MaxRemovals,
                   kills |-> MaxKills - Cardinality(leaked)]

\* m ends without a choice: what it held goes with it.
End(m) ==
  /\ MenuGoto(m, "ended")
  /\ lock' = IF lock = m THEN Free ELSE lock
  /\ clips' = [clips EXCEPT ![m] = 0]
  /\ clipIdx' = [clipIdx EXCEPT ![m] = 0]
  /\ table' = [table EXCEPT ![m] = <<>>]
  /\ shown' = [shown EXCEPT ![m] = <<>>]
  /\ removed' = [removed EXCEPT ![m] = {}]
  /\ pipe' = [pipe EXCEPT ![m] = 0]
  /\ launcher' = [launcher EXCEPT ![m] = "off"]
  /\ output' = [output EXCEPT ![m] = 0]
  /\ UNCHANGED <<snips, content, adding, leaked>>

-----------------------------------------------------------------------------
(***************************************************************************)
(* The others.                                                             *)
(***************************************************************************)
\* cs_content_add() starts with: a new file to write, or a link.
FirstOfAdd(t) == IF content[t] = "none" THEN "write" ELSE "lock"

\* clipmenud calls cs_add(): mkdirat() and openat(), or linkat().
AddContent(t) ==
  /\ adding.at = "idle" /\ Len(snips) < MaxSnips
  /\ Spend("adds")
  /\ content' = [content EXCEPT ![t] = IF @ = "none" THEN "empty" ELSE @]
  /\ adding' = [at |-> FirstOfAdd(t), text |-> t]
  /\ UNCHANGED <<snips, lock, removed, leaked, mpc, listVars, userVars>>

\* write(), of all that remains or of a part of it.
AddWrite ==
  /\ adding.at = "write"
  /\ \/ /\ content' = [content EXCEPT ![adding.text] = "whole"]
        /\ AddGoto("lock")
     \/ /\ content[adding.text] = "empty"
        /\ content' = [content EXCEPT ![adding.text] = "partial"]
        /\ UNCHANGED adding
  /\ UNCHANGED <<snips, lock, removed, leaked, mpc, listVars, userVars,
                 menuBudget>>

\* cs_snip_add(): the lock, cs_file_resize(), cs_snip_update().
AddLock ==
  /\ adding.at = "lock" /\ lock = Free
  /\ lock' = Clipmenud
  /\ AddGoto("grow")
  /\ UNCHANGED <<snips, content, removed, leaked, mpc, listVars, userVars,
                 menuBudget>>

AddGrow ==
  /\ adding.at = "grow"
  /\ snips' = Append(snips, Zero)
  /\ AddGoto("fill")
  /\ UNCHANGED <<content, lock, removed, leaked, mpc, listVars, userVars,
                 menuBudget>>

AddFill ==
  /\ adding.at = "fill"
  /\ snips' = [snips EXCEPT ![Len(snips)] = adding.text]
  /\ lock' = Free
  /\ adding' = [at |-> "idle", text |-> Zero]
  /\ UNCHANGED <<content, removed, leaked, mpc, listVars, userVars,
                 menuBudget>>

\* clipmenud dies in cs_add(): the content stays, and a link too many.
KillClipmenud ==
  /\ adding.at # "idle"
  /\ Spend("kills")
  /\ adding' = [at |-> "idle", text |-> Zero]
  /\ lock' = IF lock = Clipmenud THEN Free ELSE lock
  /\ leaked' = leaked \union {adding.text}
  /\ UNCHANGED <<snips, content, removed, mpc, listVars, userVars>>

\* Where the snips were that are left when those in S go, in their order.
Kept(S) == {kept \in [1 .. Len(snips) - Cardinality(S) -> DOMAIN snips \ S] :
              \A i, j \in DOMAIN kept : i < j => kept[i] < kept[j]}

\* cs_remove(), of clips that clipdel matches or that a trim finds too old.
\* The content goes with the last link.  (A zeroed snip has no content to
\* remove, for which cs_remove() fails; and ClipStore has the removals that
\* overlap with the addition of the same text.)
RemoveClips(S) ==
  LET gone == {t \in {snips[i] : i \in S} \ leaked :
                 \A i \in DOMAIN snips \ S : snips[i] # t}
  IN  /\ lock = Free /\ S # {}
      /\ \A i \in S : snips[i] \notin {Zero, adding.text}
      /\ Spend("removals")
      /\ \E kept \in Kept(S) : snips' = [j \in DOMAIN kept |-> snips[kept[j]]]
      /\ content' = [t \in Texts |-> IF t \in gone THEN "none" ELSE content[t]]
      /\ removed' = [m \in Menus |->
                      IF mpc[m] \in {"off", "lock", "ended"} THEN {}
                      ELSE removed[m] \union gone]
      /\ UNCHANGED <<lock, adding, leaked, mpc, listVars, userVars>>

-----------------------------------------------------------------------------
(***************************************************************************)
(* The launcher, which the user operates.                                  *)
(***************************************************************************)
LauncherReads(m) ==
  /\ launcher[m] = "running" /\ pipe[m] > 0
  /\ pipe' = [pipe EXCEPT ![m] = @ - 1]
  /\ UNCHANGED <<storeVars, mpc, listVars, launcher, output,
                 menuBudget>>

\* It may end at any time: after a choice, with what the user has typed, or
\* because it could not be started.  WEXITSTATUS() of a launcher that was
\* killed is 0, as for one that succeeds.
LauncherExits(m) ==
  /\ launcher[m] = "running"
  /\ \E status \in {"success", "failure"}, n \in 0 .. MaxSnips :
       /\ launcher' = [launcher EXCEPT ![m] = status]
       /\ output' = [output EXCEPT ![m] = n]
  /\ UNCHANGED <<storeVars, mpc, listVars, pipe, menuBudget>>

-----------------------------------------------------------------------------
(***************************************************************************)
(* clipmenu.                                                               *)
(***************************************************************************)
\* main(), up to prompt_user_for_hash(): the launcher is forked before the
\* store is opened, so that the lock is not the launcher's, too.
MenuStart(m) ==
  /\ mpc[m] = "off"
  /\ MenuGoto(m, "lock")
  /\ launcher' = [launcher EXCEPT ![m] = "running"]
  /\ UNCHANGED <<storeVars, listVars, pipe, output, menuBudget>>

\* cs_ref(), whose status nobody looks at but cs_snip_iter(), which then
\* yields nothing, and cs_len(), on an inner reference that never fails.
MenuLock(m) ==
  /\ mpc[m] = "lock" /\ lock = Free
  /\ lock' = m
  /\ clips' = [clips EXCEPT ![m] = Len(snips)]
  /\ clipIdx' = [clipIdx EXCEPT ![m] = Len(snips)]
  /\ \/ MenuGoto(m, IF snips = <<>> THEN "unref" ELSE "iter")
     \/ RefFails /\ MenuGoto(m, "unref")
  /\ UNCHANGED <<snips, content, adding, removed, leaked, table, shown,
                 userVars, menuBudget>>

\* A table that is filled at the index before it is counted down.
SlotBefore(m) == clipIdx[m] + 1

\* The slot of idx_to_hash, which is used with sel_idx - 1, counted from 1.
Slot(m) == clipIdx[m]

\* f with x at i, too.
With(f, i, x) == [j \in {i} \union DOMAIN f |-> IF j = i THEN x ELSE f[j]]

\* dprintf() of a line: the newest clip first, with the highest number.
ListClip(m) ==
  /\ mpc[m] = "iter" /\ launcher[m] = "running" /\ pipe[m] < PipeSize
  /\ snips[clipIdx[m]] # Zero
  /\ pipe' = [pipe EXCEPT ![m] = @ + 1]
  /\ shown' = [shown EXCEPT ![m] = With(@, clipIdx[m], snips[clipIdx[m]])]
  /\ table' = [table EXCEPT ![m] = With(@, Slot(m), snips[clipIdx[m]])]
  /\ clipIdx' = [clipIdx EXCEPT ![m] = @ - 1]
  /\ MenuGoto(m, IF clipIdx[m] = 1 THEN "unref" ELSE "iter")
  /\ UNCHANGED <<storeVars, clips, launcher, output, menuBudget>>

\* expect(dprintf(...) > 0) with the empty line of a zeroed snip.
ListZeroed(m) ==
  /\ mpc[m] = "iter" /\ snips[clipIdx[m]] = Zero
  /\ End(m)
  /\ UNCHANGED menuBudget

\* SIGPIPE, when the launcher has gone and there are clips left to list.
BrokenPipe(m) ==
  /\ mpc[m] = "iter" /\ launcher[m] \in {"success", "failure"}
  /\ End(m)
  /\ UNCHANGED menuBudget

\* A clipmenu that keeps the lock until its user has chosen.
MayUnrefLate(m) == launcher[m] # "running"

\* cs_unref() follows the iteration.
MayUnref(m) == TRUE

MenuUnref(m) ==
  /\ mpc[m] = "unref" /\ MayUnref(m)
  /\ lock' = Free
  /\ MenuGoto(m, "read")
  /\ UNCHANGED <<snips, content, adding, removed, leaked, listVars, userVars,
                 menuBudget>>

\* What idx_to_hash may hold at i: anything, where nothing has been written.
Lookup(m, i) == IF i \in DOMAIN table[m] THEN {table[m][i]}
                ELSE Texts \union {Zero}

Valid(m) == launcher[m] = "success" /\ output[m] \in 1 .. clips[m]

\* read_safe(), wait() and idx_to_hash: h is chosen, and clipmenu done.
MenuChoice(m, h) ==
  /\ mpc[m] = "read" /\ Valid(m)
  /\ h \in Lookup(m, output[m])
  /\ MenuGoto(m, "served")
  /\ pipe' = [pipe EXCEPT ![m] = 0]
  /\ UNCHANGED <<storeVars, listVars, launcher, output, menuBudget>>

\* The launcher was left, or what it printed is no number of a clip.
NoChoice(m) ==
  /\ mpc[m] = "read" /\ launcher[m] \in {"success", "failure"} /\ ~Valid(m)
  /\ End(m)
  /\ UNCHANGED menuBudget

\* The user gives up on clipmenu itself.
KillMenu(m) ==
  /\ mpc[m] \in {"lock", "iter", "unref", "read"}
  /\ Spend("kills")
  /\ End(m)

-----------------------------------------------------------------------------
MenuStep(m) == \/ ListClip(m) \/ ListZeroed(m) \/ BrokenPipe(m)
               \/ MenuUnref(m) \/ NoChoice(m)

Others ==
  \/ \E t \in Texts : AddContent(t)
  \/ AddWrite \/ AddLock \/ AddGrow \/ KillClipmenud
  \/ \E S \in SUBSET DOMAIN snips : RemoveClips(S)

MenuTypeOK ==
  /\ snips \in Seq(Texts \union {Zero})
  /\ content \in [Texts -> Contents]
  /\ lock \in Menus \union {Clipmenud, Free}
  /\ adding \in [at : {"idle", "write", "lock", "grow", "fill"},
                 text : Texts \union {Zero}]
  /\ mpc \in [Menus -> MenuPCs]
  /\ clips \in [Menus -> 0 .. MaxSnips]
  /\ clipIdx \in [Menus -> 0 .. MaxSnips]
  /\ \A m \in Menus : \A f \in {table[m], shown[m]} :
       DOMAIN f \subseteq 1 .. clips[m] /\ Range(f) \subseteq Texts
  /\ pipe \in [Menus -> 0 .. PipeSize]
  /\ launcher \in [Menus -> {"off", "running", "success", "failure"}]
  /\ output \in [Menus -> 0 .. MaxSnips]
  /\ removed \in [Menus -> SUBSET Texts] /\ leaked \subseteq Texts
  /\ menuBudget \in [adds : 0 .. MaxAdds, removals : 0 .. MaxRemovals,
                     kills : 0 .. MaxKills]
=============================================================================
