------------------------------ MODULE Session -------------------------------
(***************************************************************************)
(* A desktop session: clipmenu (Clipmenu) and the clipserve (Clipserve) it *)
(* launches when its user has chosen a clip, the one that clipmenud has    *)
(* launched with own_clipboard, the clip store they share, and the X       *)
(* selections they share with everybody else.                              *)
(***************************************************************************)
EXTENDS Clipmenu, Clipserve, FiniteSets

CONSTANT
  MaxIncidents  \* bound: additions, removals, kills, copies and requests together

\* A server has the name of who launches it; texts stand for their hashes.
ASSUME SessionAssumption == /\ Servers = Menus \union {Clipmenud}
                            /\ Hashes = Texts /\ NoHash = Zero
                            /\ MaxIncidents \in Nat

vars == <<menuVars, serveVars>>

Init == MenuInit /\ ServeInit

\* main() of clipmenu: run_clipserve() if the exit status is EXIT_SUCCESS.
ChooseAndServe(m) ==
  \E h \in Texts \union {Zero} : MenuChoice(m, h) /\ Launch(m, h)

\* handle_property_notify() of clipmenud, with own_clipboard: run_clipserve()
\* once the clip has been stored.
StoreAndServe ==
  /\ AddFill
  /\ IF pc[Clipmenud] = "off" THEN Launch(Clipmenud, adding.text)
     ELSE UNCHANGED serveVars

\* cs_content_get() of a clipserve finds what is there, without the lock.
FetchContent(p) ==
  /\ Fetch(p, IF hash[p] = NoHash THEN "none" ELSE content[hash[p]])
  /\ UNCHANGED menuVars

\* How many things have happened that need not happen.
Incidents ==
  (MaxAdds - menuBudget.adds) + (MaxRemovals - menuBudget.removals)
  + (MaxKills - menuBudget.kills) + (MaxCopies - serveBudget.copies)
  + Cardinality({r \in Requests : asked[r].at # "unasked"})

MenuOnly == /\ \/ Others
               \/ \E m \in Menus :
                    \/ LauncherReads(m) \/ LauncherExits(m) \/ MenuStart(m)
                    \/ MenuLock(m) \/ MenuStep(m) \/ KillMenu(m)
            /\ UNCHANGED serveVars
            /\ Incidents' <= MaxIncidents

ServeOnly == /\ XClients \/ \E p \in Servers : ServeStep(p)
             /\ UNCHANGED menuVars
             /\ Incidents' <= MaxIncidents

Next ==
  \/ MenuOnly \/ ServeOnly
  \/ StoreAndServe
  \/ \E m \in Menus : ChooseAndServe(m)
  \/ \E p \in Servers : FetchContent(p)

Spec == Init /\ [][Next]_vars

(***************************************************************************)
(* A program keeps running (WF), and a launcher reads what is in its pipe. *)
(* flock() serves its waiters in turn (SF).  That the user ever chooses,   *)
(* or that anybody takes a selection, is not assumed.                      *)
(***************************************************************************)
Fairness ==
  /\ WF_vars(StoreAndServe \/ ((AddWrite \/ AddGrow) /\ UNCHANGED serveVars))
  /\ SF_vars(AddLock /\ UNCHANGED serveVars)
  /\ \A m \in Menus :
       /\ WF_vars(ChooseAndServe(m) \/ (MenuStep(m) /\ UNCHANGED serveVars))
       /\ SF_vars(MenuLock(m) /\ UNCHANGED serveVars)
       /\ WF_vars(LauncherReads(m) /\ UNCHANGED serveVars)
  /\ \A p \in Servers :
       WF_vars(FetchContent(p) \/ (ServeStep(p) /\ UNCHANGED menuVars))

FairSpec == Spec /\ Fairness

-----------------------------------------------------------------------------
\* Every variable keeps its type.
TypeOK == MenuTypeOK /\ ServeTypeOK

(***************************************************************************)
(* The clip that is served is the one that was shown under the number that *)
(* was chosen, however the store has changed since the lock was given up.  *)
(* Its content can be read, and is the whole text (which is written before *)
(* the lock is taken, and read without it), unless somebody removed that   *)
(* clip in the meantime or a clipmenud died while it added it.  A menu     *)
(* whose cs_ref() failed has shown nothing, and is not held to anything.   *)
(***************************************************************************)
ChosenIsServed ==
  \A m \in Menus :
    (pc[m] \notin {"off", "done", "aborted", "X error"}
       /\ DOMAIN shown[m] # {}) =>
      /\ output[m] \in DOMAIN shown[m] /\ hash[m] = shown[m][output[m]]
      /\ pc[m] # "open" /\ hash[m] \notin removed[m] \union leaked =>
           data[m] = "whole"

(***************************************************************************)
(* clipmenu holds the lock while it writes to a pipe of limited size, but  *)
(* never while it waits for its user: whoever waits for the lock, clipmenud*)
(* or another clipmenu, gets it even if no user ever chooses, if launchers *)
(* stop half way through the list and if processes die with the lock.      *)
(***************************************************************************)
NobodyWaitsForUser ==
  /\ []<>(adding.at # "lock")
  /\ \A m \in Menus : []<>(mpc[m] # "lock")

\* p has taken both selections, and lost both.
Lost(p) == /\ pc[p] \in {"loop", "error", "close", "unmap"}
           /\ \A s \in Sels : owner[s] # p

\* A clipserve whose selections others have taken ends: it does not wait for
\* a SelectionClear that it has had, and none is left behind.
EndsWhenLost == \A p \in Servers : []<>~Lost(p)
=============================================================================
