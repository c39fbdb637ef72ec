----------------------------- MODULE Clipmenud ------------------------------
(***************************************************************************)
(* The daemon of src/clipmenud.c, with the X server and the programs it    *)
(* talks to.  clipmenud hears that a selection has a new owner, asks that  *)
(* owner to write its text into a property of the root window, hears that  *)
(* the property has changed, reads it, and stores what it reads.  Between  *)
(* these steps other windows take the selection, windows close, signals    *)
(* switch the collection off and on, clipdel removes clips and clipserve   *)
(* processes take selections over and end.                                 *)
(*                                                                         *)
(* The clip store is ClipLog: each call on it happens at one instant.      *)
(***************************************************************************)
EXTENDS Naturals, Sequences, FiniteSets, SequencesExt

CONSTANTS
  Apps,          \* windows that take selections
  Ignored,       \* those whose title matches cfg.ignore_window
  Selections,    \* the active ones of cfg.selections, in order
  Owned,         \* the active ones of cfg.owned_selections
  Configs,       \* settings [own_clipboard, oneshot] of cfg
  MaxClips,      \* cfg.max_clips
  MaxClipsBatch, \* cfg.max_clips_batch
  Texts,         \* what windows offer
  Secret,        \* the texts that ignored windows offer, and only they
  Blank,         \* the texts that are nothing but whitespace
  IsPossiblePartial, \* the pairs that is_possible_partial() accepts
  NoText,        \* not a text
  Nobody,        \* no window
  Clipserves,    \* windows for clipserve (bound: how many there are at once)
  StartEmpty,    \* does nobody own a selection before clipmenud watches it?
  Overtaking,    \* may an owner answer after one that was asked later?
  Deletions,     \* does clipdel run?
  MaxCopies,     \* bound: how often windows take or clear selections or close
  MaxSignals,    \* bound: how many signals are sent
  MaxNoise       \* bound: how often another property of the root changes

ASSUME WindowAssumption == /\ Ignored \subseteq Apps
                           /\ Apps \intersect Clipserves = {}
                           /\ Nobody \notin Apps \union Clipserves
ASSUME TextAssumption == /\ Secret \subseteq Texts /\ Blank \subseteq Texts
                         /\ NoText \notin Texts
                         /\ IsPossiblePartial \subseteq Texts \X Texts
ASSUME ConfigAssumption == /\ MaxClips \in Nat /\ MaxClipsBatch \in Nat
                           /\ Configs \subseteq [own_clipboard : BOOLEAN,
                                            oneshot : BOOLEAN]
ASSUME BoundAssumption == /\ {MaxCopies, MaxSignals, MaxNoise} \subseteq Nat
                          /\ {StartEmpty, Overtaking} \subseteq BOOLEAN
                          /\ Deletions \in BOOLEAN

\* The selections clipserve takes, in this order.
ServedSelections == <<"PRIMARY", "CLIPBOARD">>

Sels == ToSet(ServedSelections)

ASSUME SelectionAssumption == /\ Selections \in Seq(Sels)
                              /\ Owned \subseteq Sels

VARIABLES
  cfg,        \* the settings clipmenud has read, a member of Configs
  selection,  \* for each selection its owner and the text that offers
  requests,   \* the conversions the server passed on, not answered yet
  prop,       \* the text in the property of each selection
  events,     \* the events the server has queued for clipmenud
  signals,    \* the signals pending in sig_fd
  serving,    \* clipserve processes that have not taken all selections yet
  kept,       \* history: the text last stored from each selection
  log,        \* the clip store
  pc,         \* where clipmenud is
  nrSetup,    \* how many selections setup_watches() has got to
  watched,    \* those the server sends clipmenud owner changes of
  enabled,    \* may clips be collected?
  last, recent,     \* last_text; is it at most PARTIAL_MAX_SECS old?
  current,    \* the clip at hand after store_clip(): its text and selection
  budget      \* what is left of the bounds

xVars      == <<selection, requests, prop>>
setupVars  == <<nrSetup, watched>>
signalVars == <<signals, enabled>>
clipVars   == <<last, recent, current>>
storeVars  == <<log, kept>>
vars == <<cfg, xVars, events, signalVars, serving, storeVars, pc, setupVars,
          clipVars, budget>>

Windows == Apps \union Clipserves
Offer == [win : Windows, text : Texts]
NoOffer == [win |-> Nobody, text |-> NoText]
NoClip == [text |-> NoText, sel |-> "PRIMARY"]

OwnerEvent(s, w) == [type |-> "owner", sel |-> s, win |-> w]
PropEvent(s)     == [type |-> "property", sel |-> s, win |-> Nobody]
NackEvent(s)     == [type |-> "nack", sel |-> s, win |-> Nobody]
NoiseEvent       == [type |-> "noise", sel |-> "PRIMARY", win |-> Nobody]

Bounds == [copies |-> MaxCopies, signals |-> MaxSignals, noise |-> MaxNoise]

Alive == pc \notin {"exited", "aborted"}

Store == INSTANCE ClipLog

-----------------------------------------------------------------------------
Init ==
  /\ cfg \in Configs
  /\ selection \in
       [Sels -> {NoOffer} \union
                {o \in Offer : /\ ~StartEmpty /\ o.win \in Apps
                               /\ o.text \in Secret <=> o.win \in Ignored}]
  /\ requests = <<>> /\ events = <<>> /\ serving = <<>>
  /\ prop = [s \in Sels |-> NoText]
  /\ signals = {}
  /\ log = <<>> /\ kept = [s \in Sels |-> NoText]
  /\ pc = "setup" /\ nrSetup = 0 /\ watched = {}
  /\ enabled = TRUE
  /\ last = NoText /\ recent = FALSE /\ current = NoClip
  /\ budget = Bounds

(***************************************************************************)
(* The X server, and everybody else.                                       *)
(***************************************************************************)
\* Somebody takes selection s; who watches it is told.
Take(s, w, t) ==
  /\ selection' = [selection EXCEPT ![s] = [win |-> w, text |-> t]]
  /\ events' = IF s \in watched THEN Append(events, OwnerEvent(s, w))
               ELSE events

Copy(s, w, t) ==
  /\ budget.copies > 0
  /\ StartEmpty => s \in watched
  /\ t \in Secret <=> w \in Ignored
  /\ Take(s, w, t)
  /\ budget' = [budget EXCEPT !.copies = @ - 1]
  /\ UNCHANGED <<cfg, requests, prop, signalVars, serving, storeVars, pc,
                 setupVars, clipVars>>

\* An owner gives a selection up (`xsel -pc`): who watches it is told, too.
Clear(s) ==
  /\ budget.copies > 0 /\ selection[s].win # Nobody
  /\ Take(s, Nobody, NoText)
  /\ budget' = [budget EXCEPT !.copies = @ - 1]
  /\ UNCHANGED <<cfg, requests, prop, signalVars, serving, storeVars, pc,
                 setupVars, clipVars>>

\* Window w is gone, for who still has to ask for its title or its text.
Forget(queue, w) ==
  [i \in DOMAIN queue |-> IF queue[i].win = w
                          THEN [queue[i] EXCEPT !.win = Nobody] ELSE queue[i]]

\* A window ends: its selections have no owner any more.  clipmenud has asked
\* to be told of new owners only, so nobody tells it.
Vanish(w) ==
  /\ selection' = [s \in Sels |-> IF selection[s].win = w THEN NoOffer
                                  ELSE selection[s]]
  /\ requests' = Forget(requests, w) /\ events' = Forget(events, w)

\* The same window may be opened again.
Close(w) ==
  /\ budget.copies > 0
  /\ Vanish(w)
  /\ budget' = [budget EXCEPT !.copies = @ - 1]
  /\ UNCHANGED <<cfg, prop, signalVars, serving, storeVars, pc, setupVars,
                 clipVars>>

\* An owner answers: the text is in the property, and clipmenud is told.  A
\* window answers in the order it was asked.  The SelectionNotify that follows
\* goes to the client that made the requestor; it is the root window, so there
\* is none ("we don't explicitly listen for SelectionNotify").  For an owner
\* that is gone nobody answers.
Answer(i) ==
  /\ i \in DOMAIN requests
  /\ \A j \in 1 .. i - 1 : Overtaking /\ requests[j].win # requests[i].win
  /\ requests' = RemoveAt(requests, i)
  /\ \/ /\ requests[i].win # Nobody
        /\ prop' = [prop EXCEPT ![requests[i].sel] = requests[i].text]
        /\ events' = Append(events, PropEvent(requests[i].sel))
     \/ requests[i].win = Nobody /\ UNCHANGED <<prop, events>>
  /\ UNCHANGED <<cfg, selection, signalVars, serving, storeVars, pc,
                 setupVars, clipVars, budget>>

\* Some property of the root window changes that is none of clipmenud's.
Noise ==
  /\ budget.noise > 0 /\ Alive
  /\ events' = Append(events, NoiseEvent)
  /\ budget' = [budget EXCEPT !.noise = @ - 1]
  /\ UNCHANGED <<cfg, xVars, signalVars, serving, storeVars, pc, setupVars,
                 clipVars>>

\* clipctl sends SIGUSR1 (disable) or SIGUSR2 (enable).
Signal(sig) ==
  /\ budget.signals > 0 /\ Alive
  /\ signals' = signals \union {sig}
  /\ budget' = [budget EXCEPT !.signals = @ - 1]
  /\ UNCHANGED <<cfg, xVars, events, enabled, serving, storeVars, pc,
                 setupVars, clipVars>>

\* serve_clipboard() takes the next selection for its clip.  (That it aborts
\* if somebody takes it at once is in Clipserve.)
Serve(i) ==
  /\ i \in DOMAIN serving
  /\ Take(ServedSelections[serving[i].next], serving[i].win, serving[i].text)
  /\ serving' = IF serving[i].next < Len(ServedSelections)
                THEN [serving EXCEPT ![i].next = @ + 1]
                ELSE RemoveAt(serving, i)
  /\ UNCHANGED <<cfg, requests, prop, signalVars, storeVars, pc, setupVars,
                 clipVars, budget>>

\* Window c serves a clip, or has one to serve.
Serving(c) == \/ \E i \in DOMAIN serving : serving[i].win = c
              \/ \E s \in Sels : selection[s].win = c

Mentions(queue, w) == \E i \in DOMAIN queue : queue[i].win = w

\* A clipserve that has lost all its selections ends, its requests answered:
\* it sees them in their order.  clipmenud may not have seen its title yet.
Retire(c) ==
  /\ ~Serving(c) /\ ~Mentions(requests, c) /\ Mentions(events, c)
  /\ Vanish(c)
  /\ UNCHANGED <<cfg, prop, signalVars, serving, storeVars, pc, setupVars,
                 clipVars, budget>>

Clipdel ==
  /\ Deletions
  /\ Store!Remove
  /\ UNCHANGED <<cfg, xVars, events, signalVars, serving, kept, pc, setupVars,
                 clipVars, budget>>

\* PARTIAL_MAX_SECS pass.
Tick ==
  /\ recent
  /\ recent' = FALSE
  /\ UNCHANGED <<cfg, xVars, events, signalVars, serving, storeVars, pc,
                 setupVars, last, current, budget>>

-----------------------------------------------------------------------------
(***************************************************************************)
(* clipmenud's own steps.                                                  *)
(***************************************************************************)
\* What is asked of the owner of selection s.
Request(s) == [win |-> selection[s].win, text |-> selection[s].text, sel |-> s]

\* A Convert() that does not ask for what it has asked for already.
ConvertOnce(s, queue) ==
  IF selection[s].win = Nobody
  THEN /\ events' = Append(queue, NackEvent(s))
       /\ UNCHANGED requests
  ELSE /\ requests' = IF \E i \in DOMAIN requests : requests[i].sel = s
                      THEN requests
                      ELSE Append(requests, Request(s))
       /\ events' = queue

\* XConvertSelection(), with `queue` the events left: the server passes the
\* request on to the owner there is when it gets it, or reports that there is
\* none.
Convert(s, queue) ==
  IF selection[s].win = Nobody
  THEN /\ events' = Append(queue, NackEvent(s))
       /\ UNCHANGED requests
  ELSE /\ requests' = Append(requests, Request(s))
       /\ events' = queue

\* XFixesSelectSelectionInput(), and one that is forgotten.
AddNoWatch(s) == UNCHANGED watched

AddWatch(s) == watched' = watched \union {s}

\* setup_watches(): watch the next selection and ask for what is in it.
SetupWatch ==
  /\ pc = "setup" /\ nrSetup < Len(Selections)
  /\ nrSetup' = nrSetup + 1
  /\ AddWatch(Selections[nrSetup + 1])
  /\ Convert(Selections[nrSetup + 1], events)
  /\ pc' = "poll"
  /\ UNCHANGED <<cfg, selection, prop, signalVars, serving, storeVars,
                 clipVars, budget>>

\* main() is done if it was for one shot.
SetupDone ==
  /\ pc = "setup" /\ nrSetup = Len(Selections)
  /\ pc' = IF cfg.oneshot THEN "exited" ELSE "poll"
  /\ UNCHANGED <<cfg, xVars, events, signalVars, serving, storeVars,
                 setupVars, clipVars, budget>>

\* A get_one_clip() of setup_watches() and one of run() return.
Return == pc' = IF nrSetup < Len(Selections) \/ cfg.oneshot THEN "setup"
                ELSE "poll"

(***************************************************************************)
(* get_one_clip(): events first; without any it waits in select(), where a *)
(* signal comes before the events that came with it.  One signal is read,  *)
(* of several pending ones the lowest.                                     *)
(***************************************************************************)
\* A get_one_clip() that never waits.
PollNoWait == "drain"

PollNext == IF events = <<>> THEN "select" ELSE "drain"

Poll ==
  /\ pc = "poll"
  /\ pc' = PollNext
  /\ UNCHANGED <<cfg, xVars, events, signalVars, serving, storeVars,
                 setupVars, clipVars, budget>>

\* handle_signalfd_event()
ReadSignal ==
  LET sig == IF "USR1" \in signals THEN "USR1" ELSE "USR2"
  IN  /\ signals' = signals \ {sig}
      /\ enabled' = (sig = "USR2")

SelectEvents ==
  /\ pc = "select" /\ events # <<>> /\ signals = {}
  /\ pc' = "drain"
  /\ UNCHANGED <<cfg, xVars, events, signalVars, serving, storeVars,
                 setupVars, clipVars, budget>>

SelectSignal ==
  /\ pc = "select" /\ signals # {}
  /\ ReadSignal
  /\ pc' = IF events = <<>> THEN "poll" ELSE "drain"
  /\ UNCHANGED <<cfg, xVars, events, serving, storeVars, setupVars, clipVars,
                 budget>>

(***************************************************************************)
(* handle_x11_event(): event by event until one ends the clip.             *)
(***************************************************************************)
Event == Head(events)

Drop == events' = Tail(events)

Drained ==
  /\ pc = "drain" /\ events = <<>>
  /\ Return
  /\ UNCHANGED <<cfg, xVars, events, signalVars, serving, storeVars,
                 setupVars, clipVars, budget>>

\* Nothing to do for this event: collection is disabled, or it is about a
\* property of somebody else.
Skip ==
  /\ pc = "drain" /\ events # <<>>
  /\ ~enabled \/ Event.type = "noise"
  /\ Drop
  /\ UNCHANGED <<cfg, xVars, signalVars, serving, storeVars, pc, setupVars,
                 clipVars, budget>>

\* An is_clipserve() that never recognises the window.
NeverClipserve(w) == FALSE

IsClipserve(w) == w \in Clipserves

\* handle_xfixes_selection_notify().  A window that is gone by now has no
\* title any more: it is neither clipserve nor ignored.
OwnerChanged ==
  /\ pc = "drain" /\ enabled /\ events # <<>> /\ Event.type = "owner"
  /\ IF IsClipserve(Event.win) \/ Event.win \in Ignored
     THEN Drop /\ UNCHANGED requests
     ELSE Convert(Event.sel, Tail(events))
  /\ UNCHANGED <<cfg, selection, prop, signalVars, serving, storeVars, pc,
                 setupVars, clipVars, budget>>

\* handle_selection_notify()
Nacked ==
  /\ pc = "drain" /\ enabled /\ events # <<>> /\ Event.type = "nack"
  /\ Drop
  /\ Return
  /\ UNCHANGED <<cfg, xVars, signalVars, serving, storeVars, setupVars,
                 clipVars, budget>>

\* handle_property_notify(): get_clipboard_text() reads what the property
\* holds by now.
TextReady == /\ pc = "drain" /\ enabled /\ events # <<>>
             /\ Event.type = "property"

Text == prop[Event.sel]

NotSalient ==
  /\ TextReady /\ Text \in Blank
  /\ Drop
  /\ Return
  /\ UNCHANGED <<cfg, xVars, signalVars, serving, storeVars, setupVars,
                 clipVars, budget>>

\* store_clip()
Merges == recent /\ <<last, Text>> \in IsPossiblePartial

\* A store_clip() that sets last_text only when there is none.
RememberFirst == /\ last' = IF last = NoText THEN Text ELSE last
                 /\ recent' = TRUE
                 /\ current' = [text |-> Text, sel |-> Event.sel]

Remember == /\ last' = Text
            /\ recent' = TRUE
            /\ current' = [text |-> Text, sel |-> Event.sel]

Keep == kept' = [kept EXCEPT ![Event.sel] = Text]

StoreNew ==
  /\ TextReady /\ Text \notin Blank /\ ~Merges
  /\ Store!Add(Text)
  /\ Remember /\ Keep
  /\ Drop
  /\ pc' = "trim"
  /\ UNCHANGED <<cfg, xVars, signalVars, serving, setupVars, budget>>

\* cs_replace() on an empty store says -ERANGE, and expect() aborts.
StoreMerge ==
  /\ TextReady /\ Text \notin Blank /\ Merges
  /\ Drop
  /\ \/ /\ log # <<>>
        /\ Store!Replace(Len(log), Text)
        /\ Remember /\ Keep
        /\ pc' = "trim"
     \/ /\ log = <<>>
        /\ pc' = "aborted"
        /\ UNCHANGED <<storeVars, clipVars>>
  /\ UNCHANGED <<cfg, xVars, signalVars, serving, setupVars, budget>>

\* One more than cs_trim() is to keep.
NewestAndOne(n) == IF n + 1 < Len(log) THEN SubSeq(log, Len(log) - n, Len(log))
                   ELSE log

\* The newest n of the log.
Newest(n) == IF n < Len(log) THEN SubSeq(log, Len(log) - n + 1, Len(log))
             ELSE log

\* A trim that waits until a whole batch can go.
NeedsTrimLate == Len(log) > MaxClips + MaxClipsBatch

NeedsTrim == Len(log) > MaxClipsBatch

\* run_clipserve(), if the clip at hand is to be served: a new window.
RunClipserve ==
  IF cfg.own_clipboard /\ current.sel \in Owned
  THEN \E c \in Clipserves :
         /\ ~Serving(c) /\ ~Mentions(requests \o events, c)
         /\ serving' = Append(serving, [win |-> c, text |-> current.text,
                                       next |-> 1])
  ELSE UNCHANGED serving

\* maybe_trim(), and then run_clipserve().
TrimAndServe ==
  /\ pc = "trim"
  /\ log' = IF NeedsTrim THEN Newest(MaxClips) ELSE log
  /\ RunClipserve
  /\ current' = NoClip
  /\ Return
  /\ UNCHANGED <<cfg, xVars, events, signalVars, kept, setupVars, last,
                 recent, budget>>

\* systemd starts clipmenud again: "Restart=always".
Restart ==
  /\ pc = "aborted"
  /\ pc' = "setup" /\ nrSetup' = 0 /\ watched' = {}
  /\ events' = <<>> /\ signals' = {}
  /\ enabled' = TRUE
  /\ last' = NoText /\ recent' = FALSE /\ current' = NoClip
  /\ UNCHANGED <<cfg, xVars, serving, storeVars, budget>>

-----------------------------------------------------------------------------
Daemon ==
  \/ SetupWatch \/ SetupDone \/ Poll \/ SelectEvents \/ SelectSignal
  \/ Drained \/ Skip \/ OwnerChanged \/ Nacked
  \/ NotSalient \/ StoreNew \/ StoreMerge \/ TrimAndServe \/ Restart

Others ==
  \/ \E s \in Sels, w \in Apps, t \in Texts : Copy(s, w, t)
  \/ \E s \in Sels : Clear(s)
  \/ \E w \in Apps : Close(w)
  \/ \E i \in DOMAIN requests : Answer(i)
  \/ Noise
  \/ \E sig \in {"USR1", "USR2"} : Signal(sig)
  \/ \E i \in DOMAIN serving : Serve(i)
  \/ \E c \in Clipserves : Retire(c)
  \/ Clipdel \/ Tick

Next == Daemon \/ Others

Spec == Init /\ [][Next]_vars

(***************************************************************************)
(* clipmenud keeps running, and the owner that was asked first answers (a  *)
(* window that never answers a conversion keeps its text to itself).       *)
(* Nobody has to copy, to signal or to delete anything.                    *)
(***************************************************************************)
Fairness == /\ WF_vars(Daemon)
            /\ WF_vars(Answer(1))
            /\ WF_vars(Serve(1))

FairSpec == Spec /\ Fairness

-----------------------------------------------------------------------------
TypeOK ==
  /\ cfg \in Configs
  /\ selection \in [Sels -> Offer \union {NoOffer}]
  /\ requests \in Seq([win : Windows \union {Nobody}, text : Texts,
                       sel : Sels])
  /\ prop \in [Sels -> Texts \union {NoText}]
  /\ \A i \in DOMAIN events :
       /\ events[i].type \in {"owner", "property", "nack", "noise"}
       /\ events[i].sel \in Sels
       /\ events[i].win \in Windows \union {Nobody}
       \* get_clipboard_text() never returns NULL to first_line().
       /\ events[i].type = "property" => prop[events[i].sel] # NoText
  /\ signals \subseteq {"USR1", "USR2"}
  /\ serving \in Seq([win : Clipserves, text : Texts,
                      next : DOMAIN ServedSelections])
  /\ log \in Seq(Texts) /\ kept \in [Sels -> Texts \union {NoText}]
  /\ pc \in {"setup", "poll", "select", "drain", "trim", "exited", "aborted"}
  /\ nrSetup \in 0 .. Len(Selections)
  /\ watched = {Selections[i] : i \in 1 .. nrSetup}
  /\ enabled \in BOOLEAN
  /\ last \in Texts \union {NoText} /\ recent \in BOOLEAN
  /\ current \in [text : Texts \union {NoText}, sel : Sels]
  /\ budget \in [copies : 0 .. MaxCopies, signals : 0 .. MaxSignals,
                 noise : 0 .. MaxNoise]

(***************************************************************************)
(* store_clip(): what a merge replaces is "the last clip", the one it      *)
(* compared the new text with, and not some other clip of the store.       *)
(***************************************************************************)
MergeReplacesLast ==
  [][StoreMerge /\ log # <<>> => log[Len(log)] = last]_vars

(***************************************************************************)
(* cfg.max_clips is "the maximum number of clips stored": between clips    *)
(* the store holds no more, however clips were added, merged, deleted and  *)
(* trimmed and however often clipmenud is started again (as long as        *)
(* cfg.max_clips_batch is not above it: by default it is a tenth).         *)
(***************************************************************************)
MaxClipsKept == pc # "trim" => Len(log) <= MaxClips

(***************************************************************************)
(* Whenever all has come to rest, what clipmenud stored last from a        *)
(* selection is what that selection offers, whatever windows took, cleared *)
(* and left it, however their events coalesced and their answers overwrote *)
(* one another, and whatever clipserve processes came and went meanwhile,  *)
(* if owners answer in the order they are asked in and the collection is   *)
(* not switched off.  (A partial that came from the other selection may    *)
(* have been merged over that clip since: is_possible_partial() is not     *)
(* transitive.)                                                            *)
(***************************************************************************)
Rest == events = <<>> /\ requests = <<>> /\ serving = <<>> /\ pc = "select"

Collected(s) == selection[s].win \in Apps \ Ignored
                /\ selection[s].text \notin Blank

LastCopyStored ==
  Rest => \A s \in watched : Collected(s) => kept[s] = selection[s].text

(***************************************************************************)
(* clipmenud and the clipserve processes it starts do not keep each other  *)
(* busy: after the last copy there comes an end to conversions and clips,  *)
(* and a oneshot clipmenud exits or waits for an owner that is gone.  The  *)
(* exception: clipserve processes that again and again lose everything and *)
(* end before clipmenud has asked for their title.                         *)
(***************************************************************************)
ComesToRest ==
  \/ <>[](Rest \/ (cfg.oneshot /\ pc = "exited"))
  \/ []<><<\E c \in Clipserves : Retire(c)>>_vars

(***************************************************************************)
(* "Not storing clipboard changes from certain applications, like password *)
(* managers": the store holds no text of a window with an ignored title.   *)
(***************************************************************************)
IgnoredNotStored == \A i \in DOMAIN log : log[i] \notin Secret

(***************************************************************************)
(* get_one_clip() goes on "until we fully process success or failure for a *)
(* clip": a oneshot clipmenud that exits has no conversion under way, and  *)
(* no text it has not read.  (While nobody else does anything: a copy, a   *)
(* clipserve, a signal or a foreign property can end a get_one_clip().)    *)
(***************************************************************************)
Undisturbed == budget = Bounds /\ ~cfg.own_clipboard

OneshotCompletes ==
  pc = "exited" /\ Undisturbed => requests = <<>> /\ events = <<>>
=============================================================================
