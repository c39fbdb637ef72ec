----------------------------- MODULE Clipserve ------------------------------
(***************************************************************************)
(* clipserve (src/clipserve.c): a process that maps the content of one     *)
(* clip, takes PRIMARY and then CLIPBOARD, answers the requests for them   *)
(* and ends when others have taken both.  Several of them run at a time,   *)
(* and take the selections from each other and from other windows.         *)
(*                                                                         *)
(* The X server tells an owner that it lost a selection, and passes on     *)
(* requests, through one queue of events per connection.                   *)
(***************************************************************************)
EXTENDS Naturals, Sequences

CONSTANTS
  Servers,     \* the clipserve processes
  Hashes,      \* what clipserve may be told to serve
  App,         \* every other window that takes selections
  Nobody,      \* no window
  NoHash,      \* not a hash
  Requests,    \* bound: the requests that clients make, each once
  MaxCopies    \* bound: how often App takes a selection

\* What is asked for: the list of targets, the text (by UTF8_STRING or
\* STRING), something else; a text for a window that is gone by then; a text
\* without a property to put it in, as clients of old do.
Kinds == {"targets", "text", "other", "gone", "no property"}

Sels == {"PRIMARY", "CLIPBOARD"}

\* The order in which serve_clipboard() takes them.
SelectionOrder == <<"PRIMARY", "CLIPBOARD">>

ASSUME WindowAssumption == /\ {App, Nobody} \intersect Servers = {}
                           /\ App # Nobody
ASSUME HashAssumption == NoHash \notin Hashes
ASSUME ServeBoundAssumption == MaxCopies \in Nat

VARIABLES
  owner,      \* the owner of each selection
  pc,         \* where each clipserve is
  hash,       \* the clip it was told to serve
  data,       \* what it has mapped, see cs_content_get()
  taken,      \* how many selections it has taken
  remaining,  \* remaining_selections
  queue,      \* the events the X server has sent it
  cleared,    \* history: the selections whose SelectionClear it has handled
  asked,      \* each request: whether it is answered, and who was asked
  serveBudget \* what is left of the bounds

serverVars == <<pc, hash, data, taken, remaining, cleared>>
serveVars  == <<owner, serverVars, queue, asked, serveBudget>>

\* "take" and "check": in the loop that takes the selections.
Ended   == {"done", "inaccessible", "aborted", "X error"}
ServePCs == {"off", "open", "take", "check", "loop", "error",
             "close", "unmap"} \union Ended

\* What cs_content_get() maps: the text, or as much as was there.
Data == {"none", "partial", "whole"}

Request(r) == [type |-> "request", of |-> r]
ClearOf(s) == [type |-> "clear", sel |-> s]
Events == {Request(r) : r \in Requests} \union {ClearOf(s) : s \in Sels}

WaitsFor(p) == [at |-> "waiting", of |-> p]

ServeGoto(p, l) == pc' = [pc EXCEPT ![p] = l]

-----------------------------------------------------------------------------
ServeInit ==
  /\ owner = [s \in Sels |-> App]
  /\ pc = [p \in Servers |-> "off"]
  /\ hash = [p \in Servers |-> NoHash]
  /\ data = [p \in Servers |-> "none"]
  /\ taken = [p \in Servers |-> 0]
  /\ remaining = [p \in Servers |-> 0]
  /\ queue = [p \in Servers |-> <<>>]
  /\ cleared = [p \in Servers |-> {}]
  /\ asked = [r \in Requests |-> [at |-> "unasked", of |-> Nobody]]
  /\ serveBudget = [copies |-> MaxCopies]

(***************************************************************************)
(* The X server.                                                           *)
(***************************************************************************)
\* w becomes the owner of s; a clipserve that was it is told so.
Own(s, w) ==
  /\ owner' = [owner EXCEPT ![s] = w]
  /\ queue' = IF owner[s] \in Servers \ {w}
              THEN [queue EXCEPT ![owner[s]] = Append(@, ClearOf(s))]
              ELSE queue

\* The connection of a process closes: its window goes, and with it its
\* selections; nobody reads its events any more, nor answers its requests.
Disconnect(p) ==
  /\ owner' = [s \in Sels |-> IF owner[s] = p THEN Nobody ELSE owner[s]]
  /\ queue' = [queue EXCEPT ![p] = <<>>]
  /\ asked' = [r \in Requests |-> IF asked[r] = WaitsFor(p)
                                 THEN [at |-> "dropped", of |-> p]
                                 ELSE asked[r]]

\* p ends, and what it kept with it.
Exit(p, how) ==
  /\ ServeGoto(p, how)
  /\ hash' = [hash EXCEPT ![p] = NoHash]
  /\ data' = [data EXCEPT ![p] = "none"]
  /\ taken' = [taken EXCEPT ![p] = 0]
  /\ remaining' = [remaining EXCEPT ![p] = 0]
  /\ cleared' = [cleared EXCEPT ![p] = {}]

(***************************************************************************)
(* Everybody else.                                                         *)
(***************************************************************************)
AppOwns(s) ==
  /\ serveBudget.copies > 0 /\ owner[s] \in Servers
  /\ Own(s, App)
  /\ serveBudget' = [serveBudget EXCEPT !.copies = @ - 1]
  /\ UNCHANGED <<serverVars, asked>>

\* A client asks the clipserve that owns s, and waits for the answer.
Ask(s, r) ==
  /\ asked[r].at = "unasked" /\ owner[s] \in Servers
  /\ queue' = [queue EXCEPT ![owner[s]] = Append(@, Request(r))]
  /\ asked' = [asked EXCEPT ![r] = WaitsFor(owner[s])]
  /\ UNCHANGED <<owner, serverVars, serveBudget>>

-----------------------------------------------------------------------------
(***************************************************************************)
(* clipserve.                                                              *)
(***************************************************************************)
\* run_clipserve()
Launch(p, h) ==
  /\ pc[p] = "off"
  /\ ServeGoto(p, "open")
  /\ hash' = [hash EXCEPT ![p] = h]
  /\ UNCHANGED <<owner, data, taken, remaining, queue, cleared, asked,
                 serveBudget>>

\* cs_content_get(), when the content of its hash is found as `state`: mmap()
\* refuses an empty file.
Fetch(p, state) ==
  /\ pc[p] = "open"
  /\ \/ /\ state \in {"partial", "whole"}
        /\ data' = [data EXCEPT ![p] = state]
        /\ ServeGoto(p, "take")
     \/ /\ state \in {"none", "empty"}
        /\ ServeGoto(p, "inaccessible")
        /\ UNCHANGED data
  /\ UNCHANGED <<owner, hash, taken, remaining, queue, cleared, asked,
                 serveBudget>>

\* XSetSelectionOwner()
TakeSelection(p) ==
  /\ pc[p] = "take"
  /\ Own(SelectionOrder[taken[p] + 1], p)
  /\ ServeGoto(p, "check")
  /\ UNCHANGED <<hash, data, taken, remaining, cleared, asked,
                 serveBudget>>

\* A remaining_selections that counts one.
RemainingOne == 1

Remaining == Len(SelectionOrder)

\* expect(XGetSelectionOwner(...) == win), and after the last one the loop.
CheckOwner(p) ==
  /\ pc[p] = "check"
  /\ LET last == taken[p] + 1 = Len(SelectionOrder)
     IN  IF owner[SelectionOrder[taken[p] + 1]] = p
         THEN /\ taken' = [taken EXCEPT ![p] = @ + 1]
              /\ remaining' = IF last THEN [remaining EXCEPT ![p] = Remaining]
                              ELSE remaining
              /\ ServeGoto(p, IF last THEN "loop" ELSE "take")
              /\ UNCHANGED <<owner, hash, data, queue, cleared, asked>>
         ELSE /\ Disconnect(p)
              /\ Exit(p, "aborted")
  /\ UNCHANGED serveBudget

NextEvent(p) == Head(queue[p])

Handles(p, type) == /\ pc[p] = "loop" /\ queue[p] # <<>>
                    /\ NextEvent(p).type = type
                    /\ queue' = [queue EXCEPT ![p] = Tail(@)]

\* A handler that has no answer to a target it does not know.
AnswersKnown(k) == k # "other"

\* XSendEvent(): every request is answered, also with a refusal.
Answers(k) == TRUE

\* SelectionRequest.  A property None is no atom: XChangeProperty() fails.
\* A window that is gone is one of the errors xerror_handler() forgives.
HandleRequest(p, k) ==
  /\ Handles(p, "request")
  /\ asked' = IF Answers(k)
              THEN [asked EXCEPT ![NextEvent(p).of].at = "answered"]
              ELSE asked
  /\ ServeGoto(p, IF k = "no property" THEN "error" ELSE "loop")
  /\ UNCHANGED <<owner, hash, data, taken, remaining, cleared,
                 serveBudget>>

\* xerror_handler() gets the error with the next events, or with the title of
\* the next requestor: it exits before another request is answered.
FatalXError(p) ==
  /\ pc[p] = "error"
  /\ Disconnect(p)
  /\ Exit(p, "X error")
  /\ UNCHANGED serveBudget

\* A loop that goes on until the count is below zero.
IsLastLate(p) == remaining[p] + 1 = 1

IsLast(p) == remaining[p] = 1

\* SelectionClear; which selection it is about is not looked at.
HandleClear(p) ==
  /\ Handles(p, "clear")
  /\ remaining' = [remaining EXCEPT ![p] = @ - 1]
  /\ cleared' = [cleared EXCEPT ![p] = @ \union {NextEvent(p).sel}]
  /\ ServeGoto(p, IF IsLast(p) THEN "close" ELSE "loop")
  /\ UNCHANGED <<owner, hash, data, taken, asked, serveBudget>>

\* XCloseDisplay()
CloseDisplay(p) ==
  /\ pc[p] = "close"
  /\ Disconnect(p)
  /\ ServeGoto(p, "unmap")
  /\ UNCHANGED <<hash, data, taken, remaining, cleared, serveBudget>>

\* cs_content_unmap() closes content->fd, a number that was closed when the text
\* was mapped and that XOpenDisplay() has got since: by now, nobody's.
Unmap(p) ==
  /\ pc[p] = "unmap"
  /\ Exit(p, "done")
  /\ UNCHANGED <<owner, queue, asked, serveBudget>>

ServeStep(p) ==
  \/ TakeSelection(p) \/ CheckOwner(p)
  \/ \E k \in Kinds : HandleRequest(p, k)
  \/ HandleClear(p) \/ FatalXError(p)
  \/ CloseDisplay(p) \/ Unmap(p)

XClients == \E s \in Sels : AppOwns(s) \/ \E r \in Requests : Ask(s, r)

-----------------------------------------------------------------------------
(***************************************************************************)
(* clipserve on its own: told to serve anything, finding any content.      *)
(***************************************************************************)
ServeNext ==
  \/ XClients
  \/ \E p \in Servers :
       \/ \E h \in Hashes \union {NoHash} : Launch(p, h)
       \/ \E c \in {"none", "empty", "partial", "whole"} : Fetch(p, c)
       \/ ServeStep(p)

ServeSpec == ServeInit /\ [][ServeNext]_serveVars

ServeTypeOK ==
  /\ owner \in [Sels -> Servers \union {App, Nobody}]
  /\ pc \in [Servers -> ServePCs]
  /\ hash \in [Servers -> Hashes \union {NoHash}]
  /\ data \in [Servers -> Data]
  /\ taken \in [Servers -> 0 .. 2]
  /\ remaining \in [Servers -> 0 .. 2]
  /\ queue \in [Servers -> Seq(Events)]
  /\ cleared \in [Servers -> SUBSET Sels]
  /\ asked \in [Requests -> [at : {"unasked", "waiting", "answered", "dropped"},
                            of : Servers \union {Nobody}]]
  /\ serveBudget \in [copies : 0 .. MaxCopies]

(***************************************************************************)
(* "Serve clipboard content for all X11 selection requests until all       *)
(* selections have been claimed by another application": a clipserve that  *)
(* leaves its loop by itself owns nothing and has no request left, however *)
(* early a selection was lost (even before the loop began) and whichever   *)
(* was lost first, although it only counts.                                *)
(***************************************************************************)
ServesUntilLost ==
  \A p \in Servers :
    pc[p] = "close" => queue[p] = <<>> /\ \A s \in Sels : owner[s] # p

(***************************************************************************)
(* Every client that has asked a clipserve gets an answer, whatever it     *)
(* asked for, whoever asked before it and whatever becomes of the          *)
(* selections, unless that very clipserve dies: on the X error of another  *)
(* request, or because it has lost a selection before it could check that. *)
(* A clipserve that ends by itself leaves nobody without an answer.        *)
(***************************************************************************)
Answered(r) == asked[r].at = "answered"

LostByDeath(r) == /\ asked[r].at = "dropped"
                  /\ pc[asked[r].of] \in {"aborted", "X error"}

\* r is made once: it is never without an answer again once it has had one.
Unanswered(r) == asked[r].at # "unasked" /\ ~Answered(r) /\ ~LostByDeath(r)

RequestsAnswered == \A r \in Requests : []<>~Unanswered(r)
=============================================================================
