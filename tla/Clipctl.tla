------------------------------ MODULE Clipctl -------------------------------
(***************************************************************************)
(* clipctl (src/clipctl.c) and the part of clipmenud it talks to: clipctl  *)
(* looks clipmenud up in /proc, sends it SIGUSR1 (disable) or SIGUSR2      *)
(* (enable), and reads the status file until that says what was asked for. *)
(* clipmenud writes the file when it starts and after each signal; it      *)
(* reads signals only when it is not at work on a clip, and the kernel     *)
(* keeps at most one of each kind for it.                                  *)
(***************************************************************************)
EXTENDS Naturals, FiniteSets

CONSTANTS
  Ctls,        \* clipctl invocations that can be under way together
  MaxTries,    \* MAX_STATE_RETRIES, 20 in the code
  BootSignals, \* may a command come before clipmenud is in its loop?
  Crashes,     \* may clipmenud be killed?
  MaxCommands, \* bound: commands given
  MaxStarts    \* bound: how often clipmenud is started

ASSUME CtlAssumption ==
  /\ MaxTries \in Nat \ {0} /\ MaxCommands \in Nat /\ MaxStarts \in Nat
  /\ {BootSignals, Crashes} \subseteq BOOLEAN

VARIABLES
  daemon,   \* what clipmenud is doing
  starts,   \* how often it was started; stands for its process ID
  enabled,  \* its variable
  signals,  \* its pending signals
  child,    \* is there a child of it that has not yet become clipserve?
  status,   \* the status file: "absent", "empty", "0" or "1"
  ctl,      \* each clipctl: its place, command, target and result
  commands, \* commands given
  orderly   \* history: see Orderly

daemonVars == <<daemon, starts, enabled, signals, child>>
vars == <<daemonVars, status, ctl, commands, orderly>>

\* "open", "write": write_status() of main().  "unmasked": up to sigprocmask().
\* "wait": in select().  "busy": storing a clip.  "write back": write_status()
\* of handle_signalfd_event().
Booting == {"open", "write", "unmasked"}
Running == {"wait", "busy", "write back"}

Idle == [pc |-> "idle", cmd |-> "none", want |-> FALSE, pid |-> 0,
         tries |-> 0, result |-> "none"]

Digit(b) == IF b THEN "1" ELSE "0"

\* clipctl's is_enabled(): anything but a '1' is "disabled".
IsEnabled == status = "1"

Init ==
  /\ daemon = "down" /\ starts = 0 /\ enabled = TRUE /\ signals = {}
  /\ child = FALSE
  /\ status = "absent"
  /\ ctl = [c \in Ctls |-> Idle]
  /\ commands = 0 /\ orderly = TRUE

-----------------------------------------------------------------------------
(***************************************************************************)
(* clipmenud.                                                              *)
(***************************************************************************)
\* It is started, by systemd whenever it is down ("Restart=always").
Start ==
  /\ daemon = "down" /\ starts < MaxStarts
  /\ daemon' = "open" /\ starts' = starts + 1
  /\ enabled' = TRUE
  /\ UNCHANGED <<signals, child, status, ctl, commands, orderly>>

\* write_status(): O_CREAT, but no O_TRUNC.
OpenStatus ==
  /\ daemon = "open"
  /\ daemon' = "write"
  /\ status' = IF status = "absent" THEN "empty" ELSE status
  /\ UNCHANGED <<starts, enabled, signals, child, ctl, commands, orderly>>

WriteStatus ==
  /\ daemon \in {"write", "write back"}
  /\ daemon' = IF daemon = "write" THEN "unmasked" ELSE "wait"
  /\ status' = Digit(enabled)
  /\ UNCHANGED <<starts, enabled, signals, child, ctl, commands, orderly>>

\* sigprocmask() and signalfd().
BlockSignals ==
  /\ daemon = "unmasked"
  /\ daemon' = "wait"
  /\ UNCHANGED <<starts, enabled, signals, child, status, ctl, commands,
                 orderly>>

\* A clip arrives, is stored, and perhaps served by a child.
ClipArrives ==
  /\ daemon = "wait" /\ ~child
  /\ daemon' = "busy"
  /\ UNCHANGED <<starts, enabled, signals, child, status, ctl, commands,
                 orderly>>

ClipStored ==
  /\ daemon = "busy"
  /\ daemon' = "wait"
  /\ child' \in BOOLEAN
  /\ UNCHANGED <<starts, enabled, signals, status, ctl, commands, orderly>>

\* run_clipserve(): until execvp() the child's name is "clipmenud", too.
ChildExecs ==
  /\ child
  /\ child' = FALSE
  /\ UNCHANGED <<daemon, starts, enabled, signals, status, ctl, commands,
                 orderly>>

\* A handler that leaves the file to the next one.
AfterSignalNoWrite == "wait"

AfterSignal == "write back"

\* A signalfd() for SIGUSR1 only.
MaskNoUsr2 == {"USR1"}

\* What is blocked is what sig_fd reads.
Mask == {"USR1", "USR2"}

\* handle_signalfd_event(): of several signals the lowest comes first.
ReadSignal ==
  /\ daemon = "wait" /\ signals \intersect Mask # {}
  /\ LET sig == IF "USR1" \in signals THEN "USR1" ELSE "USR2"
     IN  /\ signals' = signals \ {sig}
         /\ enabled' = (sig = "USR2")
  /\ daemon' = AfterSignal
  /\ UNCHANGED <<starts, child, status, ctl, commands, orderly>>

Crash ==
  /\ Crashes /\ daemon # "down"
  /\ daemon' = "down" /\ signals' = {}
  /\ orderly' = FALSE
  /\ UNCHANGED <<starts, enabled, child, status, ctl, commands>>

-----------------------------------------------------------------------------
(***************************************************************************)
(* clipctl.                                                                *)
(***************************************************************************)
Finish(c, r) == ctl' = [ctl EXCEPT ![c].pc = "idle", ![c].result = r]

\* A command is orderly that is given to a clipmenud in its loop, while no
\* other is under way, and that asks for a change.
Orderly(cmd) == /\ daemon \in Running
                /\ \A c \in Ctls : ctl[c].pc = "idle"
                /\ cmd = "toggle" \/ (cmd = "enable") # IsEnabled

\* A user gives a command.  The result of a command is kept until the next.
Command(c) ==
  /\ ctl[c].pc = "idle" /\ commands < MaxCommands
  /\ BootSignals \/ daemon \in Running
  /\ \E cmd \in {"enable", "disable", "toggle"} :
       /\ orderly' = (orderly /\ Orderly(cmd))
       /\ ctl' = [d \in Ctls |->
                   IF d = c THEN [Idle EXCEPT !.pc = "scan", !.cmd = cmd]
                   ELSE [ctl[d] EXCEPT !.result = "none"]]
  /\ commands' = commands + 1
  /\ UNCHANGED <<daemonVars, status>>

\* How many processes go by the name of clipmenud.
Instances == Cardinality({i \in {"daemon", "child"} :
                            IF i = "daemon" THEN daemon # "down" ELSE child})

\* get_clipmenud_pid()
Scan(c) ==
  /\ ctl[c].pc = "scan"
  /\ CASE Instances = 0 -> Finish(c, "not running")
       [] Instances > 1 -> Finish(c, "multiple")
       [] OTHER -> ctl' = [ctl EXCEPT ![c].pc = "mode",
                             ![c].pid = IF child THEN 0 ELSE starts]
  /\ UNCHANGED <<daemonVars, status, commands, orderly>>

\* should_enable()
ShouldEnable(c) == CASE ctl[c].cmd = "enable"  -> TRUE
                     [] ctl[c].cmd = "disable" -> FALSE
                     [] ctl[c].cmd = "toggle"  -> ~IsEnabled

Mode(c) ==
  /\ ctl[c].pc = "mode"
  /\ IF ctl[c].cmd = "toggle" /\ status = "absent"
     THEN Finish(c, "failed")
     ELSE ctl' = [ctl EXCEPT ![c].pc = "kill", ![c].want = ShouldEnable(c)]
  /\ UNCHANGED <<daemonVars, status, commands, orderly>>

\* The signal that asks for a state.
SignalFor(want) == IF want THEN "USR2" ELSE "USR1"

\* kill(): a signal that is not blocked yet ends clipmenud.  Process 0 stands
\* for the child, which inherits the blocked signals and never reads them: by
\* now it may be clipserve, and that may have ended.
SendSignal(c) ==
  /\ ctl[c].pc = "kill"
  /\ LET sig  == SignalFor(ctl[c].want)
         here == ctl[c].pid = starts /\ daemon # "down"
     IN  /\ \/ /\ here \/ ctl[c].pid = 0
               /\ ctl' = [ctl EXCEPT ![c].pc = "poll"]
            \/ ~here /\ Finish(c, "failed")
         /\ signals' = IF here /\ daemon \in Running THEN signals \union {sig}
                       ELSE signals
         /\ daemon' = IF here /\ daemon \in Booting THEN "down" ELSE daemon
  /\ UNCHANGED <<starts, enabled, child, status, commands, orderly>>

\* A clipctl that does not wait for clipmenud, and one that tries too often.
AnsweredAtOnce(c) == TRUE
OneMoreTry(c) == ctl[c].tries < MaxTries

Answered(c) == IsEnabled = ctl[c].want

MoreTries(c) == ctl[c].tries + 1 < MaxTries

\* clipmenud has done what it was sent.
Settled == signals = {} /\ daemon \in {"wait", "busy"}

\* is_enabled() in the loop, and the sleep after it.
PollStatus(c) ==
  /\ ctl[c].pc = "poll"
  /\ \/ /\ status # "absent" /\ Answered(c)
        /\ Finish(c, "ok")
        /\ UNCHANGED orderly
     \/ /\ status = "absent"
        /\ Finish(c, "failed")
        /\ UNCHANGED orderly
     \/ /\ status # "absent" /\ ~Answered(c) /\ MoreTries(c)
        /\ ctl' = [ctl EXCEPT ![c].tries = @ + 1]
        /\ UNCHANGED orderly
     \/ /\ status # "absent" /\ ~Answered(c) /\ ~MoreTries(c)
        /\ Finish(c, "failed")
        /\ orderly' = (orderly /\ Settled)
  /\ UNCHANGED <<daemonVars, status, commands>>

-----------------------------------------------------------------------------
Daemon == OpenStatus \/ WriteStatus \/ BlockSignals \/ ClipStored \/ ReadSignal

CtlStep(c) == Scan(c) \/ Mode(c) \/ SendSignal(c) \/ PollStatus(c)

Next == \/ Start \/ Daemon \/ ClipArrives \/ ChildExecs \/ Crash
        \/ \E c \in Ctls : Command(c) \/ CtlStep(c)

Spec == Init /\ [][Next]_vars

(***************************************************************************)
(* systemd starts clipmenud, clipmenud keeps running and clipctl keeps     *)
(* polling.  Clips do not come so fast that clipmenud never gets to        *)
(* select() with a signal pending: reading it is strongly fair.            *)
(***************************************************************************)
Fairness == /\ WF_vars(Start) /\ WF_vars(Daemon) /\ SF_vars(ReadSignal)
            /\ WF_vars(ChildExecs)
            /\ \A c \in Ctls : WF_vars(CtlStep(c))

FairSpec == Spec /\ Fairness

-----------------------------------------------------------------------------
Results == {"none", "ok", "failed", "multiple", "not running"}

TypeOK ==
  /\ daemon \in {"down"} \union Booting \union Running
  /\ starts \in 0 .. MaxStarts
  /\ enabled \in BOOLEAN /\ child \in BOOLEAN
  /\ signals \subseteq {"USR1", "USR2"}
  /\ status \in {"absent", "empty", "0", "1"}
  /\ ctl \in [Ctls -> [pc : {"idle", "scan", "mode", "kill", "poll"},
                       cmd : {"none", "enable", "disable", "toggle"},
                       want : BOOLEAN, pid : 0 .. MaxStarts,
                       tries : 0 .. MaxTries - 1, result : Results]]
  /\ commands \in 0 .. MaxCommands /\ orderly \in BOOLEAN

(***************************************************************************)
(* What `clipctl status` and every decision of clipctl rest on: while      *)
(* clipmenud is in its loop, the file says what its variable says, across  *)
(* crashes, restarts and signals that arrive at any time.                  *)
(***************************************************************************)
StatusTruthful == daemon \in {"wait", "busy"} => status = Digit(enabled)

(***************************************************************************)
(* A command that reports success has taken effect, and stays in effect:   *)
(* as long as no other command is given, clipmenud is in the state asked   *)
(* for, and no signal is left that will take it out of it again.           *)
(***************************************************************************)
SuccessHolds ==
  \A c \in Ctls : ctl[c].pc = "idle" /\ ctl[c].result = "ok"
                    => /\ enabled = ctl[c].want
                       /\ signals \subseteq {SignalFor(ctl[c].want)}

(***************************************************************************)
(* The part of it that the code keeps: as long as every command was        *)
(* orderly, none gave up on a clipmenud still at work, and clipmenud was   *)
(* not killed.                                                             *)
(***************************************************************************)
OrderlySuccessHolds == orderly => SuccessHolds

\* No signal stays unread, unless clipmenud dies.
SignalsRead == \A s \in {"USR1", "USR2"} : s \in signals ~> s \notin signals

(***************************************************************************)
(* Every clipctl ends, and when all have, no signal is left unread and the *)
(* file says for good what the variable of a clipmenud that runs says: no  *)
(* late signal and no late write is left over.                             *)
(***************************************************************************)
Converges ==
  <>[](/\ \A c \in Ctls : ctl[c].pc = "idle"
       /\ signals = {}
       /\ daemon # "down" => status = Digit(enabled))
=============================================================================
