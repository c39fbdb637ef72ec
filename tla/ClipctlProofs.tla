---------------------------- MODULE ClipctlProofs ----------------------------
(***************************************************************************)
(* Proofs about Clipctl, for any number of clipctl processes, of retries   *)
(* and of restarts of clipmenud.                                           *)
(***************************************************************************)
EXTENDS Clipctl, FiniteSetTheorems, TLAPS

(***************************************************************************)
(* What StatusTruthful needs to be inductive: the file is right from the   *)
(* end of write_status() in main() on, before clipmenud is in its loop,    *)
(* and wrong at most between the two halves of handle_signalfd_event().    *)
(***************************************************************************)
Written == daemon \in {"unmasked", "wait", "busy"} => status = Digit(enabled)

\* No step of clipmenud, of a clipctl or of the outside world breaks Written.
LEMMA WrittenStep == ASSUME Written, [Next]_vars
                     PROVE  Written'
<1> USE DEF Written, daemonVars
<1>1. CASE Start
  BY <1>1 DEF Start
<1>2. CASE OpenStatus
  BY <1>2 DEF OpenStatus
<1>3. CASE WriteStatus
  BY <1>3 DEF WriteStatus, Digit
<1>4. CASE BlockSignals
  BY <1>4 DEF BlockSignals, Digit
<1>5. CASE ClipStored
  BY <1>5 DEF ClipStored, Digit
<1>6. CASE ReadSignal
  BY <1>6 DEF ReadSignal, AfterSignal
<1>7. CASE ClipArrives
  BY <1>7 DEF ClipArrives, Digit
<1>8. CASE ChildExecs
  BY <1>8 DEF ChildExecs, Digit
<1>9. CASE Crash
  BY <1>9 DEF Crash
<1>10. ASSUME NEW c \in Ctls, Command(c)
       PROVE  Written'
  BY <1>10 DEF Command, Digit
<1>11. ASSUME NEW c \in Ctls, CtlStep(c)
       PROVE  Written'
  <2>1. CASE Scan(c)
    BY <2>1 DEF Scan, Digit
  <2>2. CASE Mode(c)
    BY <2>2 DEF Mode, Digit
  <2>3. CASE SendSignal(c)
    <3>1. /\ UNCHANGED <<enabled, status>>
          /\ daemon' = daemon \/ daemon' = "down"
      BY <2>3 DEF SendSignal
    <3> QED
      BY <3>1 DEF Digit
  <2>4. CASE PollStatus(c)
    BY <2>4 DEF PollStatus, Digit
  <2> QED
    BY <1>11, <2>1, <2>2, <2>3, <2>4 DEF CtlStep
<1>12. CASE UNCHANGED vars
  BY <1>12 DEF vars, Digit
<1> QED
  BY <1>1, <1>2, <1>3, <1>4, <1>5, <1>6, <1>7, <1>8, <1>9, <1>10, <1>11, <1>12
     DEF Next, Daemon

(***************************************************************************)
(* The status file is truthful while clipmenud is in its loop: whatever    *)
(* signals are sent and whenever clipmenud is killed and started again,    *)
(* write_status() in main() and in handle_signalfd_event() suffices.       *)
(***************************************************************************)
THEOREM StatusIsTruthful == Spec => []StatusTruthful
<1>1. Init => Written
  BY DEF Init, Written
<1>2. Written /\ [Next]_vars => Written'
  BY WrittenStep
<1>3. Written => StatusTruthful
  BY DEF Written, StatusTruthful
<1> QED
  BY <1>1, <1>2, <1>3, PTL DEF Spec

(***************************************************************************)
(* Type correctness.                                                       *)
(***************************************************************************)
CtlType == [pc : {"idle", "scan", "mode", "kill", "poll"},
            cmd : {"none", "enable", "disable", "toggle"},
            want : BOOLEAN, pid : 0 .. MaxStarts,
            tries : 0 .. MaxTries - 1, result : Results]

\* Unlike what TypeOK says, a clipctl at work has a command.
CtlState == {r \in CtlType : r.pc # "idle" => r.cmd # "none"}

DaemonTypes == /\ daemon \in {"down"} \union Booting \union Running
               /\ starts \in 0 .. MaxStarts
               /\ enabled \in BOOLEAN /\ child \in BOOLEAN
               /\ signals \subseteq {"USR1", "USR2"}
               /\ status \in {"absent", "empty", "0", "1"}

CtlTypes == /\ ctl \in [Ctls -> CtlState]
            /\ commands \in 0 .. MaxCommands /\ orderly \in BOOLEAN

Types == DaemonTypes /\ CtlTypes

LEMMA TypesSuffice == Types => TypeOK
<1>1. CtlState \subseteq CtlType
  BY DEF CtlState
<1>2. CtlTypes => ctl \in [Ctls -> CtlType]
  BY <1>1 DEF CtlTypes
<1> QED
  BY <1>2 DEF Types, TypeOK, DaemonTypes, CtlTypes, CtlType

LEMMA IdleType ==
  /\ Idle \in CtlState
  /\ \A cmd \in {"enable", "disable", "toggle"} :
       [Idle EXCEPT !.pc = "scan", !.cmd = cmd] \in CtlState
<1>1. 0 \in 0 .. MaxStarts /\ 0 \in 0 .. MaxTries - 1
  BY CtlAssumption
<1> QED
  BY <1>1 DEF Idle, CtlState, CtlType, Results

LEMMA TypesInit == Init => Types
<1> SUFFICES ASSUME Init
             PROVE  DaemonTypes /\ CtlTypes
  BY DEF Types
<1>1. 0 \in 0 .. MaxStarts /\ 0 \in 0 .. MaxCommands
  BY CtlAssumption
<1>2. DaemonTypes
  BY <1>1 DEF Init, DaemonTypes
<1> QED
  BY <1>1, <1>2, IdleType DEF Init, CtlTypes

\* A step that changes what one clipctl knows, and nothing else of it.
LEMMA CtlTypesKept ==
  ASSUME CtlTypes, NEW c \in Ctls, NEW r \in CtlState,
         ctl' = [ctl EXCEPT ![c] = r], commands' = commands,
         orderly' \in BOOLEAN
  PROVE  CtlTypes'
BY DEF CtlTypes

\* What a clipctl may note of itself.
LEMMA FinishTypes ==
  ASSUME CtlTypes, NEW c \in Ctls, NEW r \in Results, Finish(c, r),
         commands' = commands, orderly' \in BOOLEAN
  PROVE  CtlTypes'
<1>1. ctl[c] \in CtlState
  BY DEF CtlTypes
<1>2. [ctl[c] EXCEPT !.pc = "idle", !.result = r] \in CtlState
  BY <1>1 DEF CtlState, CtlType
<1>3. ctl' = [ctl EXCEPT ![c] = [ctl[c] EXCEPT !.pc = "idle", !.result = r]]
  BY DEF Finish, CtlTypes
<1> QED
  BY <1>2, <1>3, CtlTypesKept

LEMMA DaemonStepTypes ==
  ASSUME DaemonTypes, Start \/ Daemon \/ ClipArrives \/ ChildExecs \/ Crash
  PROVE  DaemonTypes'
<1> USE DEF DaemonTypes, Booting, Running
<1>1. CASE Start
  BY <1>1, CtlAssumption DEF Start
<1>2. CASE OpenStatus
  BY <1>2 DEF OpenStatus
<1>3. CASE WriteStatus
  BY <1>3 DEF WriteStatus, Digit
<1>4. CASE BlockSignals
  BY <1>4 DEF BlockSignals
<1>5. CASE ClipStored
  BY <1>5 DEF ClipStored
<1>6. CASE ReadSignal
  BY <1>6 DEF ReadSignal, AfterSignal
<1>7. CASE ClipArrives
  BY <1>7 DEF ClipArrives
<1>8. CASE ChildExecs
  BY <1>8 DEF ChildExecs
<1>9. CASE Crash
  BY <1>9 DEF Crash
<1> QED
  BY <1>1, <1>2, <1>3, <1>4, <1>5, <1>6, <1>7, <1>8, <1>9 DEF Daemon

\* What the steps of a clipctl leave alone.
LEMMA CtlStepKeeps ==
  ASSUME NEW c \in Ctls, CtlStep(c)
  PROVE  /\ UNCHANGED <<starts, enabled, child, status, commands>>
         /\ ~SendSignal(c) => UNCHANGED <<daemon, signals>>
         /\ ~PollStatus(c) => UNCHANGED orderly
         /\ ctl[c].pc # "idle"
BY DEF CtlStep, Scan, Mode, SendSignal, PollStatus, daemonVars

LEMMA CtlStepTypes ==
  ASSUME Types, NEW c \in Ctls, CtlStep(c)
  PROVE  Types'
<1> USE DEF Types
<1>1. ctl[c] \in CtlState /\ ctl \in [Ctls -> CtlState] /\ orderly \in BOOLEAN
  BY DEF CtlTypes
<1>2. {"none", "ok", "failed", "multiple", "not running"} \subseteq Results
  BY DEF Results
<1>3. commands' = commands /\ orderly' \in BOOLEAN
  <2>1. PollStatus(c) => orderly' \in BOOLEAN
    BY <1>1 DEF PollStatus, Settled
  <2> QED
    BY <1>1, <2>1, CtlStepKeeps
<1>4. DaemonTypes'
  <2>1. signals' \subseteq {"USR1", "USR2"}
    BY CtlStepKeeps DEF SendSignal, SignalFor, DaemonTypes
  <2>2. daemon' \in {daemon, "down"}
    BY CtlStepKeeps DEF SendSignal
  <2> QED
    BY <2>1, <2>2, CtlStepKeeps DEF DaemonTypes
<1>5. ASSUME NEW r \in Results, Finish(c, r)
      PROVE  CtlTypes'
  BY <1>3, <1>5, FinishTypes
<1>6. ASSUME NEW r, ctl' = [ctl EXCEPT ![c] = r], r \in CtlState
      PROVE  CtlTypes'
  BY <1>3, <1>6, CtlTypesKept
<1>7. CASE Scan(c)
  <2>1. CASE ctl' = [ctl EXCEPT ![c].pc = "mode",
                       ![c].pid = IF child THEN 0 ELSE starts]
    <3> DEFINE r == [ctl[c] EXCEPT !.pc = "mode",
                                   !.pid = IF child THEN 0 ELSE starts]
    <3>1. (IF child THEN 0 ELSE starts) \in 0 .. MaxStarts
      BY CtlAssumption DEF DaemonTypes
    <3>2. ctl[c].pc # "idle"
      BY <1>7 DEF Scan
    <3>3. r \in CtlState
      BY <1>1, <3>1, <3>2 DEF CtlState, CtlType
    <3>4. ctl' = [ctl EXCEPT ![c] = r]
      BY <1>1, <2>1
    <3> HIDE DEF r
    <3> QED
      BY <1>4, <1>6, <3>3, <3>4
  <2> QED
    BY <1>2, <1>4, <1>5, <1>7, <2>1 DEF Scan
<1>8. CASE Mode(c)
  <2>1. CASE ctl' = [ctl EXCEPT ![c].pc = "kill",
                                ![c].want = ShouldEnable(c)]
    <3> DEFINE r == [ctl[c] EXCEPT !.pc = "kill", !.want = ShouldEnable(c)]
    <3>1. ctl[c].cmd \in {"enable", "disable", "toggle"}
      BY <1>1, <1>8 DEF Mode, CtlState, CtlType
    <3>2. ShouldEnable(c) \in BOOLEAN
      BY <3>1 DEF ShouldEnable, IsEnabled
    <3>3. r \in CtlState
      BY <1>1, <3>1, <3>2 DEF CtlState, CtlType
    <3>4. ctl' = [ctl EXCEPT ![c] = r]
      BY <1>1, <2>1
    <3> HIDE DEF r
    <3> QED
      BY <1>4, <1>6, <3>3, <3>4
  <2> QED
    BY <1>2, <1>4, <1>5, <1>8, <2>1 DEF Mode
<1>9. CASE SendSignal(c)
  <2>1. CASE ctl' = [ctl EXCEPT ![c].pc = "poll"]
    <3> DEFINE r == [ctl[c] EXCEPT !.pc = "poll"]
    <3>1. ctl[c].pc # "idle"
      BY <1>9 DEF SendSignal
    <3>2. r \in CtlState
      BY <1>1, <3>1 DEF CtlState, CtlType
    <3>3. ctl' = [ctl EXCEPT ![c] = r]
      BY <1>1, <2>1
    <3> HIDE DEF r
    <3> QED
      BY <1>4, <1>6, <3>2, <3>3
  <2>2. Finish(c, "failed") \/ ctl' = [ctl EXCEPT ![c].pc = "poll"]
    BY <1>9 DEF SendSignal
  <2> QED
    BY <1>2, <1>4, <1>5, <2>1, <2>2
<1>10. CASE PollStatus(c)
  <2>1. CASE MoreTries(c) /\ ctl' = [ctl EXCEPT ![c].tries = @ + 1]
    <3> DEFINE r == [ctl[c] EXCEPT !.tries = @ + 1]
    <3>1. ctl[c].tries \in 0 .. MaxTries - 1
      BY <1>1 DEF CtlState, CtlType
    <3>2. ctl[c].tries + 1 \in 0 .. MaxTries - 1
      BY <2>1, <3>1, CtlAssumption DEF MoreTries
    <3>3. r \in CtlState
      BY <1>1, <3>2 DEF CtlState, CtlType
    <3>4. ctl' = [ctl EXCEPT ![c] = r]
      BY <1>1, <2>1
    <3> HIDE DEF r
    <3> QED
      BY <1>4, <1>6, <3>3, <3>4
  <2> QED
    BY <1>2, <1>4, <1>5, <1>10, <2>1 DEF PollStatus
<1> QED
  BY <1>7, <1>8, <1>9, <1>10 DEF CtlStep

LEMMA CommandTypes ==
  ASSUME Types, NEW c \in Ctls, Command(c)
  PROVE  Types'
<1>1. DaemonTypes'
  BY DEF Command, Types, DaemonTypes, daemonVars
<1>2. commands' \in 0 .. MaxCommands
  BY CtlAssumption DEF Command, Types, CtlTypes
<1>3. PICK cmd \in {"enable", "disable", "toggle"} :
        /\ orderly' = (orderly /\ Orderly(cmd))
        /\ ctl' = [d \in Ctls |->
                     IF d = c THEN [Idle EXCEPT !.pc = "scan", !.cmd = cmd]
                     ELSE [ctl[d] EXCEPT !.result = "none"]]
  BY DEF Command
<1>4. orderly' \in BOOLEAN
  BY <1>3 DEF Types, CtlTypes, Orderly
<1>5. ASSUME NEW d \in Ctls
      PROVE  [ctl[d] EXCEPT !.result = "none"] \in CtlState
  <2>1. ctl[d] \in CtlState
    BY DEF Types, CtlTypes
  <2> QED
    BY <2>1 DEF CtlState, CtlType, Results
<1>6. ctl' \in [Ctls -> CtlState]
  BY <1>3, <1>5, IdleType
<1> QED
  BY <1>1, <1>2, <1>4, <1>6 DEF Types, CtlTypes

LEMMA TypesStep == Types /\ [Next]_vars => Types'
<1> SUFFICES ASSUME Types, [Next]_vars
             PROVE  Types'
  OBVIOUS
<1>1. CASE Start \/ Daemon \/ ClipArrives \/ ChildExecs \/ Crash
  <2>1. UNCHANGED <<ctl, commands>> /\ orderly' \in {orderly, FALSE}
    BY <1>1 DEF Start, Daemon, OpenStatus, WriteStatus, BlockSignals,
       ClipStored, ReadSignal, ClipArrives, ChildExecs, Crash
  <2>2. CtlTypes'
    BY <2>1 DEF Types, CtlTypes
  <2> QED
    BY <1>1, <2>2, DaemonStepTypes DEF Types
<1>2. CASE UNCHANGED vars
  BY <1>2 DEF vars, daemonVars, Types, DaemonTypes, CtlTypes
<1> QED
  BY <1>1, <1>2, CtlStepTypes, CommandTypes DEF Next

LEMMA TypesHold == Spec => []Types
BY TypesInit, TypesStep, PTL DEF Spec

(***************************************************************************)
(* Every variable keeps its type: no clipctl polls more often than it may, *)
(* and none decides without a command.                                     *)
(***************************************************************************)
THEOREM CtlTypeOK == Spec => []TypeOK
BY TypesHold, TypesSuffice, PTL

(***************************************************************************)
(* OrderlySuccessHolds.  While commands are orderly at most one clipctl    *)
(* matters at a time (the others wait for nothing and claim nothing), and  *)
(* where it is tells what clipmenud has been sent, read and written.       *)
(***************************************************************************)
InLoop == daemon \in {"wait", "busy"}

\* Nothing has been sent that is not written yet.
Quiet == signals = {} /\ daemon # "write back"

Out(c) == ctl[c].pc = "idle" /\ ctl[c].result = "none"

\* c's signal is pending; or it is read; or what it asked for is written, too.
Sent(c) ==
  \/ /\ signals = {SignalFor(ctl[c].want)} /\ InLoop
     /\ ctl[c].want # IsEnabled
  \/ /\ signals = {} /\ daemon = "write back" /\ enabled = ctl[c].want
     /\ ctl[c].want # IsEnabled /\ status # "absent"
  \/ signals = {} /\ InLoop /\ enabled = ctl[c].want

Follows(c) ==
  /\ ctl[c].pc \in {"scan", "mode", "kill"} => InLoop /\ signals = {}
  /\ ctl[c].pc \in {"scan", "mode"}
       => ctl[c].cmd = "toggle" \/ (ctl[c].cmd = "enable") # IsEnabled
  /\ ctl[c].pc \in {"mode", "kill"} => ctl[c].pid = starts
  /\ ctl[c].pc = "kill" => ctl[c].want # IsEnabled
  /\ ctl[c].pc = "poll" => Sent(c)
  /\ ctl[c].pc = "idle" /\ ctl[c].result = "ok"
       => InLoop /\ signals = {} /\ enabled = ctl[c].want

InTurn ==
  /\ \A c, d \in Ctls : c = d \/ Out(c) \/ Out(d)
  /\ (\A c \in Ctls : ctl[c].pc # "poll") => Quiet
  /\ \A c \in Ctls : Follows(c)

OneAtATime == orderly => InTurn

\* clipmenud's own steps: the file says what the variable says when it is in
\* its loop (Written), and a signal that was read is written at once.
LEMMA InTurnDaemonStep ==
  ASSUME Types, Written, InTurn, orderly,
         Start \/ Daemon \/ ClipArrives \/ ChildExecs
  PROVE  InTurn'
<1> USE DEF InTurn
<1>1. UNCHANGED ctl /\ \A c \in Ctls : Out(c)' = Out(c)
  BY DEF Start, Daemon, OpenStatus, WriteStatus, BlockSignals, ClipStored,
     ReadSignal, ClipArrives, ChildExecs, Out
<1>2. InLoop => status = Digit(enabled)
  BY DEF InLoop, Written
<1>3. enabled \in BOOLEAN /\ signals \subseteq {"USR1", "USR2"}
      /\ \A c \in Ctls : ctl[c].want \in BOOLEAN
  <2>1. \A c \in Ctls : ctl[c] \in CtlState
    BY DEF Types, CtlTypes
  <2> QED
    BY <2>1 DEF Types, DaemonTypes, CtlState, CtlType
<1>4. CASE daemon \in {"down", "open", "write", "unmasked"}
           /\ (Start \/ OpenStatus \/ WriteStatus \/ BlockSignals)
  <2>1. signals' = signals /\ daemon' # "write back"
    BY <1>4 DEF Start, OpenStatus, WriteStatus, BlockSignals
  <2>2. ASSUME NEW c \in Ctls
        PROVE  ctl[c].pc \notin {"scan", "mode", "kill", "poll"}
               /\ ~(ctl[c].pc = "idle" /\ ctl[c].result = "ok")
    <3>1. Follows(c)
      OBVIOUS
    <3> QED
      BY <1>4, <3>1 DEF Follows, Sent, InLoop
  <2>3. \A c \in Ctls : Follows(c)'
    BY <1>1, <2>2 DEF Follows
  <2>4. Quiet'
    BY <2>1, <2>2 DEF Quiet
  <2> QED
    BY <1>1, <2>3, <2>4
<1>5. CASE ClipStored \/ ClipArrives
  <2>1. UNCHANGED <<signals, starts, enabled, status>> /\ InLoop /\ InLoop'
    BY <1>5 DEF ClipStored, ClipArrives, InLoop
  <2>2. \A c \in Ctls : Follows(c)'
    BY <1>1, <2>1 DEF Follows, Sent, InLoop, IsEnabled
  <2>3. (\A c \in Ctls : ctl'[c].pc # "poll") => Quiet'
    BY <1>1, <2>1 DEF Quiet, InLoop
  <2> QED
    BY <1>1, <2>2, <2>3
<1>6. CASE ChildExecs
  <2>1. UNCHANGED <<daemon, signals, starts, enabled, status>>
    BY <1>6 DEF ChildExecs
  <2>2. \A c \in Ctls : Follows(c)'
    BY <1>1, <2>1 DEF Follows, Sent, InLoop, IsEnabled
  <2>3. (\A c \in Ctls : ctl'[c].pc # "poll") => Quiet'
    BY <1>1, <2>1 DEF Quiet
  <2> QED
    BY <1>1, <2>2, <2>3
<1>7. CASE ReadSignal
  <2>1. PICK c \in Ctls : ctl[c].pc = "poll"
    BY <1>7 DEF ReadSignal, Quiet
  <2>2. \A d \in Ctls : d = c \/ Out(d)
    BY <2>1 DEF Out
  <2>3. /\ signals = {SignalFor(ctl[c].want)} /\ InLoop
        /\ ctl[c].want # IsEnabled
    BY <1>7, <2>1 DEF ReadSignal, Follows, Sent
  <2>4. signals' = {} /\ enabled' = ctl[c].want
    BY <1>3, <1>7, <2>3 DEF ReadSignal, SignalFor
  <2>5. daemon' = "write back" /\ status' = status
    BY <1>7 DEF ReadSignal, AfterSignal
  <2>6. Follows(c)'
    BY <1>1, <1>2, <2>1, <2>3, <2>4, <2>5
       DEF Follows, Sent, IsEnabled, Digit
  <2>7. \A d \in Ctls : d # c => Follows(d)'
    BY <1>1, <2>2 DEF Follows, Out
  <2> QED
    BY <1>1, <2>1, <2>6, <2>7
<1>8. CASE WriteStatus /\ daemon = "write back"
  <2>1. PICK c \in Ctls : ctl[c].pc = "poll"
    BY <1>8 DEF Quiet
  <2>2. \A d \in Ctls : d = c \/ Out(d)
    BY <2>1 DEF Out
  <2>3. signals = {} /\ enabled = ctl[c].want
    BY <1>8, <2>1 DEF Follows, Sent, InLoop
  <2>4. daemon' = "wait" /\ UNCHANGED <<signals, enabled>>
    BY <1>8 DEF WriteStatus
  <2>5. Follows(c)'
    BY <1>1, <2>1, <2>3, <2>4 DEF Follows, Sent, InLoop
  <2>6. \A d \in Ctls : d # c => Follows(d)'
    BY <1>1, <2>2 DEF Follows, Out
  <2> QED
    BY <1>1, <2>1, <2>5, <2>6
<1> QED
  BY <1>4, <1>5, <1>6, <1>7, <1>8 DEF Daemon, Start, OpenStatus, WriteStatus,
     BlockSignals

\* An orderly command makes its clipctl the one that matters.
LEMMA InTurnCommand ==
  ASSUME Types, InTurn, NEW c \in Ctls, Command(c), orderly'
  PROVE  InTurn'
<1> USE DEF InTurn
<1>1. PICK cmd \in {"enable", "disable", "toggle"} :
        /\ Orderly(cmd)
        /\ ctl' = [d \in Ctls |->
                     IF d = c THEN [Idle EXCEPT !.pc = "scan", !.cmd = cmd]
                     ELSE [ctl[d] EXCEPT !.result = "none"]]
  BY DEF Command
<1>2. UNCHANGED <<daemon, starts, enabled, signals, status>>
  BY DEF Command, daemonVars
<1>3. \A d \in Ctls : ctl[d].pc = "idle"
  BY <1>1 DEF Orderly
<1>4. Quiet /\ InLoop
  BY <1>1, <1>3 DEF Orderly, Running, Quiet, InLoop
<1>5. ASSUME NEW d \in Ctls, d # c
      PROVE  Out(d)'
  <2>1. ctl[d] \in CtlState
    BY DEF Types, CtlTypes
  <2>2. ctl'[d] = [ctl[d] EXCEPT !.result = "none"]
    BY <1>1, <1>5
  <2>3. ctl'[d].pc = "idle" /\ ctl'[d].result = "none"
    BY <1>3, <2>1, <2>2 DEF CtlState, CtlType
  <2> QED
    BY <2>3 DEF Out
<1>6. ctl'[c].pc = "scan" /\ ctl'[c].cmd = cmd
  BY <1>1 DEF Idle
<1>7. Follows(c)'
  BY <1>1, <1>2, <1>4, <1>6 DEF Follows, Orderly, Quiet, InLoop, IsEnabled
<1>8. \A d \in Ctls : d # c => Follows(d)'
  BY <1>5 DEF Follows, Out
<1>9. Quiet'
  BY <1>2, <1>4 DEF Quiet
<1> QED
  BY <1>5, <1>7, <1>8, <1>9

\* One that gives up claims nothing.
LEMMA GivesUp ==
  ASSUME Types, NEW c \in Ctls, NEW r \in Results \ {"ok"}, Finish(c, r)
  PROVE  Follows(c)' /\ ctl'[c].pc = "idle"
<1>1. ctl \in [Ctls -> CtlState] /\ ctl[c] \in CtlState
  BY DEF Types, CtlTypes
<1>2. ctl'[c].pc = "idle" /\ ctl'[c].result = r
  BY <1>1 DEF Finish, CtlState, CtlType
<1> QED
  BY <1>2 DEF Follows

\* The steps of the clipctl that matters.
LEMMA InTurnCtlStep ==
  ASSUME Types, Written, InTurn, orderly, NEW c \in Ctls, CtlStep(c), orderly'
  PROVE  InTurn'
<1> USE DEF InTurn
<1>1. ctl[c].pc # "idle" /\ UNCHANGED <<starts, enabled, child, status>>
  BY CtlStepKeeps
<1>2. \A d \in Ctls : d # c => Out(d)
  BY <1>1 DEF Out
<1>3. ctl \in [Ctls -> CtlState] /\ ctl[c] \in CtlState
      /\ ctl[c].want \in BOOLEAN
      /\ ctl[c].pc \in {"scan", "mode", "kill", "poll"}
  <2>1. ctl \in [Ctls -> CtlState] /\ ctl[c] \in CtlState
    BY DEF Types, CtlTypes
  <2> QED
    BY <1>1, <2>1 DEF CtlState, CtlType
<1>4. ASSUME NEW d \in Ctls, d # c
      PROVE  ctl'[d] = ctl[d]
  <2>1. ASSUME NEW r
        PROVE  [ctl EXCEPT ![c] = r][d] = ctl[d]
    BY <1>3, <1>4
  <2> QED
    BY <1>3, <1>4 DEF CtlStep, Scan, Mode, SendSignal, PollStatus, Finish
<1>5. ASSUME NEW d \in Ctls, d # c
      PROVE  Out(d)' /\ Follows(d)'
  BY <1>2, <1>4, <1>5 DEF Follows, Out
<1>6. ASSUME Follows(c)', ctl'[c].pc # "poll" => Quiet'
      PROVE  InTurn'
  BY <1>5, <1>6
<1>7. ASSUME NEW r, Finish(c, r)
      PROVE  /\ ctl'[c].pc = "idle" /\ ctl'[c].result = r
             /\ ctl'[c].want = ctl[c].want
  BY <1>3, <1>7 DEF Finish, CtlState, CtlType
<1>8. Follows(c) /\ (ctl[c].pc # "poll" => Quiet)
  BY <1>2 DEF Out
<1>9. InLoop => IsEnabled = enabled
  BY DEF Written, InLoop, IsEnabled, Digit, Types, DaemonTypes
<1>10. CASE Scan(c)
  <2>1. UNCHANGED <<daemon, signals>> /\ ctl[c].pc = "scan"
    BY <1>10 DEF Scan, daemonVars
  <2>2. InLoop /\ Quiet /\ signals = {}
    BY <1>8, <2>1 DEF Follows
  <2>3. CASE Finish(c, "not running") \/ Finish(c, "multiple")
    BY <1>6, <2>1, <2>2, <2>3, GivesUp DEF Quiet, Results
  <2>4. CASE /\ ~(Finish(c, "not running") \/ Finish(c, "multiple"))
             /\ ctl' = [ctl EXCEPT ![c].pc = "mode",
                          ![c].pid = IF child THEN 0 ELSE starts]
    <3>1. ~child
      <4>1. CASE child
        <5>1. {i \in {"daemon", "child"} :
                 IF i = "daemon" THEN daemon # "down" ELSE child}
              = {"daemon", "child"}
          BY <2>2, <4>1 DEF InLoop
        <5>2. IsFiniteSet({"daemon"}) /\ Cardinality({"daemon"}) = 1
          BY FS_Singleton
        <5>3. Cardinality({"daemon"} \union {"child"}) = 2
          BY <5>2, FS_AddElement
        <5>4. {"daemon"} \union {"child"} = {"daemon", "child"}
          OBVIOUS
        <5>5. Instances = 2
          BY <5>1, <5>3, <5>4 DEF Instances
        <5>6. Finish(c, "multiple")
          BY <1>10, <5>5 DEF Scan
        <5> QED
          BY <2>4, <5>6
      <4> QED
        BY <4>1
    <3>2. ctl'[c].pc = "mode" /\ ctl'[c].pid = starts
          /\ ctl'[c].cmd = ctl[c].cmd
      BY <1>3, <2>4, <3>1 DEF CtlState, CtlType
    <3>3. Follows(c)'
      BY <1>1, <1>8, <2>1, <2>2, <3>2 DEF Follows, InLoop, IsEnabled
    <3> QED
      BY <1>6, <2>1, <2>2, <3>3 DEF Quiet
  <2> QED
    BY <1>10, <2>3, <2>4 DEF Scan
<1>11. CASE Mode(c)
  <2>1. UNCHANGED <<daemon, signals>> /\ ctl[c].pc = "mode"
    BY <1>11 DEF Mode, daemonVars
  <2>2. InLoop /\ Quiet /\ signals = {} /\ ctl[c].pid = starts
    BY <1>8, <2>1 DEF Follows
  <2>3. CASE Finish(c, "failed")
    BY <1>6, <2>1, <2>2, <2>3, GivesUp DEF Quiet, Results
  <2>4. CASE ctl' = [ctl EXCEPT ![c].pc = "kill",
                                ![c].want = ShouldEnable(c)]
    <3>1. ctl'[c].pc = "kill" /\ ctl'[c].pid = starts
          /\ ctl'[c].want = ShouldEnable(c)
      BY <1>3, <2>2, <2>4 DEF CtlState, CtlType
    <3>2. ctl[c].cmd \in {"enable", "disable", "toggle"}
      BY <1>3, <2>1 DEF CtlState, CtlType
    <3>3. ShouldEnable(c) # IsEnabled
      BY <1>8, <2>1, <3>2 DEF ShouldEnable, Follows, IsEnabled
    <3>4. Follows(c)'
      BY <1>1, <2>1, <2>2, <3>1, <3>3 DEF Follows, InLoop, IsEnabled
    <3> QED
      BY <1>6, <2>1, <2>2, <3>4 DEF Quiet
  <2> QED
    BY <1>11, <2>3, <2>4 DEF Mode
<1>12. CASE SendSignal(c)
  <2>1. ctl[c].pc = "kill"
    BY <1>12 DEF SendSignal
  <2>2. InLoop /\ signals = {} /\ ctl[c].pid = starts
        /\ ctl[c].want # IsEnabled
    BY <1>8, <2>1 DEF Follows
  <2>3. /\ ctl' = [ctl EXCEPT ![c].pc = "poll"]
        /\ signals' = signals \union {SignalFor(ctl[c].want)}
        /\ daemon' = daemon
    BY <1>12, <2>2 DEF SendSignal, InLoop, Running, Booting
  <2>4. ctl'[c].pc = "poll" /\ ctl'[c].want = ctl[c].want
    BY <1>3, <2>3 DEF CtlState, CtlType
  <2>5. Sent(c)'
    BY <1>1, <2>2, <2>3, <2>4 DEF Sent, InLoop, IsEnabled
  <2>6. Follows(c)'
    BY <2>4, <2>5 DEF Follows
  <2> QED
    BY <1>6, <2>4, <2>6
<1>13. CASE PollStatus(c)
  <2>1. UNCHANGED <<daemon, signals>> /\ ctl[c].pc = "poll" /\ Sent(c)
    BY <1>8, <1>13 DEF PollStatus, daemonVars, Follows
  <2>2. CASE status # "absent" /\ Answered(c) /\ Finish(c, "ok")
    <3>1. signals = {} /\ InLoop /\ enabled = ctl[c].want
      BY <1>9, <2>1, <2>2 DEF Sent, Answered
    <3> QED
      BY <1>1, <1>6, <1>7, <2>1, <2>2, <3>1 DEF Follows, Quiet, InLoop
  <2>3. CASE status = "absent" /\ Finish(c, "failed")
    <3>1. InLoop => status # "absent"
      BY DEF Written, InLoop, Digit
    <3> QED
      BY <2>1, <2>3, <3>1 DEF Sent
  <2>4. CASE MoreTries(c) /\ ctl' = [ctl EXCEPT ![c].tries = @ + 1]
    <3>1. ctl'[c].pc = "poll" /\ ctl'[c].want = ctl[c].want
      BY <1>3, <2>1, <2>4 DEF CtlState, CtlType
    <3>2. Sent(c)'
      BY <1>1, <2>1, <3>1 DEF Sent, InLoop, IsEnabled
    <3> QED
      BY <1>6, <3>1, <3>2 DEF Follows
  <2>5. CASE Finish(c, "failed") /\ orderly' = (orderly /\ Settled)
    <3>1. Quiet
      BY <2>5 DEF Settled, Quiet
    <3> QED
      BY <1>6, <2>1, <2>5, <3>1, GivesUp DEF Quiet, Results
  <2> QED
    BY <1>13, <2>2, <2>3, <2>4, <2>5 DEF PollStatus
<1> QED
  BY <1>10, <1>11, <1>12, <1>13 DEF CtlStep

LEMMA OneAtATimeStep ==
  ASSUME Types, Written, OneAtATime, [Next]_vars
  PROVE  OneAtATime'
<1> SUFFICES ASSUME orderly'
             PROVE  InTurn'
  BY DEF OneAtATime
<1>1. orderly
  <2>1. ASSUME NEW c \in Ctls, Command(c)
        PROVE  orderly
    BY <2>1 DEF Command
  <2>2. ASSUME NEW c \in Ctls, CtlStep(c)
        PROVE  orderly
    BY <2>2 DEF CtlStep, Scan, Mode, SendSignal, PollStatus
  <2> QED
    BY <2>1, <2>2 DEF Next, Start, Daemon, OpenStatus, WriteStatus,
       BlockSignals, ClipStored, ReadSignal, ClipArrives, ChildExecs, Crash,
       vars
<1>2. InTurn
  BY <1>1 DEF OneAtATime
<1>3. ~Crash
  BY DEF Crash
<1>4. CASE UNCHANGED vars
  BY <1>2, <1>4 DEF vars, daemonVars, InTurn, Out, Quiet, Follows, Sent,
     InLoop, IsEnabled
<1> QED
  BY <1>1, <1>2, <1>3, <1>4, InTurnDaemonStep, InTurnCommand, InTurnCtlStep
     DEF Next

(***************************************************************************)
(* A command that says it has succeeded has taken effect and stays in      *)
(* effect until the next one, for any number of clipctl processes, tries   *)
(* and commands: as long as each is given to a clipmenud in its loop, with *)
(* no other under way, asks for a change and does not give up too early,   *)
(* no signal is left that could undo it.                                   *)
(***************************************************************************)
THEOREM OrderlySuccess == Spec => []OrderlySuccessHolds
<1>1. Init => OneAtATime
  <2>1. Init => \A c \in Ctls : ctl[c].pc = "idle" /\ ctl[c].result = "none"
    BY DEF Init, Idle
  <2> QED
    BY <2>1 DEF Init, OneAtATime, InTurn, Out, Quiet, Follows
<1>2. Init => Written
  BY DEF Init, Written
<1>3. Types /\ Written /\ OneAtATime /\ [Next]_vars => OneAtATime'
  BY OneAtATimeStep
<1>4. Written /\ [Next]_vars => Written'
  BY WrittenStep
<1>5. OneAtATime => OrderlySuccessHolds
  BY DEF OneAtATime, InTurn, Follows, OrderlySuccessHolds, SuccessHolds
<1> QED
  BY <1>1, <1>2, <1>3, <1>4, <1>5, TypesHold, PTL DEF Spec
=============================================================================
