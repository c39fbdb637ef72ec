------------------------------ MODULE MCInputs ------------------------------
(***************************************************************************)
(* What comes from outside: the configuration (Config) or the texts of     *)
(* clips (ClipText).  The two do not depend on one another, and a          *)
(* behaviour is about one of them, its subject.                            *)
(***************************************************************************)
EXTENDS MCConfig, MCClipText

VARIABLE subject

MCTextUnused == /\ doc = <<>> /\ anchor = 0
                /\ sides = {} /\ last = NoText /\ kept = <<>>
MCConfigUnused == /\ env = MCEnv(<<>>) /\ files = <<>> /\ phase = "no path"
                  /\ at = 1 /\ read = 0 /\ isSet = [i \in EntryIds |-> FALSE]
                  /\ cfg = [i \in EntryIds |-> Null]

MCInit == \/ subject = "config" /\ ConfigInit /\ MCTextUnused
          \/ subject = "text" /\ TextInit /\ MCConfigUnused

MCNext == /\ UNCHANGED subject
          /\ \/ subject = "config" /\ ConfigNext /\ UNCHANGED textVars
             \/ subject = "text" /\ TextNext /\ UNCHANGED configVars

MCSpec == MCInit /\ [][MCNext]_<<configVars, textVars, subject>>

\* Every variable keeps its type.
TypeOK == ConfigTypeOK /\ TextTypeOK
=============================================================================
