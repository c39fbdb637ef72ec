--------------------------- MODULE InputsProofs ----------------------------
(***************************************************************************)
(* Proofs about what comes from outside: the configuration (Config) and    *)
(* the texts of clips (ClipText), which do not depend on one another, and  *)
(* about MCInputs, which has both.  None of its values is used.            *)
(***************************************************************************)
EXTENDS MCInputs, FiniteSetTheorems, SequenceTheorems, WellFoundedInduction,
        TLAPS

-----------------------------------------------------------------------------
(***************************************************************************)
(* Proof that config_setup() resolves every entry to the value of its      *)
(* source, for any environment, any file of any length and any conversion. *)
(* The inductive invariant says which entries are set in each phase.       *)
(***************************************************************************)
Early == {"path", "no path", "aborted"}

Good(i) == cfg[i] = Configured(i) /\ Configured(i) # Invalid

FromEnv(i) == env[Entries[i].var] # Null

FromFile(i) == \E l \in LinesFor(i) : l <= read

Typed ==
  /\ phase \in Phases /\ at \in EntryIds
  /\ isSet \in [EntryIds -> BOOLEAN] /\ DOMAIN cfg = EntryIds

FileIsLines == DOMAIN Lines = 1 .. Len(Lines) /\ Len(Lines) \in Nat

Opened == phase \notin Early => FileIsLines /\ read \in 0 .. Len(Lines)

Paths == \A k \in 1 .. 3 :
           files[PathVars[k]] \in
             {Missing, Unreadable}
               \union Seq([key : STRING, value : Strings \union {Null}])

SetSoFar ==
  /\ phase = "path" => at = 1 /\ read = 0 /\ \A i \in EntryIds : ~isSet[i]
  /\ phase = "env" => /\ read = 0
                      /\ \A i \in EntryIds : isSet[i] <=> i < at /\ FromEnv(i)
  /\ phase = "file" => /\ at = 1
                       /\ \A i \in EntryIds :
                            isSet[i] <=> FromEnv(i) \/ FromFile(i)
  /\ phase = "default" => \A i \in EntryIds :
                            isSet[i] <=> FromEnv(i) \/ LinesFor(i) # {}

GoodSoFar ==
  /\ phase \in {"env", "file", "default"} =>
       \A i \in EntryIds : isSet[i] => Good(i)
  /\ phase = "default" => \A i \in EntryIds : i < at => Good(i)

ConfigInv == Typed /\ Opened /\ Paths /\ SetSoFar /\ GoodSoFar /\ Resolved

-----------------------------------------------------------------------------
\* The table has ten entries, no two with the same key.
LEMMA EntriesFact ==
  /\ Len(Entries) = 10
  /\ \A i, j \in EntryIds : Entries[i].key = Entries[j].key => i = j
<1> DEFINE keys == <<"max_clips", "max_clips_batch", "oneshot",
                     "own_clipboard", "selections", "own_selections",
                     "ignore_window", "launcher", "launcher_pass_dmenu_args",
                     "cm_dir">>
<1>1. Len(Entries) = 10
  BY DEF Entries
<1>2. \A i \in EntryIds : Entries[i].key = keys[i]
  BY DEF Entries, Entry, EntryIds
<1>3. \A i, j \in EntryIds : keys[i] = keys[j] => i = j
  BY DEF EntryIds
<1> QED BY <1>1, <1>2, <1>3

\* What the value of an entry is to be, in the three cases.
LEMMA SourceFact ==
  ASSUME NEW i \in EntryIds
  PROVE  /\ FromEnv(i) => Source(i) = env[Entries[i].var]
         /\ \A l \in LinesFor(i) :
              ~FromEnv(i) /\ (\A m \in LinesFor(i) : l <= m)
                /\ LinesFor(i) \subseteq Int
                => Source(i) = Lines[l].value
         /\ ~FromEnv(i) /\ LinesFor(i) = {} => Source(i) = Entries[i].default
<1>1. FromEnv(i) => Source(i) = env[Entries[i].var]
  BY DEF FromEnv, Source
<1>2. ASSUME NEW l \in LinesFor(i), ~FromEnv(i), LinesFor(i) \subseteq Int,
             \A m \in LinesFor(i) : l <= m
      PROVE  Source(i) = Lines[l].value
  <2> DEFINE first == FirstLineFor(i)
  <2>1. first \in LinesFor(i) /\ \A m \in LinesFor(i) : first <= m
    BY <1>2 DEF FirstLineFor
  <2>2. first = l
    BY <1>2, <2>1
  <2> QED BY <1>2, <2>2 DEF FromEnv, Source
<1>3. ~FromEnv(i) /\ LinesFor(i) = {} => Source(i) = Entries[i].default
  BY DEF FromEnv, Source
<1> QED BY <1>1, <1>2, <1>3

\* Nothing that depends on the inputs only changes.
LEMMA InputsStay ==
  ASSUME UNCHANGED inputVars
  PROVE  /\ Lines' = Lines
         /\ \A i : LinesFor(i)' = LinesFor(i)
         /\ \A i : Configured(i)' = Configured(i)
         /\ \A i : FromEnv(i)' = FromEnv(i)
         /\ read' = read => \A i : FromFile(i)' = FromFile(i)
         /\ FileIsLines' = FileIsLines
         /\ Paths' = Paths
<1>1. env' = env /\ files' = files
  BY DEF inputVars
<1>2. \A k \in 1 .. 3 : FileAt(k)' = FileAt(k) /\ FirstSet(k)' = FirstSet(k)
  BY <1>1 DEF FileAt, FirstSet
<1>3. Lines' = Lines
  BY <1>1, <1>2 DEF Lines, FileAt, FirstSet
<1>4. \A i : LinesFor(i)' = LinesFor(i)
  BY <1>3 DEF LinesFor
<1>5. \A i : Source(i)' = Source(i)
  <2> TAKE i
  <2>1. FirstLineFor(i)' = FirstLineFor(i)
    BY <1>3 DEF FirstLineFor, LinesFor
  <2>2. LinesFor(i)' = LinesFor(i)
    BY <1>4
  <2> QED BY <1>1, <1>3, <2>1, <2>2 DEF Source
<1>6. \A i : Configured(i)' = Configured(i)
  BY <1>1, <1>5 DEF Configured
<1>7. \A i : FromEnv(i)' = FromEnv(i)
  BY <1>1 DEF FromEnv
<1>8. read' = read => \A i : FromFile(i)' = FromFile(i)
  BY <1>4 DEF FromFile
<1>9. FileIsLines' = FileIsLines
  BY <1>3 DEF FileIsLines
<1>10. Paths' = Paths
  BY <1>1 DEF Paths
<1> QED BY <1>3, <1>4, <1>6, <1>7, <1>8, <1>9, <1>10

-----------------------------------------------------------------------------
LEMMA InitInv == ConfigInit => ConfigInv
<1> SUFFICES ASSUME ConfigInit PROVE ConfigInv
  OBVIOUS
<1>1. Typed
  BY DEF ConfigInit, Typed, Phases, EntryIds
<1>a. Opened
  BY DEF ConfigInit, Opened, Early
<1>2. Paths
  BY InputAssumption DEF ConfigInit, Paths
<1>3. SetSoFar
  BY DEF ConfigInit, SetSoFar
<1>4. GoodSoFar /\ Resolved
  BY DEF ConfigInit, GoodSoFar, Resolved
<1> QED BY <1>1, <1>a, <1>2, <1>3, <1>4 DEF ConfigInv

\* No line for an entry comes before the first.
LEMMA LineNumbers ==
  ASSUME FileIsLines, NEW i
  PROVE  LinesFor(i) \subseteq 1 .. Len(Lines) /\ (read = 0 => ~FromFile(i))
BY DEF FileIsLines, LinesFor, FromFile

\* The file that is opened is the one that Lines is about.
LEMMA OpenStep ==
  ASSUME ConfigInv, OpenFile PROVE ConfigInv'
<1> USE DEF Phases, Ended, Early
<1>1. phase = "path" /\ phase' \in {"no path", "aborted", "env"}
      /\ at' = at /\ read' = read /\ isSet' = isSet /\ cfg' = cfg
      /\ UNCHANGED inputVars
  BY DEF OpenFile
<1>a. at = 1 /\ read = 0 /\ \A i \in EntryIds : ~isSet[i]
  BY <1>1 DEF ConfigInv, SetSoFar
<1>2. phase' = "env" => FileIsLines
  <2> SUFFICES ASSUME phase' = "env" PROVE FileIsLines
    OBVIOUS
  <2>1. PICK k \in 1 .. 3 : FirstSet(k) /\ files[PathVars[k]] # Unreadable
    BY DEF OpenFile
  <2>2. \A l \in 1 .. 3 : FirstSet(l) => l = k
    BY <2>1 DEF FirstSet
  <2>3. Lines = FileAt(k)
    BY <2>1, <2>2 DEF Lines
  <2>4. FileAt(k) \in Seq([key : STRING, value : Strings \union {Null}])
    BY <2>1 DEF FileAt, ConfigInv, Paths
  <2> QED BY <2>3, <2>4 DEF FileIsLines
<1>3. Typed' /\ Paths'
  BY <1>1, InputsStay DEF ConfigInv, Typed
<1>4. Opened'
  <2>1. phase' = "env" => FileIsLines' /\ Len(Lines)' = Len(Lines)
    BY <1>1, <1>2, InputsStay
  <2>2. ASSUME phase' \notin Early PROVE phase' = "env"
    BY <1>1, <2>2
  <2>3. ASSUME phase' = "env" PROVE read' \in 0 .. Len(Lines)'
    <3>1. Len(Lines) \in Nat
      BY <1>2, <2>3 DEF FileIsLines
    <3>2. read' = 0 /\ Len(Lines)' = Len(Lines)
      BY <1>1, <1>a, <2>1, <2>3
    <3> QED BY <3>1, <3>2
  <2> QED BY <2>1, <2>2, <2>3 DEF Opened
<1>5. SetSoFar'
  <2>1. at' = 1 /\ read' = 0 /\ \A i \in EntryIds : ~isSet'[i]
    BY <1>1, <1>a
  <2>2. \A i \in EntryIds : ~(i < 1)
    BY DEF EntryIds
  <2> QED BY <1>1, <2>1, <2>2 DEF SetSoFar
<1>6. GoodSoFar' /\ Resolved'
  BY <1>1 DEF ConfigInv, SetSoFar, GoodSoFar, Resolved
<1> QED BY <1>3, <1>4, <1>5, <1>6 DEF ConfigInv

\* What is read of the inputs does not change in any step.
LEMMA GoodStays ==
  ASSUME UNCHANGED inputVars, NEW i, cfg'[i] = cfg[i]
  PROVE  Good(i)' <=> Good(i)
BY InputsStay DEF Good

LEMMA EnvStep ==
  ASSUME ConfigInv, config_parse_env_vars PROVE ConfigInv'
<1> USE DEF Phases, Ended, Early, EntryIds
<1>1. phase = "env" /\ read' = read /\ read = 0 /\ UNCHANGED inputVars
  BY DEF config_parse_env_vars, ConfigInv, SetSoFar
<1>2. Opened' /\ Paths'
  <2>1. FileIsLines' /\ Len(Lines)' = Len(Lines) /\ Paths' = Paths
    BY <1>1, InputsStay DEF ConfigInv, Opened
  <2> QED BY <1>1, <2>1 DEF ConfigInv, Opened
<1>3. FromEnv(at) => Source(at) = env[Entries[at].var]
  BY SourceFact DEF ConfigInv, Typed
<1>4. Advance("file") => /\ at < 10 => at' = at + 1 /\ phase' = "env"
                         /\ at = 10 => at' = 1 /\ phase' = "file"
  BY <1>1, EntriesFact DEF Advance, ConfigInv, Typed
<1>b. Advance("file") => at' \in EntryIds /\ phase' \in Phases
  <2>1. at \in 1 .. 10
    BY DEF ConfigInv, Typed
  <2>2. at < 10 => at + 1 \in 1 .. 10
    BY <2>1
  <2>3. at < 10 \/ at = 10
    BY <2>1
  <2>4. Advance("file") => at' \in 1 .. 10
    BY <1>4, <2>2, <2>3
  <2>5. Advance("file") => phase' \in Phases
    BY <1>4, <2>3
  <2> QED BY <2>4, <2>5
<1>a. \A i \in EntryIds : ~FromFile(i)' /\ FromEnv(i)' = FromEnv(i)
  BY <1>1, InputsStay, LineNumbers DEF ConfigInv, Opened
<1>5. CASE ~FromEnv(at) /\ Advance("file") /\ UNCHANGED <<isSet, cfg>>
  <2>1. Typed'
    BY <1>b, <1>5 DEF ConfigInv, Typed
  <2>4. SetSoFar'
    BY <1>1, <1>4, <1>5, <1>a DEF ConfigInv, SetSoFar, Typed
  <2>5. GoodSoFar' /\ Resolved'
    BY <1>1, <1>4, <1>5, GoodStays
    DEF ConfigInv, GoodSoFar, Typed, Resolved
  <2> QED BY <1>2, <2>1, <2>4, <2>5 DEF ConfigInv
<1>6. CASE FromEnv(at) /\ Assign(at, env[Entries[at].var]) /\ Advance("file")
  <2> PICK e \in EntryIds : e = at
    BY DEF ConfigInv, Typed
  <2>1. /\ cfg' = [cfg EXCEPT ![e] = Configured(e)]
        /\ Configured(e) # Invalid
        /\ isSet' = [isSet EXCEPT ![e] = TRUE]
    BY <1>3, <1>6 DEF Assign, Configured
  <2>2. Typed'
    BY <1>b, <1>6, <2>1 DEF ConfigInv, Typed
  <2>5. SetSoFar'
    BY <1>1, <1>4, <1>6, <2>1, <1>a DEF ConfigInv, SetSoFar, Typed
  <2>6. Good(e)'
    BY <1>1, <2>1, InputsStay DEF Good, ConfigInv, Typed
  <2>7. \A i \in EntryIds \ {e} : Good(i)' <=> Good(i)
    BY <1>1, <2>1, GoodStays DEF ConfigInv, Typed
  <2>8. GoodSoFar' /\ Resolved'
    BY <1>1, <1>4, <1>6, <2>1, <2>6, <2>7
    DEF ConfigInv, GoodSoFar, Typed, Resolved
  <2> QED BY <1>2, <2>2, <2>5, <2>8 DEF ConfigInv
<1>7. CASE FromEnv(at) /\ Refuse(at, env[Entries[at].var])
  <2>1. /\ Configured(at) = Invalid /\ phase' = "invalid" /\ at' = at
        /\ isSet' = isSet /\ cfg' = cfg
    BY <1>3, <1>7 DEF Refuse, Configured
  <2>2. Typed' /\ SetSoFar' /\ GoodSoFar'
    BY <1>1, <2>1 DEF ConfigInv, Typed, SetSoFar, GoodSoFar
  <2>3. Resolved'
    BY <1>1, <2>1, InputsStay DEF Resolved, ConfigInv, Typed
  <2> QED BY <1>2, <2>2, <2>3 DEF ConfigInv
<1> QED BY <1>5, <1>6, <1>7 DEF config_parse_env_vars, FromEnv

\* The next line is for the entry of its key, and only the first one counts.
LEMMA FileStep ==
  ASSUME ConfigInv, config_parse_file PROVE ConfigInv'
<1>1. /\ phase = "file" /\ read' = read + 1 /\ UNCHANGED inputVars
      /\ read < Len(Lines) /\ at' = at
  BY DEF config_parse_file, Refuse
<1>2. FileIsLines /\ Len(Lines) \in Nat /\ read \in 0 .. Len(Lines)
  BY <1>1 DEF ConfigInv, Opened, Early, FileIsLines
<1> DEFINE line == Lines[read + 1]
<1>3. read + 1 \in 1 .. Len(Lines)
  BY <1>1, <1>2
<1>4. \A i : LinesFor(i) \subseteq 1 .. Len(Lines)
  BY <1>2, LineNumbers
<1>5. \A i \in EntryIds :
        read + 1 \in LinesFor(i)
          <=> line.value # Null /\ line.key = Entries[i].key
  BY <1>2, <1>3 DEF LinesFor, FileIsLines
<1>6. \A i \in EntryIds :
        FromFile(i)' <=> FromFile(i) \/ read + 1 \in LinesFor(i)
  <2>1. \A i \in EntryIds : LinesFor(i)' = LinesFor(i)
    BY <1>1, InputsStay
  <2>2. \A i \in EntryIds : \A l \in LinesFor(i) :
          l <= read + 1 <=> l <= read \/ l = read + 1
    BY <1>2, <1>4
  <2>3. \A i \in EntryIds :
          FromFile(i)' <=> \E l \in LinesFor(i) : l <= read + 1
    BY <1>1, <2>1 DEF FromFile
  <2> QED BY <1>2, <2>2, <2>3 DEF FromFile
<1>7. \A i \in EntryIds : FromEnv(i)' = FromEnv(i)
  BY <1>1, InputsStay
<1>8. Opened' /\ Paths'
  <2>1. FileIsLines' /\ Len(Lines)' = Len(Lines) /\ Paths' = Paths
    BY <1>1, <1>2, InputsStay DEF ConfigInv
  <2>2. read' \in 0 .. Len(Lines)'
    BY <1>1, <1>3, <2>1
  <2> QED BY <2>1, <2>2 DEF ConfigInv, Opened
<1>9. at = 1 /\ \A i \in EntryIds : isSet[i] <=> FromEnv(i) \/ FromFile(i)
  BY <1>1 DEF ConfigInv, SetSoFar
<1>10. \A i \in EntryIds : isSet[i] => Good(i)
  BY <1>1 DEF ConfigInv, GoodSoFar
<1>11. CASE /\ ~\E i \in EntryIds : Wants(line, i)
            /\ UNCHANGED <<phase, at, isSet, cfg>>
  <2>1. \A i \in EntryIds : read + 1 \in LinesFor(i) => isSet[i]
    BY <1>5, <1>11 DEF Wants
  <2>2. SetSoFar'
    BY <1>1, <1>6, <1>7, <1>9, <1>11, <2>1 DEF SetSoFar
  <2>3. \A i \in EntryIds : isSet'[i] => Good(i)'
    BY <1>1, <1>10, <1>11, GoodStays
  <2>4. GoodSoFar' /\ Resolved' /\ Typed'
    BY <1>1, <1>11, <2>3 DEF ConfigInv, GoodSoFar, Resolved, Typed
  <2> QED BY <1>8, <2>2, <2>4 DEF ConfigInv
<1>12. ASSUME NEW e \in EntryIds, Wants(line, e)
       PROVE  Source(e) = line.value /\ ~isSet[e] /\ read + 1 \in LinesFor(e)
  <2>1. ~isSet[e] /\ read + 1 \in LinesFor(e)
    BY <1>5, <1>12 DEF Wants
  <2>2. ~FromEnv(e) /\ \A l \in LinesFor(e) : ~(l <= read)
    BY <1>9, <2>1 DEF FromFile
  <2>3. \A l \in LinesFor(e) : l \in Int /\ read + 1 <= l
    BY <1>2, <1>4, <2>2
  <2> QED BY <2>1, <2>2, <2>3, SourceFact
<1>13. ASSUME NEW e \in EntryIds, Wants(line, e), Assign(e, line.value),
              UNCHANGED <<phase, at>>
       PROVE  ConfigInv'
  <2>1. /\ cfg' = [cfg EXCEPT ![e] = Configured(e)]
        /\ Configured(e) # Invalid
        /\ isSet' = [isSet EXCEPT ![e] = TRUE]
    BY <1>12, <1>13 DEF Assign, Configured
  <2>2. Typed'
    BY <1>13, <2>1 DEF ConfigInv, Typed
  <2>3. \A i \in EntryIds : read + 1 \in LinesFor(i) <=> i = e
    BY <1>5, <1>12, <1>13, EntriesFact
  <2>4. \A i \in EntryIds : isSet'[i] <=> isSet[i] \/ i = e
    BY <2>1 DEF ConfigInv, Typed
  <2>5. SetSoFar'
    BY <1>1, <1>6, <1>7, <1>9, <1>13, <2>3, <2>4 DEF SetSoFar
  <2>6. Good(e)'
    BY <1>1, <2>1, InputsStay DEF Good, ConfigInv, Typed
  <2>7. \A i \in EntryIds \ {e} : Good(i)' <=> Good(i)
    BY <1>1, <2>1, GoodStays DEF ConfigInv, Typed
  <2>8. GoodSoFar' /\ Resolved'
    BY <1>1, <1>10, <1>13, <2>4, <2>6, <2>7 DEF GoodSoFar, Resolved
  <2> QED BY <1>8, <2>2, <2>5, <2>8 DEF ConfigInv
<1>14. ASSUME NEW e \in EntryIds, Wants(line, e), Refuse(e, line.value)
       PROVE  ConfigInv'
  <2>1. /\ Configured(e) = Invalid /\ phase' = "invalid" /\ at' = at
        /\ isSet' = isSet /\ cfg' = cfg
    BY <1>12, <1>14 DEF Refuse, Configured
  <2>2. Typed' /\ SetSoFar' /\ GoodSoFar'
    BY <2>1 DEF ConfigInv, Typed, SetSoFar, GoodSoFar, Phases, Ended
  <2>3. Resolved'
    BY <1>1, <2>1, InputsStay DEF Resolved
  <2> QED BY <1>8, <2>2, <2>3 DEF ConfigInv
<1> QED BY <1>11, <1>13, <1>14 DEF config_parse_file

\* At the end of the file every line has been read.
LEMMA EndStep ==
  ASSUME ConfigInv, EndOfFile PROVE ConfigInv'
<1>1. /\ phase = "file" /\ phase' = "default" /\ read = Len(Lines)
      /\ at' = at /\ read' = read /\ isSet' = isSet /\ cfg' = cfg
      /\ UNCHANGED inputVars
  BY DEF EndOfFile
<1>2. FileIsLines /\ read \in 0 .. Len(Lines)
  BY <1>1 DEF ConfigInv, Opened, Early
<1>3. Typed'
  BY <1>1 DEF ConfigInv, Typed, Phases
<1>4. Opened' /\ Paths'
  <2>1. FileIsLines' /\ Len(Lines)' = Len(Lines) /\ Paths' = Paths
    BY <1>1, <1>2, InputsStay DEF ConfigInv
  <2> QED BY <1>1, <1>2, <2>1 DEF ConfigInv, Opened
<1>5. \A i \in EntryIds : FromFile(i) <=> LinesFor(i) # {}
  <2>1. \A i \in EntryIds : \A l \in LinesFor(i) : l <= read
    BY <1>1, <1>2, LineNumbers
  <2> QED BY <2>1 DEF FromFile
<1>6. SetSoFar'
  <2>1. \A i \in EntryIds : /\ FromEnv(i)' = FromEnv(i)
                            /\ LinesFor(i)' = LinesFor(i)
    BY <1>1, InputsStay
  <2> QED BY <1>1, <1>5, <2>1 DEF ConfigInv, SetSoFar
<1>7. GoodSoFar' /\ Resolved'
  <2>1. \A i \in EntryIds : Good(i)' <=> Good(i)
    BY <1>1, GoodStays
  <2>2. \A i \in EntryIds : ~(i < 1)
    BY DEF EntryIds
  <2>3. at' = 1
    BY <1>1 DEF ConfigInv, SetSoFar
  <2> QED BY <1>1, <2>1, <2>2, <2>3 DEF ConfigInv, GoodSoFar, Resolved
<1> QED BY <1>3, <1>4, <1>6, <1>7 DEF ConfigInv

LEMMA DefaultStep ==
  ASSUME ConfigInv, config_apply_default_values PROVE ConfigInv'
<1>1. /\ phase = "default" /\ UNCHANGED <<inputVars, read, isSet>>
  BY DEF config_apply_default_values
<1> PICK e \in EntryIds : e = at
  BY DEF ConfigInv, Typed
<1>2. /\ \A i \in EntryIds : isSet[i] => Good(i)
      /\ \A i \in EntryIds : i < e => Good(i)
      /\ \A i \in EntryIds : isSet[i] <=> FromEnv(i) \/ LinesFor(i) # {}
  BY <1>1 DEF ConfigInv, GoodSoFar, SetSoFar
<1>3. ~isSet[e] => Configured(e) = Convert(env, e, Entries[e].default)
  BY <1>2, SourceFact DEF Configured
<1>4. Opened' /\ Paths'
  <2>1. FileIsLines' /\ Len(Lines)' = Len(Lines) /\ Paths' = Paths
    BY <1>1, InputsStay DEF ConfigInv, Opened, Early
  <2> QED BY <1>1, <2>1 DEF ConfigInv, Opened, Early
<1>5. \A i \in EntryIds : /\ FromEnv(i)' = FromEnv(i)
                          /\ LinesFor(i)' = LinesFor(i)
  BY <1>1, InputsStay
<1>6. ASSUME ~isSet[e], Configured(e) = Invalid, phase' = "invalid",
             UNCHANGED <<at, cfg>>
      PROVE  ConfigInv'
  <2>1. Typed' /\ SetSoFar' /\ GoodSoFar'
    BY <1>1, <1>6
    DEF ConfigInv, Typed, SetSoFar, GoodSoFar, Phases, Ended
  <2>2. Resolved'
    BY <1>1, <1>6, InputsStay DEF Resolved
  <2> QED BY <1>4, <2>1, <2>2 DEF ConfigInv
<1>7. ASSUME Advance("ready"), DOMAIN cfg' = EntryIds, Good(e)',
             \A i \in EntryIds \ {e} : cfg'[i] = cfg[i]
      PROVE  ConfigInv'
  <2>1. /\ e < 10 => at' = e + 1 /\ phase' = "default"
        /\ e = 10 => at' = 1 /\ phase' = "ready"
    BY <1>1, <1>7, EntriesFact DEF Advance
  <2>2. e \in 1 .. 10 /\ (e < 10 \/ e = 10)
    BY DEF EntryIds
  <2>3. at' \in EntryIds
    BY <2>1, <2>2 DEF EntryIds
  <2>4. phase' \in {"default", "ready"}
    BY <2>1, <2>2
  <2>5. Typed'
    BY <1>1, <1>7, <2>3, <2>4 DEF ConfigInv, Typed, Phases, Ended
  <2>6. SetSoFar'
    BY <1>1, <1>2, <1>5, <2>4 DEF SetSoFar
  <2>7. \A i \in EntryIds : isSet[i] \/ i <= e => Good(i)'
    <3>1. \A i \in EntryIds \ {e} : Good(i)' <=> Good(i)
      BY <1>1, <1>7, GoodStays
    <3>2. \A i \in EntryIds : i <= e => i < e \/ i = e
      BY DEF EntryIds
    <3> QED BY <1>2, <1>7, <3>1, <3>2
  <2>8. GoodSoFar'
    <3>1. phase' = "default" => \A i \in EntryIds : i < at' => i <= e
      BY <2>1, <2>2 DEF EntryIds
    <3> QED BY <1>1, <2>4, <2>7, <3>1 DEF GoodSoFar
  <2>9. Resolved'
    <3>1. phase' = "ready" => \A i \in EntryIds : i <= e
      BY <2>1, <2>2 DEF EntryIds
    <3> QED BY <2>4, <2>7, <3>1 DEF Resolved, Good
  <2> QED BY <1>4, <2>5, <2>6, <2>8, <2>9 DEF ConfigInv
<1>8. CASE isSet[e] /\ Advance("ready") /\ UNCHANGED cfg
  <2>1. Good(e)' /\ DOMAIN cfg' = EntryIds
    BY <1>1, <1>2, <1>8, GoodStays DEF ConfigInv, Typed
  <2> QED BY <1>7, <1>8, <2>1
<1>9. CASE /\ ~isSet[e] /\ Configured(e) # Invalid /\ Advance("ready")
           /\ cfg' = [cfg EXCEPT ![e] = Configured(e)]
  <2>1. DOMAIN cfg' = EntryIds /\ Good(e)'
    BY <1>1, <1>9, InputsStay DEF Good, ConfigInv, Typed
  <2> QED BY <1>7, <1>9, <2>1 DEF ConfigInv, Typed
<1> QED BY <1>3, <1>6, <1>8, <1>9 DEF config_apply_default_values

LEMMA ConfigInvStep == ConfigInv /\ [ConfigNext]_configVars => ConfigInv'
<1> SUFFICES ASSUME ConfigInv, [ConfigNext]_configVars PROVE ConfigInv'
  OBVIOUS
<1>1. CASE UNCHANGED configVars
  <2>1. UNCHANGED <<inputVars, phase, at, read, isSet, cfg>>
    BY <1>1 DEF configVars
  <2>2. Typed' /\ Opened' /\ Paths' /\ SetSoFar'
    BY <2>1, InputsStay DEF ConfigInv, Typed, Opened, SetSoFar
  <2>3. \A i \in EntryIds : Good(i)' <=> Good(i)
    BY <2>1, GoodStays
  <2>4. GoodSoFar' /\ Resolved'
    BY <2>1, <2>3, InputsStay DEF ConfigInv, GoodSoFar, Resolved
  <2> QED BY <2>2, <2>4 DEF ConfigInv
<1> QED BY <1>1, OpenStep, EnvStep, FileStep, EndStep, DefaultStep
        DEF ConfigNext

(***************************************************************************)
(* config_setup() gives every entry the value of its source, and refuses   *)
(* only over a source that is invalid: with any number of lines, for any   *)
(* environment and for any behaviour of strtol(), strcasecmp() and         *)
(* regcomp().                                                              *)
(***************************************************************************)
THEOREM ConfigIsResolved == ConfigSpec => [](ConfigTypeOK /\ Resolved)
<1>1. ConfigInv => ConfigTypeOK /\ Resolved
  BY DEF ConfigInv, Typed, Opened, Early, ConfigTypeOK
<1> QED BY <1>1, ConfigInvStep, InitInv, PTL DEF ConfigSpec

-----------------------------------------------------------------------------
(***************************************************************************)
(* Proof that a drag on one side of its anchor leaves one clip, for every  *)
(* document.  The invariant adds that what has been collected last is the  *)
(* selection of some position on that side: two of those are partials of   *)
(* one another, because both begin, or both end, at the anchor.            *)
(***************************************************************************)
OnSide(s, c) == IF s = "left" THEN c < anchor ELSE ~(c < anchor)

OneSided(s) == \E c \in 0 .. Len(doc) : /\ OnSide(s, c)
                                        /\ last = Selection(c)
                                        /\ kept = <<last>>

DragInv ==
  /\ TextTypeOK
  /\ sides = {} => last = NoText /\ kept = <<>>
  /\ last = NoText => kept = <<>>
  /\ last # NoText => kept # <<>>
  /\ \A s \in {"left", "right"} : sides = {s} => OneSided(s)

-----------------------------------------------------------------------------
LEMMA SubSeqFact ==
  ASSUME NEW S, NEW str \in Seq(S), NEW m \in 1 .. Len(str) + 1,
         NEW n \in m - 1 .. Len(str)
  PROVE  /\ SubSeq(str, m, n) \in Seq(S)
         /\ Len(SubSeq(str, m, n)) = n - m + 1
         /\ \A i \in 1 .. n - m + 1 : SubSeq(str, m, n)[i] = str[m + i - 1]
OBVIOUS

\* A selection is a text.
LEMMA SelectionFact ==
  ASSUME TextTypeOK, NEW c \in 0 .. Len(doc)
  PROVE  /\ Selection(c) \in Seq(Chars)
         /\ c < anchor =>
              /\ Len(Selection(c)) = anchor - c
              /\ \A i \in 1 .. anchor - c : Selection(c)[i] = doc[c + i]
         /\ ~(c < anchor) =>
              /\ Len(Selection(c)) = c - anchor
              /\ \A i \in 1 .. c - anchor : Selection(c)[i] = doc[anchor + i]
<1>1. doc \in Seq(Chars) /\ anchor \in 0 .. Len(doc)
  BY DocumentAssumption DEF TextTypeOK
<1>2. CASE c < anchor
  BY <1>1, <1>2 DEF Selection
<1>3. CASE ~(c < anchor)
  BY <1>1, <1>3 DEF Selection
<1> QED BY <1>2, <1>3

\* Two texts of one side are partials of one another.
LEMMA SameSidePartial ==
  ASSUME TextTypeOK, NEW b \in 0 .. Len(doc), NEW c \in 0 .. Len(doc),
         NEW s \in {"left", "right"}, OnSide(s, b), OnSide(s, c)
  PROVE  is_possible_partial(Selection(b), Selection(c))
<1>1. doc \in Seq(Chars) /\ anchor \in 0 .. Len(doc) /\ Len(doc) \in Nat
  BY DocumentAssumption DEF TextTypeOK
<1>2. CASE s = "right"
  <2>1. ~(b < anchor) /\ ~(c < anchor)
    BY <1>2 DEF OnSide
  <2>2. IsPrefixOfOther(Selection(b), Selection(c))
    <3> DEFINE sb == Selection(b)
               sc == Selection(c)
    <3>1. /\ Len(sb) = b - anchor
          /\ \A i \in 1 .. b - anchor : sb[i] = doc[anchor + i]
      BY <2>1, SelectionFact
    <3>2. /\ Len(sc) = c - anchor
          /\ \A i \in 1 .. c - anchor : sc[i] = doc[anchor + i]
      BY <2>1, SelectionFact
    <3> HIDE DEF sb, sc
    <3>3. \A i \in 1 .. Shorter(Len(sb), Len(sc)) : sb[i] = sc[i]
      BY <1>1, <3>1, <3>2 DEF Shorter
    <3> QED BY <3>3 DEF IsPrefixOfOther, sb, sc
  <2> QED BY <2>2 DEF is_possible_partial
<1>3. CASE s = "left"
  <2>1. b < anchor /\ c < anchor
    BY <1>3 DEF OnSide
  <2>2. ASSUME NEW x \in 0 .. Len(doc), NEW y \in 0 .. Len(doc),
               x < anchor, y < anchor, y <= x
        PROVE  Selection(x) = SubSeq(Selection(y),
                                     Len(Selection(y)) - Len(Selection(x)) + 1,
                                     Len(Selection(y)))
    <3> DEFINE sx == Selection(x)
               sy == Selection(y)
               m == x - y + 1
               tail == SubSeq(sy, m, Len(sy))
    <3>1. /\ sx \in Seq(Chars) /\ Len(sx) = anchor - x
          /\ \A i \in 1 .. anchor - x : sx[i] = doc[x + i]
      BY <2>2, SelectionFact
    <3>2. /\ sy \in Seq(Chars) /\ Len(sy) = anchor - y
          /\ \A i \in 1 .. anchor - y : sy[i] = doc[y + i]
      BY <2>2, SelectionFact
    <3> HIDE DEF sx, sy
    <3>3. /\ m \in 1 .. Len(sy) + 1 /\ Len(sy) \in m - 1 .. Len(sy)
          /\ Len(sy) - m + 1 = anchor - x /\ Len(sy) - Len(sx) + 1 = m
      BY <1>1, <2>2, <3>1, <3>2
    <3>4. /\ tail \in Seq(Chars) /\ Len(tail) = anchor - x
          /\ \A i \in 1 .. anchor - x : tail[i] = sy[m + i - 1]
      <4> HIDE DEF m
      <4> QED BY <3>2, <3>3, SubSeqFact
    <3> HIDE DEF tail
    <3>5. \A i \in 1 .. anchor - x : tail[i] = sx[i]
      <4> TAKE i \in 1 .. anchor - x
      <4>1. /\ m + i - 1 \in 1 .. anchor - y
            /\ y + (m + i - 1) = x + i
        BY <1>1, <2>2
      <4> QED BY <3>1, <3>2, <3>4, <4>1
    <3>6. tail = sx
      BY <3>1, <3>4, <3>5, SeqEqual
    <3>7. tail = SubSeq(sy, Len(sy) - Len(sx) + 1, Len(sy))
      BY <3>3 DEF tail
    <3>8. sx = SubSeq(sy, Len(sy) - Len(sx) + 1, Len(sy))
      BY <3>6, <3>7
    <3> QED BY <3>8 DEF sx, sy
  <2>3. Len(Selection(b)) = anchor - b /\ Len(Selection(c)) = anchor - c
    BY <2>1, SelectionFact
  <2>4. Len(Selection(b)) < Len(Selection(c)) <=> c < b
    BY <1>1, <2>1, <2>3
  <2>5. CASE c < b
    <3>1. c <= b
      BY <2>5
    <3> QED BY <2>1, <2>2, <2>4, <2>5, <3>1 DEF is_possible_partial
  <2>6. CASE ~(c < b)
    <3>1. b <= c
      BY <2>6
    <3> QED BY <2>1, <2>2, <2>4, <2>6, <3>1 DEF is_possible_partial
  <2> QED BY <2>5, <2>6
<1> QED BY <1>2, <1>3

LEMMA DragInit == TextInit => DragInv
BY DocumentAssumption DEF TextInit, DragInv, TextTypeOK

\* A step within one side replaces the clip, the first one stores it.
LEMMA DragStep ==
  ASSUME DragInv, NEW c \in 0 .. Len(doc), DragTo(c)
  PROVE  DragInv'
<1> DEFINE text == Selection(c)
           side == IF c < anchor THEN "left" ELSE "right"
<1>1. text \in Seq(Chars) /\ text # NoText
  BY SelectionFact, NoTextAssumption DEF DragInv
<1>2. /\ last' = text /\ sides' = sides \union {side}
      /\ doc' = doc /\ anchor' = anchor
  BY DEF DragTo
<1>3. kept \in Seq(Seq(Chars))
  BY DEF DragInv, TextTypeOK
<1>4. kept' \in Seq(Seq(Chars)) /\ kept' # <<>>
  <2>1. CASE last # NoText /\ is_possible_partial(last, text)
    BY <1>1, <1>3, <2>1 DEF DragTo, DragInv
  <2>2. CASE ~(last # NoText /\ is_possible_partial(last, text))
    BY <1>1, <1>3, <2>2 DEF DragTo
  <2> QED BY <2>1, <2>2
<1>5. TextTypeOK'
  BY <1>1, <1>2, <1>4 DEF DragInv, TextTypeOK
<1>6. ASSUME NEW s \in {"left", "right"}, sides' = {s} PROVE OneSided(s)'
  <2>1. s = side /\ OnSide(s, c) /\ (sides = {} \/ sides = {s})
    BY <1>2, <1>6 DEF OnSide
  <2>2. kept' = <<text>>
    <3>1. CASE sides = {}
      BY <3>1 DEF DragInv, DragTo
    <3>2. CASE sides = {s}
      <4>1. PICK b \in 0 .. Len(doc) : /\ OnSide(s, b)
                                       /\ last = Selection(b)
                                       /\ kept = <<last>>
        BY <3>2 DEF DragInv, OneSided
      <4>2. last # NoText /\ is_possible_partial(last, text)
        BY <2>1, <4>1, SameSidePartial, SelectionFact, NoTextAssumption
        DEF DragInv
      <4>3. kept' = [kept EXCEPT ![Len(kept)] = text]
        BY <4>2 DEF DragTo
      <4> QED BY <4>1, <4>3
    <3> QED BY <2>1, <3>1, <3>2
  <2>3. Selection(c)' = text /\ OnSide(s, c)'
    BY <1>2, <2>1 DEF Selection, OnSide
  <2> QED BY <1>2, <2>2, <2>3 DEF OneSided
<1>7. sides' # {} /\ last' # NoText
  BY <1>1, <1>2
<1> QED BY <1>4, <1>5, <1>6, <1>7 DEF DragInv

LEMMA DragInvStep == DragInv /\ [TextNext]_textVars => DragInv'
<1> SUFFICES ASSUME DragInv, [TextNext]_textVars PROVE DragInv'
  OBVIOUS
<1>1. CASE UNCHANGED textVars
  BY <1>1 DEF textVars, DragInv, TextTypeOK, OneSided, OnSide, Selection
<1> QED BY <1>1, DragStep DEF TextNext

(***************************************************************************)
(* A drag that stays on one side of its anchor leaves one clip, the        *)
(* selection it ended with, in a document of any length and characters.    *)
(***************************************************************************)
THEOREM DragLeavesOneClip == TextSpec => [](TextTypeOK /\ OneClipPerDrag)
<1>1. DragInv => TextTypeOK /\ OneClipPerDrag
  BY DEF DragInv, OneSided, OneClipPerDrag
<1> QED BY <1>1, DragInvStep, DragInit, PTL DEF TextSpec

-----------------------------------------------------------------------------
(***************************************************************************)
(* Proof that what clipmenu shows of a clip is of its text, and that the   *)
(* number in a line is read back, for texts of any characters and length.  *)
(* First, what the proof needs of sequences, and of induction.             *)
(***************************************************************************)
\* A sequence and another after it.
LEMMA CatFact ==
  ASSUME NEW S, NEW T, NEW a \in Seq(S), NEW b \in Seq(T)
  PROVE  /\ Len(a \o b) = Len(a) + Len(b)
         /\ \A k \in 1 .. Len(a) : (a \o b)[k] = a[k]
         /\ \A k \in 1 .. Len(b) : (a \o b)[Len(a) + k] = b[k]
OBVIOUS

\* (Apart from the lemma before it, whose sequences may be of two sets.)
LEMMA CatSeq ==
  ASSUME NEW S, NEW a \in Seq(S), NEW b \in Seq(S)
  PROVE  a \o b \in Seq(S)
OBVIOUS

LEMMA WiderSeq ==
  ASSUME NEW S, NEW T, S \subseteq T, NEW a \in Seq(S)
  PROVE  a \in Seq(T)
OBVIOUS

LEMMA OneFact ==
  ASSUME NEW S, NEW c \in S
  PROVE  <<c>> \in Seq(S) /\ Len(<<c>>) = 1 /\ <<c>>[1] = c
OBVIOUS

-----------------------------------------------------------------------------
(***************************************************************************)
(* Induction over the natural numbers, and what it takes to prove what a   *)
(* recursive function computes: that its definition has a solution, which is *)
(* then what CHOOSE returns.                                               *)
(***************************************************************************)
\* From the order of Nat, which is well-founded.
LEMMA NatHasLeast ==
  ASSUME NEW S, S \subseteq Nat, S # {}
  PROVE  \E x \in S : \A y \in S : x <= y
<1>1. PICK x \in S : \A y \in S : ~(<<y, x>> \in OpToRel(<, Nat))
  BY NatLessThanWellFounded, WFMin
<1>2. \A y \in Nat : y < x => <<y, x>> \in OpToRel(<, Nat)
  BY DEF OpToRel
<1>3. \A y \in S : ~(y < x)
  BY <1>1, <1>2, Zenon
<1> QED
  BY <1>3

\* From n to n + 1, stated for a set and not for a predicate.
LEMMA NatIsInductive ==
  ASSUME NEW S, 0 \in S, \A n \in Nat : n \in S => n + 1 \in S
  PROVE  Nat \subseteq S
<1> DEFINE T == Nat \ S
<1>1. SUFFICES ASSUME T # {}
               PROVE  FALSE
  OBVIOUS
<1>2. PICK x \in T : \A y \in T : x <= y
  BY <1>1, NatHasLeast
<1>3. x # 0 /\ x - 1 \in Nat
  BY <1>2
<1>4. x - 1 \in S
  BY <1>2, <1>3
<1> QED
  BY <1>2, <1>3, <1>4

\* From all numbers below n to n.
LEMMA CourseOfValues ==
  ASSUME NEW T,
         \A n \in Nat : (\A m \in Nat : m < n => m \in T) => n \in T
  PROVE  Nat \subseteq T
<1> DEFINE U == Nat \ T
<1>1. SUFFICES ASSUME U # {}
               PROVE  FALSE
  OBVIOUS
<1>2. PICK x \in U : \A y \in U : x <= y
  BY <1>1, NatHasLeast
<1>3. \A m \in Nat : m < x => m \in T
  BY <1>2
<1> QED
  BY <1>2, <1>3

(***************************************************************************)
(* A function may be defined by recursion from smaller arguments: base     *)
(* values a on B, and elsewhere a step from the value of the argument      *)
(* before.                                                                 *)
(***************************************************************************)
IsRecursion(S, D, B, a, prev, step) ==
  /\ D \subseteq Nat
  /\ \A n \in D : n \in B => a[n] \in S
  /\ \A n \in D : n \notin B => /\ prev[n] \in D /\ prev[n] < n
                                /\ \A v \in S : step[n][v] \in S

IsDefinedBy(f, D, B, a, prev, step) ==
  \A n \in D : f[n] = IF n \in B THEN a[n] ELSE step[n][f[prev[n]]]

LEMMA RecursionExists ==
  ASSUME NEW S, NEW D, NEW B, NEW a, NEW prev, NEW step,
         IsRecursion(S, D, B, a, prev, step)
  PROVE  \E f \in [D -> S] : IsDefinedBy(f, D, B, a, prev, step)
<1> USE DEF IsRecursion, IsDefinedBy
<1> DEFINE Upto(n) == {k \in D : k <= n}
           Value(g, k) == IF k \in B THEN a[k] ELSE step[k][g[prev[k]]]
           Solves(n, g) == /\ g \in [Upto(n) -> S]
                         /\ \A k \in Upto(n) : g[k] = Value(g, k)
<1>0. \A k \in D : k \in Nat
  OBVIOUS
<1>a. \A j, k, n \in Nat :
        /\ j <= j
        /\ (j < k /\ k <= n) => j <= n
        /\ (j < k /\ k <= n + 1) => (j <= n /\ j <= n + 1)
        /\ j < k => ~(k <= j)
        /\ ~(j < 0)
        /\ j <= 0 => j = 0
  OBVIOUS
<1>b. \A j, k \in D : j < k =>
        /\ ~(k <= j) /\ k # 0
        /\ \A n \in Nat : /\ k <= n => j <= n
                          /\ k <= n + 1 => (j <= n /\ j <= n + 1)
  BY <1>0, <1>a, Zenon
<1>1. ASSUME NEW m \in Nat, NEW n \in Nat, NEW g, NEW h,
             Solves(m, g), Solves(n, h), NEW k \in D, k <= m, k <= n
      PROVE  g[k] = h[k]
  <2> DEFINE T == {j \in D : j <= m /\ j <= n /\ g[j] # h[j]}
  <2>1. SUFFICES ASSUME T # {}
                 PROVE  FALSE
    BY <1>1
  <2>2. PICK x \in T : \A y \in T : x <= y
    BY <2>1, NatHasLeast
  <2>3. x \in Upto(m) /\ x \in Upto(n) /\ x \in D /\ g[x] # h[x]
    BY <2>2
  <2>4. g[x] = Value(g, x) /\ h[x] = Value(h, x)
    BY <1>1, <2>3
  <2>5. x \notin B
    BY <2>3, <2>4
  <2>6. prev[x] \in D /\ prev[x] < x
    BY <2>3, <2>5
  <2>7. g[prev[x]] = h[prev[x]]
    <3>1. prev[x] \notin T
      BY <1>b, <2>2, <2>3, <2>6, Zenon
    <3>2. prev[x] <= m /\ prev[x] <= n
      BY <1>b, <2>3, <2>6, Zenon
    <3> QED
      BY <2>6, <3>1, <3>2
  <2> QED
    BY <2>3, <2>4, <2>7
<1>2. ASSUME NEW n \in Nat
      PROVE  \E g : Solves(n, g)
  <2> DEFINE T == {k \in Nat : \E g : Solves(k, g)}
  <2>1. 0 \in T
    <3>1. \A k \in Upto(0) : k = 0 /\ k \in B
      <4>1. \A k \in Upto(0) : k \in D /\ k = 0
        BY <1>0, <1>a, Zenon
      <4>2. 0 \in D => 0 \in B
        BY <1>b, Zenon
      <4> QED
        BY <4>1, <4>2, Zenon
    <3>2. Solves(0, [k \in Upto(0) |-> a[k]])
      BY <3>1
    <3> QED
      BY <3>2
  <2>2. ASSUME NEW k \in Nat, k \in T
        PROVE  k + 1 \in T
    <3>1. PICK g : Solves(k, g)
      BY <2>2
    <3> DEFINE h == [j \in Upto(k + 1) |->
                       IF j <= k THEN g[j] ELSE Value(g, j)]
    <3>2. ASSUME NEW j \in Upto(k + 1)
          PROVE  h[j] \in S /\ h[j] = Value(h, j)
      <4>1. j \in D /\ j <= k + 1
        OBVIOUS
      <4>2. h[j] = Value(g, j)
        <5>1. CASE j <= k
          BY <3>1, <4>1, <5>1
        <5>2. CASE ~(j <= k)
          BY <5>2
        <5> QED
          BY <5>1, <5>2
      <4>3. CASE j \in B
        BY <4>1, <4>2, <4>3
      <4>4. CASE j \notin B
        <5>1. prev[j] \in Upto(k) /\ prev[j] <= k /\ prev[j] <= k + 1
          BY <1>b, <4>1, <4>4, Zenon
        <5>2. h[prev[j]] = g[prev[j]] /\ g[prev[j]] \in S
          <6>1. prev[j] \in Upto(k + 1)
            BY <5>1
          <6>2. g[prev[j]] \in S
            BY <3>1, <5>1
          <6> QED
            BY <5>1, <6>1, <6>2
        <5> QED
          BY <4>1, <4>2, <4>4, <5>2
      <4> QED
        BY <4>3, <4>4
    <3>3. Solves(k + 1, h)
      <4> HIDE DEF h
      <4>1. h = [j \in Upto(k + 1) |-> h[j]]
        BY DEF h
      <4> QED
        BY <3>2, <4>1
    <3> HIDE DEF h, Solves
    <3> QED
      BY <3>3
  <2> HIDE DEF T
  <2>3. n \in T
    BY <2>1, <2>2, NatIsInductive
  <2> QED
    BY <2>3 DEF T
<1> DEFINE best(n) == CHOOSE g : Solves(n, g)
           f == [n \in D |-> best(n)[n]]
<1>3. ASSUME NEW n \in D
      PROVE  Solves(n, best(n))
  BY <1>2, Zenon
<1>4. ASSUME NEW n \in D
      PROVE  f[n] \in S /\ f[n] = Value(f, n)
  <2> HIDE DEF best
  <2>1. n \in Upto(n) /\ f[n] = best(n)[n]
    OBVIOUS
  <2>2. best(n)[n] \in S /\ best(n)[n] = Value(best(n), n)
    BY <1>3, <2>1
  <2>3. CASE n \in B
    BY <2>1, <2>2, <2>3
  <2>4. CASE n \notin B
    <3>1. prev[n] \in D /\ prev[n] < n
      BY <2>4
    <3>2. best(prev[n])[prev[n]] = best(n)[prev[n]]
      <4>1. Solves(prev[n], best(prev[n])) /\ Solves(n, best(n))
        BY <1>3, <3>1
      <4>2. prev[n] <= prev[n] /\ prev[n] <= n /\ n \in Nat
            /\ prev[n] \in Nat
        BY <1>0, <1>a, <3>1, Zenon
      <4> HIDE DEF Solves
      <4> QED
        BY <1>1, <3>1, <4>1, <4>2
    <3>3. f[prev[n]] = best(n)[prev[n]]
      BY <3>1, <3>2
    <3> QED
      BY <2>1, <2>2, <2>4, <3>3
  <2> QED
    BY <2>3, <2>4
<1> HIDE DEF f
<1>5. f \in [D -> S]
  <2>1. f = [n \in D |-> f[n]]
    BY DEF f
  <2> QED
    BY <1>4, <2>1
<1> QED
  BY <1>4, <1>5

(***************************************************************************)
(* A loop over n elements, whose state after each is of a set S.           *)
(***************************************************************************)
KeepsType(S, n, step) == \A i \in 1 .. n : \A v \in S : step[i][v] \in S

IsLoop(f, n, first, step) ==
  /\ f[0] = first
  /\ \A i \in 1 .. n : f[i] = step[i][f[i - 1]]

LEMMA LoopExists ==
  ASSUME NEW S, NEW n \in Nat, NEW first \in S, NEW step,
         KeepsType(S, n, step)
  PROVE  \E f \in [0 .. n -> S] : IsLoop(f, n, first, step)
<1> USE DEF KeepsType
<1> DEFINE D == 0 .. n
           prev == [i \in D |-> i - 1]
           a == [i \in D |-> first]
           B == {0}
<1>1. D \subseteq Nat
  OBVIOUS
<1>2. \A i \in D : i \in B => a[i] \in S
  OBVIOUS
<1>3. \A i \in D : i \notin B => /\ i \in 1 .. n /\ prev[i] = i - 1
                                   /\ prev[i] \in D /\ prev[i] < i
  OBVIOUS
<1>4. \A i \in D : i \notin B => /\ prev[i] \in D /\ prev[i] < i
                                   /\ \A v \in S : step[i][v] \in S
  BY <1>3, Zenon
<1>5. a[0] = first /\ 0 \in D /\ 0 \in B
  OBVIOUS
<1>6. \A i \in 1 .. n : i \in D /\ i \notin B
  OBVIOUS
<1> HIDE DEF D, prev, a, B
<1>7. IsRecursion(S, D, B, a, prev, step)
  BY <1>1, <1>2, <1>4, Zenon DEF IsRecursion
<1>8. PICK f \in [D -> S] : IsDefinedBy(f, D, B, a, prev, step)
  BY <1>7, RecursionExists, Zenon
<1>9. \A i \in D : f[i] = IF i \in B THEN a[i] ELSE step[i][f[prev[i]]]
  BY <1>8 DEF IsDefinedBy
<1>10. f[0] = first
  BY <1>5, <1>9
<1>11. \A i \in 1 .. n : f[i] = step[i][f[i - 1]]
  BY <1>3, <1>6, <1>9
<1> QED
  BY <1>8, <1>10, <1>11 DEF D, IsLoop

-----------------------------------------------------------------------------
(***************************************************************************)
(* The loop of first_line().                                               *)
(***************************************************************************)
SeenState == [nr : Nat, found : BOOLEAN, out : Seq(Chars)]

SeenAfter(s, str, i) ==
  [nr |-> s.nr + (IF str[i] = NewLine THEN 1 ELSE 0),
   found |-> s.found \/ str[i] # NewLine,
   out |-> IF ~s.found /\ str[i] # NewLine THEN CutLine(str, i) ELSE s.out]

\* A line that begins with something else than its end is not empty.
LEMMA LineEndFact ==
  ASSUME NEW str \in Seq(Chars), NEW i \in 1 .. Len(str), str[i] # NewLine
  PROVE  /\ LineEnd(str, i) \in i .. Len(str)
         /\ \A k \in i .. LineEnd(str, i) : str[k] # NewLine
<1> DEFINE ends == {j \in i .. Len(str) : str[j] = NewLine}
                     \union {Len(str) + 1}
           e == CHOOSE j \in ends : \A k \in ends : j <= k
<1>1. Len(str) \in Nat /\ i \in Nat
  OBVIOUS
<1>2. ends \subseteq Nat /\ ends # {}
  BY <1>1
<1>3. \E j \in ends : \A k \in ends : j <= k
  BY <1>2, NatHasLeast
<1>4. e \in ends /\ \A k \in ends : e <= k
  <2> HIDE DEF ends
  <2> QED
    BY <1>3, Zenon
<1>5. LineEnd(str, i) = e - 1
  BY DEF LineEnd
<1> HIDE DEF e
<1>6. e \in Nat /\ i <= e /\ e <= Len(str) + 1 /\ e # i
  BY <1>1, <1>4
<1>7. \A k \in i .. e - 1 : str[k] # NewLine
  <2> SUFFICES ASSUME NEW k \in i .. e - 1, str[k] = NewLine
               PROVE  FALSE
    OBVIOUS
  <2>1. k \in ends
    BY <1>1, <1>6
  <2> QED
    BY <1>4, <1>6, <2>1
<1> QED
  BY <1>1, <1>5, <1>6, <1>7

\* The line itself.
LEMMA CutLineFact ==
  ASSUME NEW str \in Seq(Chars), NEW i \in 1 .. Len(str), str[i] # NewLine
  PROVE  LET all == SubSeq(str, i, LineEnd(str, i))
             n == Shorter(Len(all), LineSize - 1)
         IN  /\ all \in Seq(Chars) /\ Len(all) >= 1
             /\ \A k \in 1 .. Len(all) : all[k] # NewLine
             /\ CutLine(str, i) \in Seq(Chars)
             /\ Len(CutLine(str, i)) = n
             /\ \A k \in 1 .. n : CutLine(str, i)[k] = all[k]
<1> DEFINE e == LineEnd(str, i)
           all == SubSeq(str, i, e)
           m == Shorter(e, i + LineSize - 2)
           cut == SubSeq(str, i, m)
<1>1. e \in i .. Len(str) /\ \A k \in i .. e : str[k] # NewLine
  BY LineEndFact
<1> HIDE DEF e
<1>2. /\ i \in Nat /\ i >= 1 /\ i <= Len(str) /\ Len(str) \in Nat
      /\ e \in Nat /\ i <= e /\ e <= Len(str)
      /\ LineSize \in Nat /\ LineSize >= 5
  BY <1>1, SizeAssumption
<1>3. /\ all \in Seq(Chars) /\ Len(all) = e - i + 1
      /\ \A k \in 1 .. e - i + 1 : all[k] = str[i + k - 1]
  BY <1>2, SubSeqFact
<1>4. m \in i .. e
  BY <1>2 DEF Shorter
<1>5. /\ cut \in Seq(Chars) /\ Len(cut) = m - i + 1
      /\ \A k \in 1 .. m - i + 1 : cut[k] = str[i + k - 1]
  <2> HIDE DEF m
  <2> QED
    BY <1>2, <1>4, SubSeqFact
<1>6. Shorter(Len(all), LineSize - 1) = m - i + 1
  BY <1>2, <1>3 DEF Shorter
<1>7. CutLine(str, i) = cut
  BY DEF CutLine, e
<1>8. \A k \in 1 .. Len(all) : all[k] # NewLine
  <2> HIDE DEF all
  <2> TAKE k \in 1 .. Len(all)
  <2>1. i + k - 1 \in i .. e /\ k \in 1 .. e - i + 1
    BY <1>2, <1>3
  <2> QED
    BY <1>1, <1>3, <2>1
<1>9. \A k \in 1 .. m - i + 1 : cut[k] = all[k]
  <2> HIDE DEF m, cut, all
  <2> QED
    BY <1>2, <1>3, <1>4, <1>5
<1>10. all = SubSeq(str, i, LineEnd(str, i))
  BY DEF e
<1>11. Len(all) >= 1
  BY <1>2, <1>3
<1> HIDE DEF m, cut, all
<1> QED
  BY <1>3, <1>5, <1>6, <1>7, <1>8, <1>9, <1>10, <1>11

\* What LinesSeen() computes is what the loop does.
LEMMA SeenIsLoop ==
  ASSUME NEW str \in Seq(Chars)
  PROVE  /\ LinesSeen(str) \in [0 .. Len(str) -> SeenState]
         /\ LinesSeen(str)[0] = [nr |-> 0, found |-> FALSE, out |-> <<>>]
         /\ \A i \in 1 .. Len(str) :
              LinesSeen(str)[i] = SeenAfter(LinesSeen(str)[i - 1], str, i)
<1> DEFINE n == Len(str)
           first == [nr |-> 0, found |-> FALSE, out |-> <<>>]
           step == [i \in 1 .. n |->
                      [s \in SeenState |-> SeenAfter(s, str, i)]]
<1>1. n \in Nat /\ first \in SeenState
  BY DEF SeenState
<1>2. \A i \in 1 .. n : \A s \in SeenState :
        SeenAfter(s, str, i) \in SeenState
  <2> TAKE i \in 1 .. n
  <2> TAKE s \in SeenState
  <2>1. s.nr \in Nat /\ s.found \in BOOLEAN /\ s.out \in Seq(Chars)
    BY DEF SeenState
  <2>2. str[i] # NewLine => CutLine(str, i) \in Seq(Chars)
    BY CutLineFact
  <2> QED
    BY <2>1, <2>2 DEF SeenState, SeenAfter
<1>3. \A i \in 1 .. n : \A s \in SeenState :
        step[i][s] = SeenAfter(s, str, i) /\ step[i][s] \in SeenState
  BY <1>2
<1>4. PICK f \in [0 .. n -> SeenState] :
        /\ f[0] = first
        /\ \A i \in 1 .. n : f[i] = step[i][f[i - 1]]
  <2>1. KeepsType(SeenState, n, step)
    BY <1>3 DEF KeepsType
  <2> HIDE DEF n, first, step
  <2>2. PICK f \in [0 .. n -> SeenState] : IsLoop(f, n, first, step)
    BY <1>1, <2>1, LoopExists
  <2> QED
    BY <2>2 DEF IsLoop
<1>5. \A i \in 1 .. n : f[i - 1] \in SeenState
                        /\ f[i] = SeenAfter(f[i - 1], str, i)
  <2> TAKE i \in 1 .. n
  <2>1. i - 1 \in 0 .. n
    BY <1>1
  <2>2. f[i - 1] \in SeenState
    BY <1>4, <2>1
  <2> HIDE DEF step
  <2> QED
    BY <1>3, <1>4, <2>2
<1> DEFINE Loop(g) ==
             [i \in 0 .. n |->
                IF i = 0 THEN first
                ELSE LET s == g[i - 1]
                     IN  [nr |-> s.nr + (IF str[i] = NewLine THEN 1 ELSE 0),
                          found |-> s.found \/ str[i] # NewLine,
                          out |-> IF ~s.found /\ str[i] # NewLine
                                  THEN CutLine(str, i) ELSE s.out]]
<1>6. \A i \in 0 .. n : f[i] = Loop(f)[i]
  <2> TAKE i \in 0 .. n
  <2>1. CASE i = 0
    BY <1>4, <2>1
  <2>2. CASE i # 0
    <3>1. i \in 1 .. n
      BY <1>1, <2>2
    <3> QED
      BY <1>5, <2>2, <3>1 DEF SeenAfter
  <2> QED
    BY <2>1, <2>2
<1>7. f = Loop(f)
  BY <1>4, <1>6
<1>8. LinesSeen(str) = CHOOSE g : g = Loop(g)
  BY DEF LinesSeen
<1>9. LinesSeen(str) = Loop(LinesSeen(str))
  <2> HIDE DEF Loop
  <2> QED
    BY <1>7, <1>8, Zenon
<1> DEFINE seen == LinesSeen(str)
<1>10. \A i \in 0 .. n : seen[i] = IF i = 0 THEN first
                                    ELSE SeenAfter(seen[i - 1], str, i)
  BY <1>9 DEF SeenAfter
<1> DEFINE T == {i \in Nat : i <= n => seen[i] \in SeenState}
<1> HIDE DEF seen
<1>11. \A i \in 0 .. n : seen[i] \in SeenState
  <2>1. 0 \in T
    BY <1>1, <1>10
  <2>2. ASSUME NEW i \in Nat, i \in T
        PROVE  i + 1 \in T
    <3>1. SUFFICES ASSUME i + 1 <= n
                   PROVE  seen[i + 1] \in SeenState
      OBVIOUS
    <3>2. i + 1 \in 1 .. n /\ i + 1 \in 0 .. n /\ i + 1 # 0
          /\ (i + 1) - 1 = i /\ i <= n
      BY <1>1, <3>1
    <3>3. seen[i + 1] = SeenAfter(seen[i], str, i + 1)
      BY <1>10, <3>2
    <3>4. seen[i] \in SeenState
      BY <2>2, <3>2
    <3> QED
      BY <1>2, <3>2, <3>3, <3>4
  <2> HIDE DEF T
  <2>3. Nat \subseteq T
    BY <2>1, <2>2, NatIsInductive
  <2> QED
    BY <1>1, <2>3 DEF T
<1>12. seen = [i \in 0 .. n |-> seen[i]]
  BY <1>9 DEF seen
<1>13. seen \in [0 .. n -> SeenState]
  BY <1>11, <1>12
<1>14. seen[0] = first /\ \A i \in 1 .. n :
                           seen[i] = SeenAfter(seen[i - 1], str, i)
  BY <1>1, <1>10
<1> QED
  BY <1>13, <1>14 DEF seen

(***************************************************************************)
(* What the loop has found after i characters: how many lines begin up to  *)
(* the next one, and the line with the first character that ends none.     *)
(***************************************************************************)
StartsUpto(str, m) == {k \in 1 .. m : k = 1 \/ str[k - 1] = NewLine}

FirstUpto(str, i, j) ==
  j \in 1 .. i /\ str[j] # NewLine /\ \A k \in 1 .. j - 1 : str[k] = NewLine

SeenInv(str, i) ==
  LET s == LinesSeen(str)[i]
  IN  /\ IsFiniteSet(StartsUpto(str, i + 1))
      /\ s.nr + 1 = Cardinality(StartsUpto(str, i + 1))
      /\ ~s.found => \A k \in 1 .. i : str[k] = NewLine
      /\ s.found => \E j \in 1 .. i : /\ FirstUpto(str, i, j)
                                      /\ s.out = CutLine(str, j)

\* By induction over the characters.
LEMMA SeenInvHolds ==
  ASSUME NEW str \in Seq(Chars), NEW n \in 0 .. Len(str)
  PROVE  SeenInv(str, n)
<1> DEFINE T == {i \in Nat : i <= Len(str) => SeenInv(str, i)}
           seen == LinesSeen(str)
<1>1. Len(str) \in Nat /\ n \in Nat /\ n <= Len(str)
  OBVIOUS
<1>2. 0 \in T
  <2>1. StartsUpto(str, 0 + 1) = {1}
    BY DEF StartsUpto
  <2>2. IsFiniteSet({1}) /\ Cardinality({1}) = 1
    BY FS_Singleton
  <2>3. seen[0].nr = 0 /\ ~seen[0].found
    BY SeenIsLoop
  <2>4. /\ IsFiniteSet(StartsUpto(str, 0 + 1))
        /\ seen[0].nr + 1 = Cardinality(StartsUpto(str, 0 + 1))
    <3> HIDE DEF seen
    <3>1. seen[0].nr + 1 = 1
      BY <2>3
    <3> QED
      BY <2>1, <2>2, <3>1
  <2>5. \A k \in 1 .. 0 : str[k] = NewLine
    OBVIOUS
  <2>6. SeenInv(str, 0)
    BY <2>3, <2>4, <2>5, Zenon DEF SeenInv
  <2> QED
    BY <2>6
<1>3. ASSUME NEW i \in Nat, i \in T
      PROVE  i + 1 \in T
  <2>1. SUFFICES ASSUME i + 1 <= Len(str)
                 PROVE  SeenInv(str, i + 1)
    OBVIOUS
  <2>2. i + 1 \in 1 .. Len(str) /\ (i + 1) - 1 = i /\ i <= Len(str)
        /\ i \in 0 .. Len(str)
    BY <1>1, <2>1
  <2>3. SeenInv(str, i)
    BY <1>3, <2>2
  <2> DEFINE s == seen[i]
             t == seen[i + 1]
             c == str[i + 1]
  <2>4. s \in SeenState /\ t = SeenAfter(s, str, i + 1)
    BY <2>2, SeenIsLoop
  <2>5. s.nr \in Nat /\ s.found \in BOOLEAN
    BY <2>4 DEF SeenState
  <2>6. /\ t.nr = s.nr + (IF c = NewLine THEN 1 ELSE 0)
        /\ t.found = (s.found \/ c # NewLine)
        /\ t.out = IF ~s.found /\ c # NewLine THEN CutLine(str, i + 1)
                   ELSE s.out
    BY <2>4 DEF SeenAfter
  <2> DEFINE old == StartsUpto(str, i + 1)
             new == StartsUpto(str, (i + 1) + 1)
  <2>7. IsFiniteSet(old) /\ s.nr + 1 = Cardinality(old)
    BY <2>3 DEF SeenInv
  <2>8. IsFiniteSet(new) /\ t.nr + 1 = Cardinality(new)
    <3>1. CASE c = NewLine
      <4>1. new = old \union {i + 2} /\ i + 2 \notin old
        BY <3>1 DEF StartsUpto
      <4> HIDE DEF old, new
      <4>2. IsFiniteSet(new) /\ Cardinality(new) = Cardinality(old) + 1
        BY <2>7, <4>1, FS_AddElement
      <4> QED
        BY <2>5, <2>6, <2>7, <3>1, <4>2
    <3>2. CASE c # NewLine
      <4>1. new = old
        BY <3>2 DEF StartsUpto
      <4> QED
        BY <2>5, <2>6, <2>7, <3>2, <4>1
    <3> QED
      BY <3>1, <3>2
  <2>9. CASE s.found
    <3>1. PICK j \in 1 .. i : FirstUpto(str, i, j) /\ s.out = CutLine(str, j)
      BY <2>3, <2>9 DEF SeenInv
    <3>2. FirstUpto(str, i + 1, j) /\ j \in 1 .. i + 1
      BY <3>1 DEF FirstUpto
    <3>3. t.found /\ t.out = CutLine(str, j)
      BY <2>6, <2>9, <3>1
    <3> QED
      BY <2>8, <3>2, <3>3 DEF SeenInv
  <2>10. CASE ~s.found /\ c # NewLine
    <3>1. \A k \in 1 .. i : str[k] = NewLine
      BY <2>3, <2>10 DEF SeenInv
    <3>2. FirstUpto(str, i + 1, i + 1) /\ i + 1 \in 1 .. i + 1
      BY <2>2, <2>10, <3>1 DEF FirstUpto
    <3>3. t.found /\ t.out = CutLine(str, i + 1)
      BY <2>6, <2>10
    <3> QED
      BY <2>8, <3>2, <3>3 DEF SeenInv
  <2>11. CASE ~s.found /\ c = NewLine
    <3>1. \A k \in 1 .. i : str[k] = NewLine
      BY <2>3, <2>11 DEF SeenInv
    <3>2. \A k \in 1 .. i + 1 : str[k] = NewLine
      BY <2>11, <3>1
    <3>3. ~t.found
      BY <2>6, <2>11
    <3> QED
      BY <2>8, <3>2, <3>3 DEF SeenInv
  <2> QED
    BY <2>5, <2>9, <2>10, <2>11
<1> HIDE DEF T
<1>4. Nat \subseteq T
  BY <1>2, <1>3, NatIsInductive
<1> QED
  BY <1>1, <1>4 DEF T

\* What first_line() returns for a text that is worth storing.
LEMMA FirstLineFact ==
  ASSUME NEW str \in Seq(Chars), is_salient_text(str)
  PROVE  \E j \in 1 .. Len(str) :
           /\ FirstUpto(str, Len(str), j)
           /\ first_line(str).line = CutLine(str, j)
           /\ first_line(str).nr_lines = Cardinality(LineStarts(str))
<1> DEFINE n == Len(str)
           s == LinesSeen(str)[n]
           r == LinesSeen(str)[n - 1]
<1>1. PICK i \in 1 .. n : str[i] # NewLine
  BY CharAssumption DEF is_salient_text
<1>2. n \in Nat /\ n >= 1 /\ n - 1 \in 0 .. n /\ n \in 0 .. n /\ n \in 1 .. n
      /\ (n - 1) + 1 = n
  BY <1>1
<1>3. SeenInv(str, n) /\ SeenInv(str, n - 1)
  BY <1>2, SeenInvHolds
<1>4. s.found
  BY <1>1, <1>3 DEF SeenInv
<1>5. PICK j \in 1 .. n : FirstUpto(str, n, j) /\ s.out = CutLine(str, j)
  BY <1>3, <1>4 DEF SeenInv
<1>6. r \in SeenState /\ s = SeenAfter(r, str, n)
  BY <1>2, SeenIsLoop
<1>7. r.nr \in Nat
  BY <1>6 DEF SeenState
<1>8. s.nr = r.nr + (IF str[n] = NewLine THEN 1 ELSE 0)
  BY <1>6 DEF SeenAfter
<1>9. LineStarts(str) = StartsUpto(str, n)
  BY DEF LineStarts, StartsUpto
<1>10. r.nr + 1 = Cardinality(LineStarts(str))
  BY <1>2, <1>3, <1>9 DEF SeenInv
<1>11. first_line(str) =
         [line |-> s.out,
          nr_lines |-> s.nr + (IF str[n] # NewLine THEN 1 ELSE 0)]
  BY <1>4 DEF first_line, Last
<1>12. first_line(str).nr_lines = r.nr + 1
  BY <1>7, <1>8, <1>11
<1> QED
  BY <1>5, <1>10, <1>11, <1>12

\* Ellipsised() of a line that was cut to the size of a snip.
LEMMA EllipsisedFact ==
  ASSUME NEW all \in Seq(Chars), NEW line \in Seq(Chars), Len(all) >= 1,
         \A k \in 1 .. Len(all) : all[k] # NewLine,
         Len(line) = Shorter(Len(all), LineSize - 1),
         \A k \in 1 .. Len(line) : line[k] = all[k]
  PROVE  /\ Ellipsised(line) # <<>> /\ NewLine \notin Range(Ellipsised(line))
         /\ \/ Ellipsised(line) = all
            \/ /\ Len(all) >= LineSize - 1
               /\ Ellipsised(line) =
                    SubSeq(all, 1, LineSize - 4) \o <<".", ".", ".">>
<1>1. /\ LineSize \in Nat /\ LineSize >= 5
      /\ Len(all) \in Nat /\ Len(line) \in Nat
  BY SizeAssumption
<1>2. CASE Len(line) = LineSize - 1
  <2> DEFINE m == LineSize - 4
             cut == SubSeq(line, 1, m)
             cut2 == SubSeq(all, 1, m)
             dots == <<".", ".", ".">>
  <2>1. Len(all) >= LineSize - 1
    BY <1>1, <1>2 DEF Shorter
  <2>2. m \in Nat /\ m >= 1 /\ m <= Len(line) /\ m <= Len(all)
    BY <1>1, <1>2, <2>1
  <2>3. /\ cut \in Seq(Chars) /\ Len(cut) = m
        /\ \A k \in 1 .. m : cut[k] = line[k]
    <3> HIDE DEF m
    <3> QED
      BY <1>1, <2>2
  <2>4. /\ cut2 \in Seq(Chars) /\ Len(cut2) = m
        /\ \A k \in 1 .. m : cut2[k] = all[k]
    <3> HIDE DEF m
    <3> QED
      BY <1>1, <2>2
  <2>5. cut = cut2
    <3> HIDE DEF cut, cut2, m
    <3>1. \A k \in 1 .. m : cut[k] = cut2[k]
      BY <1>1, <2>2, <2>3, <2>4
    <3> QED
      BY <2>3, <2>4, <3>1, SeqEqual
  <2>6. Ellipsised(line) = cut \o dots
    BY <1>2 DEF Ellipsised
  <2>7. /\ Len(cut \o dots) = m + 3
        /\ \A k \in 1 .. m : (cut \o dots)[k] = cut[k]
        /\ \A k \in m + 1 .. m + 3 : (cut \o dots)[k] = "."
    <3>1. dots \in Seq({"."}) /\ Len(dots) = 3
          /\ \A k \in 1 .. 3 : dots[k] = "."
      <4>1. dots \in Seq({"."}) /\ Len(dots) = 3
        OBVIOUS
      <4>2. dots[1] = "." /\ dots[2] = "." /\ dots[3] = "."
        OBVIOUS
      <4>3. \A k \in 1 .. 3 : k = 1 \/ k = 2 \/ k = 3
        OBVIOUS
      <4> HIDE DEF dots
      <4> QED
        BY <4>1, <4>2, <4>3, Zenon
    <3> HIDE DEF cut, m, dots
    <3>2. /\ Len(cut \o dots) = m + 3
          /\ \A k \in 1 .. m : (cut \o dots)[k] = cut[k]
          /\ \A k \in 1 .. 3 : (cut \o dots)[m + k] = dots[k]
      <4>1. /\ Len(cut \o dots) = Len(cut) + Len(dots)
            /\ \A k \in 1 .. Len(cut) : (cut \o dots)[k] = cut[k]
            /\ \A k \in 1 .. Len(dots) :
                 (cut \o dots)[Len(cut) + k] = dots[k]
        <5>1. cut \in Seq(Chars) /\ dots \in Seq({"."})
          BY <2>3, <3>1
        <5> QED
          BY <5>1, CatFact
      <4> QED
        BY <2>3, <3>1, <4>1, Zenon
    <3>3. ASSUME NEW k \in m + 1 .. m + 3
          PROVE  (cut \o dots)[k] = "."
      <4>1. k - m \in 1 .. 3 /\ m + (k - m) = k
        BY <2>2
      <4> QED
        BY <3>1, <3>2, <4>1, Zenon
    <3> QED
      BY <3>2, <3>3
  <2>8. NewLine \notin Range(cut \o dots)
    <3> HIDE DEF cut, m, dots
    <3>1. DOMAIN (cut \o dots) = 1 .. m + 3
      BY <2>3, <2>7 DEF dots
    <3>2. \A k \in 1 .. m + 3 : (cut \o dots)[k] # NewLine
      <4> TAKE k \in 1 .. m + 3
      <4>1. CASE k <= m
        <5>1. k \in 1 .. m /\ k \in 1 .. Len(line) /\ k \in 1 .. Len(all)
          BY <1>1, <2>2, <4>1
        <5> QED
          BY <2>3, <2>7, <5>1, Zenon
      <4>2. CASE ~(k <= m)
        <5>1. k \in m + 1 .. m + 3
          BY <2>2, <4>2
        <5> QED
          BY <2>7, <5>1, CharAssumption, Zenon
      <4> QED
        BY <4>1, <4>2
    <3> QED
      BY <3>1, <3>2 DEF Range
  <2>9. cut \o dots # <<>>
    <3> HIDE DEF cut, m, dots
    <3> QED
      BY <2>2, <2>7
  <2> QED
    BY <2>1, <2>5, <2>6, <2>8, <2>9
<1>3. CASE Len(line) # LineSize - 1
  <2>1. Len(line) = Len(all)
    BY <1>1, <1>3 DEF Shorter
  <2>2. line = all
    BY <2>1, SeqEqual
  <2>3. Ellipsised(line) = all
    BY <1>3, <2>2 DEF Ellipsised
  <2> QED
    BY <2>3 DEF Range
<1> QED
  BY <1>2, <1>3

\* The line is the first that is not empty, of a text with one.
LEMMA EverythingIsShown ==
  ASSUME NEW str \in Seq(Chars), is_salient_text(str)
  PROVE  IsShown(str)
<1>1. PICK j \in 1 .. Len(str) :
        /\ FirstUpto(str, Len(str), j)
        /\ first_line(str).line = CutLine(str, j)
        /\ first_line(str).nr_lines = Cardinality(LineStarts(str))
  BY FirstLineFact
<1>2. str[j] # NewLine /\ \A k \in 1 .. j - 1 : str[k] = NewLine
  BY <1>1 DEF FirstUpto
<1>3. FirstStart(str) = j
  <2> DEFINE IsFirst(i) == /\ str[i] # NewLine
                           /\ \A k \in LineStarts(str) :
                                k < i => str[k] = NewLine
  <2>1. j \in LineStarts(str)
    BY <1>2 DEF LineStarts
  <2>2. IsFirst(j)
    BY <1>2 DEF LineStarts
  <2>3. ASSUME NEW i \in LineStarts(str), IsFirst(i)
        PROVE  i = j
    <3>1. i \in 1 .. Len(str)
      BY DEF LineStarts
    <3>2. ~(i < j)
      BY <1>2, <2>3, <3>1
    <3>3. ~(j < i)
      BY <1>2, <2>1, <2>3
    <3> QED
      BY <3>1, <3>2, <3>3
  <2>4. FirstStart(str) = CHOOSE i \in LineStarts(str) : IsFirst(i)
    BY DEF FirstStart
  <2> HIDE DEF IsFirst
  <2> QED
    BY <2>1, <2>2, <2>3, <2>4, Zenon
<1> DEFINE all == SubSeq(str, j, LineEnd(str, j))
           cut == CutLine(str, j)
<1>4. /\ all \in Seq(Chars) /\ Len(all) >= 1
      /\ \A k \in 1 .. Len(all) : all[k] # NewLine
      /\ cut \in Seq(Chars)
      /\ Len(cut) = Shorter(Len(all), LineSize - 1)
      /\ \A k \in 1 .. Len(cut) : cut[k] = all[k]
  BY <1>2, CutLineFact
<1> HIDE DEF all, cut
<1>5. /\ Ellipsised(cut) # <<>> /\ NewLine \notin Range(Ellipsised(cut))
      /\ \/ Ellipsised(cut) = all
         \/ /\ Len(all) >= LineSize - 1
            /\ Ellipsised(cut) =
                 SubSeq(all, 1, LineSize - 4) \o <<".", ".", ".">>
  BY <1>4, EllipsisedFact
<1> QED
  BY <1>1, <1>3, <1>5 DEF IsShown, all, cut

-----------------------------------------------------------------------------
\* An invariant: clipmenud stores nothing but what is worth storing.
KeptSalient ==
  \A k \in DOMAIN kept : kept[k] \in Seq(Chars) /\ is_salient_text(kept[k])

LEMMA KeptSalientStep ==
  DragInv /\ KeptSalient /\ [TextNext]_textVars => KeptSalient'
<1> SUFFICES ASSUME DragInv, KeptSalient, [TextNext]_textVars
             PROVE  KeptSalient'
  OBVIOUS
<1>1. CASE UNCHANGED textVars
  BY <1>1 DEF textVars, KeptSalient
<1>2. ASSUME NEW c \in 0 .. Len(doc), DragTo(c)
      PROVE  KeptSalient'
  <2> DEFINE text == Selection(c)
  <2>1. text \in Seq(Chars) /\ is_salient_text(text)
    BY <1>2, SelectionFact DEF DragInv, DragTo
  <2>2. kept \in Seq(Seq(Chars)) /\ (last # NoText => kept # <<>>)
    BY DEF DragInv, TextTypeOK
  <2>3. ASSUME NEW k \in DOMAIN kept'
        PROVE  kept'[k] = text \/ (k \in DOMAIN kept /\ kept'[k] = kept[k])
    <3>1. CASE last # NoText /\ is_possible_partial(last, text)
      <4>1. kept' = [kept EXCEPT ![Len(kept)] = text]
        BY <1>2, <3>1 DEF DragTo
      <4> HIDE DEF text
      <4> QED
        BY <2>2, <2>3, <4>1
    <3>2. CASE ~(last # NoText /\ is_possible_partial(last, text))
      <4>1. kept' = Append(kept, text)
        BY <1>2, <3>2 DEF DragTo
      <4> HIDE DEF text
      <4> QED
        BY <2>1, <2>2, <2>3, <4>1
    <3> QED
      BY <3>1, <3>2
  <2> HIDE DEF text
  <2> QED
    BY <2>1, <2>3, Zenon DEF KeptSalient
<1> QED
  BY <1>1, <1>2 DEF TextNext

LEMMA KeptAreSalient == TextSpec => [](DragInv /\ KeptSalient)
<1>1. TextInit => KeptSalient
  BY DEF TextInit, KeptSalient
<1> QED
  BY <1>1, DragInit, DragInvStep, KeptSalientStep, PTL DEF TextSpec

(***************************************************************************)
(* What clipmenu shows of every clip is a line that is not empty, of its   *)
(* first line that is not, and the number of its lines is right.           *)
(***************************************************************************)
THEOREM LinesShowClips == TextSpec => []ShownFaithfully
<1>1. KeptSalient => ShownFaithfully
  BY EverythingIsShown DEF KeptSalient, ShownFaithfully
<1> QED
  BY <1>1, KeptAreSalient, PTL

-----------------------------------------------------------------------------
(***************************************************************************)
(* The numbers: how many digits they have, and that these are the number   *)
(* again when they are read.                                               *)
(***************************************************************************)
LEMMA TenFact ==
  \A n \in Nat :
    /\ n \div 10 \in Nat /\ n % 10 \in 0 .. 9
    /\ n = 10 * (n \div 10) + (n % 10)
    /\ n >= 10 => n \div 10 < n /\ n \div 10 >= 1
    /\ n < 10 => n \div 10 = 0 /\ n % 10 = n
<1> TAKE n \in Nat
<1>1. n \div 10 \in Nat /\ n % 10 \in 0 .. 9
      /\ n = 10 * (n \div 10) + (n % 10)
  OBVIOUS
<1>2. n >= 10 => n \div 10 < n /\ n \div 10 >= 1
  BY <1>1
<1>3. n < 10 => n \div 10 = 0 /\ n % 10 = n
  BY <1>1
<1> QED
  BY <1>1, <1>2, <1>3

LEMMA TenMonotone ==
  \A m, n \in Nat : m <= n => m \div 10 <= n \div 10
OBVIOUS

\* The digits, and the last one of a number.
DigitChars == Range(Digits)

DigitOf(n) == <<Digits[(n % 10) + 1]>>

\* The digits are ten, and none is a blank or a bracket.
LEMMA DigitsFact ==
  /\ DOMAIN Digits = 1 .. 10
  /\ \A k \in 0 .. 9 : /\ Digits[k + 1] \in DigitChars
                       /\ DigitValue(Digits[k + 1]) = k
  /\ "]" \notin DigitChars /\ " " \notin DigitChars
<1>1. /\ Digits[1] = "0" /\ Digits[2] = "1" /\ Digits[3] = "2"
      /\ Digits[4] = "3" /\ Digits[5] = "4" /\ Digits[6] = "5"
      /\ Digits[7] = "6" /\ Digits[8] = "7" /\ Digits[9] = "8"
      /\ Digits[10] = "9"
  BY DEF Digits
<1>2. DOMAIN Digits = 1 .. 10
  BY DEF Digits
<1>3. \A k \in 1 .. 10 : \/ k = 1 \/ k = 2 \/ k = 3 \/ k = 4 \/ k = 5
                         \/ k = 6 \/ k = 7 \/ k = 8 \/ k = 9 \/ k = 10
  OBVIOUS
<1>4. \A j, k \in 1 .. 10 : Digits[j] = Digits[k] => j = k
  BY <1>1, <1>3
<1>5. \A k \in 1 .. 10 : Digits[k] # "]" /\ Digits[k] # " "
  BY <1>1, <1>3
<1>6. \A k \in 0 .. 9 : Digits[k + 1] \in DigitChars
  <2> TAKE k \in 0 .. 9
  <2>1. k + 1 \in 1 .. 10
    OBVIOUS
  <2> QED
    BY <1>2, <2>1, Zenon DEF DigitChars, Range
<1>7. \A k \in 0 .. 9 : DigitValue(Digits[k + 1]) = k
  <2> TAKE k \in 0 .. 9
  <2>1. k + 1 \in 1 .. 10 /\ (k + 1) - 1 = k
    OBVIOUS
  <2>2. (CHOOSE j \in DOMAIN Digits : Digits[j] = Digits[k + 1]) = k + 1
    BY <1>2, <1>4, <2>1, Zenon
  <2> QED
    BY <2>1, <2>2 DEF DigitValue
<1>8. \A d \in DigitChars : \E k \in 1 .. 10 : d = Digits[k]
  BY <1>2 DEF DigitChars, Range
<1> QED
  BY <1>2, <1>5, <1>6, <1>7, <1>8, Zenon

LEMMA DigitOfFact ==
  ASSUME NEW n \in Nat
  PROVE  /\ DigitOf(n) \in Seq(DigitChars) /\ Len(DigitOf(n)) = 1
         /\ DigitOf(n)[1] = Digits[(n % 10) + 1]
         /\ DigitValue(Digits[(n % 10) + 1]) = n % 10
<1>1. n % 10 \in 0 .. 9
  BY TenFact
<1>2. Digits[(n % 10) + 1] \in DigitChars
  BY <1>1, DigitsFact
<1> QED
  BY <1>1, <1>2, OneFact, DigitsFact DEF DigitOf

\* The definition of Decimal is one: it has a solution.
LEMMA DecimalFact ==
  /\ Decimal \in [Nat -> Seq(DigitChars)]
  /\ \A n \in Nat :
       Decimal[n] = (IF n < 10 THEN <<>> ELSE Decimal[n \div 10]) \o DigitOf(n)
<1> DEFINE S == Seq(DigitChars)
           B == {n \in Nat : n < 10}
           a == [n \in Nat |-> <<>> \o DigitOf(n)]
           prev == [n \in Nat |-> n \div 10]
           step == [n \in Nat |-> [v \in S |-> v \o DigitOf(n)]]
           Loop(g) == [n \in Nat |-> (IF n < 10 THEN <<>> ELSE g[n \div 10])
                                       \o <<Digits[(n % 10) + 1]>>]
<1>1. \A n \in Nat : DigitOf(n) \in S
  BY DigitOfFact
<1>2. <<>> \in S /\ \A v, w \in S : v \o w \in S
  BY CatSeq
<1>3. \A n \in Nat : a[n] = <<>> \o DigitOf(n) /\ a[n] \in S
  BY <1>1, <1>2
<1>4. \A n \in Nat : \A v \in S : step[n][v] = v \o DigitOf(n)
                                  /\ step[n][v] \in S
  BY <1>1, <1>2
<1>5. \A n \in Nat : n \notin B => prev[n] \in Nat /\ prev[n] < n
  BY TenFact
<1>6. \A n \in Nat : prev[n] = n \div 10 /\ n \div 10 \in Nat
  BY TenFact
<1>7. \A n \in Nat : n \in B <=> n < 10
  OBVIOUS
<1> HIDE DEF B, a, prev, step, S
<1>8. IsRecursion(S, Nat, B, a, prev, step)
  BY <1>3, <1>4, <1>5, Zenon DEF IsRecursion
<1>9. PICK f \in [Nat -> S] : IsDefinedBy(f, Nat, B, a, prev, step)
  BY <1>8, RecursionExists, Zenon
<1>10. f = Loop(f)
  <2>1. ASSUME NEW n \in Nat
        PROVE  f[n] = (IF n < 10 THEN <<>> ELSE f[n \div 10]) \o DigitOf(n)
    <3>1. f[n] = IF n \in B THEN a[n] ELSE step[n][f[prev[n]]]
      BY <1>9 DEF IsDefinedBy
    <3>2. f[prev[n]] \in S
      BY <1>6, <1>9
    <3> QED
      BY <1>3, <1>4, <1>6, <1>7, <3>1, <3>2, Zenon
  <2>2. f = [n \in Nat |-> f[n]]
    BY <1>9
  <2> QED
    BY <2>1, <2>2, Zenon DEF DigitOf
<1>11. Decimal = CHOOSE g : g = Loop(g)
  BY DEF Decimal
<1>12. Decimal = Loop(Decimal)
  <2> HIDE DEF Loop
  <2> QED
    BY <1>10, <1>11, Zenon
<1>13. \A n \in Nat :
         Decimal[n] = (IF n < 10 THEN <<>> ELSE Decimal[n \div 10])
                        \o DigitOf(n)
  BY <1>12 DEF DigitOf
<1> DEFINE T == {n \in Nat : Decimal[n] \in S}
<1>14. ASSUME NEW n \in Nat, \A m \in Nat : m < n => m \in T
       PROVE  n \in T
  <2>1. CASE n < 10
    BY <1>1, <1>2, <1>13, <2>1
  <2>2. CASE ~(n < 10)
    <3>1. n \div 10 \in Nat /\ n \div 10 < n
      BY <2>2, TenFact
    <3>2. Decimal[n \div 10] \in S
      BY <1>14, <3>1
    <3> QED
      BY <1>1, <1>2, <1>13, <2>2, <3>2
  <2> QED
    BY <2>1, <2>2
<1>15. Nat \subseteq T
  <2> HIDE DEF T
  <2> QED
    BY <1>14, CourseOfValues
<1>16. Decimal = [n \in Nat |-> Decimal[n]]
  BY <1>12
<1>17. Decimal \in [Nat -> S]
  BY <1>15, <1>16
<1> QED
  BY <1>13, <1>17 DEF S

\* So has that of get_padding_length() ...
LEMMA PaddingFact ==
  /\ get_padding_length \in [Nat -> Nat]
  /\ \A n \in Nat : get_padding_length[n] =
       1 + (IF n < 10 THEN 0 ELSE get_padding_length[n \div 10])
<1> DEFINE B == {n \in Nat : n < 10}
           a == [n \in Nat |-> 1]
           prev == [n \in Nat |-> n \div 10]
           step == [n \in Nat |-> [v \in Nat |-> 1 + v]]
           Loop(g) == [n \in Nat |-> 1 + (IF n < 10 THEN 0 ELSE g[n \div 10])]
<1>1. \A n \in Nat : a[n] = 1 /\ a[n] \in Nat
  OBVIOUS
<1>2. \A n \in Nat : \A v \in Nat : step[n][v] = 1 + v /\ step[n][v] \in Nat
  OBVIOUS
<1>3. \A n \in Nat : n \notin B => prev[n] \in Nat /\ prev[n] < n
  BY TenFact
<1>4. \A n \in Nat : prev[n] = n \div 10 /\ n \div 10 \in Nat
  BY TenFact
<1>5. \A n \in Nat : n \in B <=> n < 10
  OBVIOUS
<1>6. 1 = 1 + 0 /\ Nat \subseteq Nat
  OBVIOUS
<1> HIDE DEF B, a, prev, step
<1>7. IsRecursion(Nat, Nat, B, a, prev, step)
  BY <1>1, <1>2, <1>3, <1>6, Zenon DEF IsRecursion
<1>8. PICK f \in [Nat -> Nat] : IsDefinedBy(f, Nat, B, a, prev, step)
  BY <1>7, RecursionExists, Zenon
<1>9. f = Loop(f)
  <2>1. ASSUME NEW n \in Nat
        PROVE  f[n] = 1 + (IF n < 10 THEN 0 ELSE f[n \div 10])
    <3>1. f[n] = IF n \in B THEN a[n] ELSE step[n][f[prev[n]]]
      BY <1>8 DEF IsDefinedBy
    <3>2. f[prev[n]] \in Nat
      BY <1>4, <1>8
    <3>3. CASE n \in B
      <4>1. n < 10 /\ f[n] = 1
        BY <1>1, <1>5, <3>1, <3>3, Zenon
      <4> QED
        BY <1>6, <4>1, Zenon
    <3>4. CASE n \notin B
      <4>1. ~(n < 10) /\ f[n] = step[n][f[prev[n]]]
        BY <1>5, <3>1, <3>4, Zenon
      <4>2. step[n][f[prev[n]]] = 1 + f[prev[n]]
        BY <1>2, <3>2, Zenon
      <4>3. prev[n] = n \div 10
        BY <1>4, Zenon
      <4> QED
        BY <4>1, <4>2, <4>3, Zenon
    <3> QED
      BY <3>3, <3>4
  <2>2. f = [n \in Nat |-> f[n]]
    BY <1>8
  <2> QED
    BY <2>1, <2>2, Zenon
<1>10. get_padding_length = CHOOSE g : g = Loop(g)
  BY DEF get_padding_length
<1>11. get_padding_length = Loop(get_padding_length)
  <2> HIDE DEF Loop
  <2> QED
    BY <1>9, <1>10, Zenon
<1> DEFINE pad == get_padding_length
<1>12. /\ pad = [n \in Nat |-> pad[n]]
       /\ \A n \in Nat : pad[n] = 1 + (IF n < 10 THEN 0 ELSE pad[n \div 10])
  BY <1>11
<1> DEFINE T == {n \in Nat : pad[n] \in Nat}
<1> HIDE DEF pad
<1>13. ASSUME NEW n \in Nat, \A m \in Nat : m < n => m \in T
       PROVE  n \in T
  <2>1. CASE n < 10
    BY <1>12, <2>1
  <2>2. CASE ~(n < 10)
    <3>1. n \div 10 \in Nat /\ n \div 10 < n
      BY <2>2, TenFact
    <3>2. pad[n \div 10] \in Nat
      BY <1>13, <3>1
    <3>3. pad[n] = 1 + pad[n \div 10]
      BY <1>12, <2>2, Zenon
    <3> QED
      BY <3>2, <3>3
  <2> QED
    BY <2>1, <2>2
<1>14. Nat \subseteq T
  <2> HIDE DEF T
  <2> QED
    BY <1>13, CourseOfValues
<1> QED
  BY <1>12, <1>14 DEF pad

\* ... and that of the largest number.
LEMMA LargestFact ==
  /\ LargestOf \in [Nat -> Nat] /\ LargestOf[0] = 0
  /\ \A k \in Nat : LargestOf[k + 1] = 10 * LargestOf[k] + 9
<1> DEFINE B == {0}
           a == [n \in Nat |-> 0]
           prev == [n \in Nat |-> n - 1]
           step == [n \in Nat |-> [v \in Nat |-> 10 * v + 9]]
           Loop(g) == [k \in Nat |-> IF k = 0 THEN 0 ELSE 10 * g[k - 1] + 9]
<1>1. \A n \in Nat : a[n] = 0 /\ a[n] \in Nat
  OBVIOUS
<1>2. \A n \in Nat : \A v \in Nat : step[n][v] = 10 * v + 9
                                    /\ step[n][v] \in Nat
  OBVIOUS
<1>3. \A n \in Nat : n \notin B => /\ prev[n] \in Nat /\ prev[n] < n
                                   /\ prev[n] = n - 1
  OBVIOUS
<1>4. \A n \in Nat : n \in B <=> n = 0
  OBVIOUS
<1>5. Nat \subseteq Nat
  OBVIOUS
<1> HIDE DEF B, a, prev, step
<1>6. IsRecursion(Nat, Nat, B, a, prev, step)
  BY <1>1, <1>2, <1>3, <1>5, Zenon DEF IsRecursion
<1>7. PICK f \in [Nat -> Nat] : IsDefinedBy(f, Nat, B, a, prev, step)
  BY <1>6, RecursionExists, Zenon
<1>8. f = Loop(f)
  <2>1. ASSUME NEW n \in Nat
        PROVE  f[n] = IF n = 0 THEN 0 ELSE 10 * f[n - 1] + 9
    <3>1. f[n] = IF n \in B THEN a[n] ELSE step[n][f[prev[n]]]
      BY <1>7 DEF IsDefinedBy
    <3>2. CASE n \in B
      BY <1>1, <1>4, <3>1, <3>2, Zenon
    <3>3. CASE n \notin B
      <4>1. prev[n] = n - 1 /\ f[prev[n]] \in Nat /\ n # 0
        BY <1>3, <1>4, <1>7, <3>3
      <4> QED
        BY <1>2, <3>1, <3>3, <4>1, Zenon
    <3> QED
      BY <3>2, <3>3
  <2>2. f = [n \in Nat |-> f[n]]
    BY <1>7
  <2> QED
    BY <2>1, <2>2, Zenon
<1>9. LargestOf = CHOOSE g : g = Loop(g)
  BY DEF LargestOf
<1>10. LargestOf = Loop(LargestOf)
  <2> HIDE DEF Loop
  <2> QED
    BY <1>8, <1>9, Zenon
<1> DEFINE lo == LargestOf
<1>11. /\ lo = [k \in Nat |-> lo[k]]
       /\ \A k \in Nat : lo[k] = IF k = 0 THEN 0 ELSE 10 * lo[k - 1] + 9
  BY <1>10
<1> HIDE DEF lo
<1>12. lo[0] = 0 /\ \A k \in Nat : lo[k + 1] = 10 * lo[k] + 9
  <2>1. \A k \in Nat : k + 1 \in Nat /\ k + 1 # 0 /\ (k + 1) - 1 = k
    OBVIOUS
  <2> QED
    BY <1>11, <2>1
<1> DEFINE T == {k \in Nat : lo[k] \in Nat}
<1>13. Nat \subseteq T
  <2>1. 0 \in T
    BY <1>12
  <2>2. ASSUME NEW k \in Nat, k \in T
        PROVE  k + 1 \in T
    BY <1>12, <2>2
  <2> HIDE DEF T
  <2> QED
    BY <2>1, <2>2, NatIsInductive
<1> QED
  BY <1>11, <1>12, <1>13 DEF lo

\* A number has as many digits as get_padding_length() says.
LEMMA DecimalLength ==
  \A n \in Nat : Len(Decimal[n]) = get_padding_length[n]
<1> DEFINE pad == get_padding_length
           T == {n \in Nat : Len(Decimal[n]) = pad[n]}
<1>1. ASSUME NEW n \in Nat, \A m \in Nat : m < n => m \in T
      PROVE  n \in T
  <2>1. DigitOf(n) \in Seq(DigitChars) /\ Len(DigitOf(n)) = 1
    BY DigitOfFact
  <2>2. CASE n < 10
    <3>1. Decimal[n] = <<>> \o DigitOf(n) /\ pad[n] = 1 + 0
      BY <2>2, DecimalFact, PaddingFact, Zenon
    <3>2. <<>> \in Seq(DigitChars) /\ Len(<<>>) = 0
      OBVIOUS
    <3>3. Len(<<>> \o DigitOf(n)) = Len(<<>>) + Len(DigitOf(n))
      BY <2>1, <3>2, CatFact
    <3>4. Len(Decimal[n]) = 1 /\ pad[n] = 1
      BY <2>1, <3>1, <3>2, <3>3
    <3> QED
      BY <3>4
  <2>3. CASE ~(n < 10)
    <3>1. n \div 10 \in Nat /\ n \div 10 < n
      BY <2>3, TenFact
    <3>2. /\ Decimal[n] = Decimal[n \div 10] \o DigitOf(n)
          /\ pad[n] = 1 + pad[n \div 10]
      BY <2>3, DecimalFact, PaddingFact, Zenon
    <3>3. Len(Decimal[n \div 10]) = pad[n \div 10]
      BY <1>1, <3>1
    <3>4. Decimal[n \div 10] \in Seq(DigitChars) /\ pad[n \div 10] \in Nat
      BY <3>1, DecimalFact, PaddingFact
    <3> HIDE DEF pad
    <3>5. Len(Decimal[n \div 10] \o DigitOf(n))
            = Len(Decimal[n \div 10]) + Len(DigitOf(n))
      BY <2>1, <3>4, CatFact
    <3>6. Len(Decimal[n]) = pad[n \div 10] + 1
      BY <2>1, <3>2, <3>3, <3>5, Zenon
    <3>7. pad[n \div 10] + 1 = 1 + pad[n \div 10]
      BY <3>4
    <3> QED
      BY <3>2, <3>6, <3>7, Zenon
  <2> QED
    BY <2>2, <2>3
<1> HIDE DEF T
<1>2. Nat \subseteq T
  BY <1>1, CourseOfValues
<1> QED
  BY <1>2 DEF T

\* The largest number has the most digits.
LEMMA PaddingMonotone ==
  \A n \in Nat : \A m \in 0 .. n :
    get_padding_length[m] <= get_padding_length[n]
<1> DEFINE pad == get_padding_length
           T == {n \in Nat : \A m \in 0 .. n : pad[m] <= pad[n]}
<1>1. \A n \in Nat : /\ pad[n] \in Nat
                     /\ n < 10 => pad[n] = 1
                     /\ ~(n < 10) => pad[n] = 1 + pad[n \div 10]
  BY PaddingFact
<1> HIDE DEF pad
<1>2. ASSUME NEW n \in Nat, \A k \in Nat : k < n => k \in T
      PROVE  n \in T
  <2> SUFFICES ASSUME NEW m \in 0 .. n
               PROVE  pad[m] <= pad[n]
    OBVIOUS
  <2>1. m \in Nat /\ m <= n /\ n \div 10 \in Nat /\ m \div 10 \in Nat
    BY TenFact
  <2>2. CASE n < 10
    <3>1. m < 10
      BY <2>1, <2>2
    <3> QED
      BY <1>1, <2>1, <2>2, <3>1
  <2>3. CASE m < 10 /\ ~(n < 10)
    <3>1. pad[m] = 1 /\ pad[n] = 1 + pad[n \div 10] /\ pad[n \div 10] \in Nat
      BY <1>1, <2>1, <2>3
    <3> QED
      BY <3>1
  <2>4. CASE ~(m < 10) /\ ~(n < 10)
    <3>1. n \div 10 < n /\ m \div 10 \in 0 .. n \div 10
      BY <2>1, <2>4, TenFact, TenMonotone
    <3>2. pad[m \div 10] <= pad[n \div 10]
      BY <1>2, <2>1, <3>1
    <3>3. /\ pad[m] = 1 + pad[m \div 10] /\ pad[m \div 10] \in Nat
          /\ pad[n] = 1 + pad[n \div 10] /\ pad[n \div 10] \in Nat
      BY <1>1, <2>1, <2>4
    <3> QED
      BY <3>2, <3>3
  <2> QED
    BY <2>1, <2>2, <2>3, <2>4
<1> HIDE DEF T
<1>3. Nat \subseteq T
  BY <1>2, CourseOfValues
<1> QED
  BY <1>3 DEF T, pad

\* A number that is not above the largest of k digits has no more of them.
LEMMA LargestLength ==
  \A k \in Nat : \A n \in Nat :
    n <= LargestOf[k + 1] => get_padding_length[n] <= k + 1
<1> DEFINE pad == get_padding_length
           lo == LargestOf
           T == {k \in Nat : \A n \in Nat : n <= lo[k + 1] => pad[n] <= k + 1}
<1>1. \A n \in Nat : /\ pad[n] \in Nat
                     /\ n < 10 => pad[n] = 1
                     /\ ~(n < 10) => pad[n] = 1 + pad[n \div 10]
  BY PaddingFact
<1>2. /\ lo[0] = 0 /\ \A k \in Nat : lo[k + 1] = 10 * lo[k] + 9
      /\ \A k \in Nat : lo[k] \in Nat
  BY LargestFact
<1> HIDE DEF pad, lo
<1>3. 0 \in T
  <2>1. lo[0 + 1] = 9
    BY <1>2
  <2> QED
    BY <1>1, <2>1
<1>4. ASSUME NEW k \in Nat, k \in T
      PROVE  k + 1 \in T
  <2> SUFFICES ASSUME NEW n \in Nat, n <= lo[(k + 1) + 1]
               PROVE  pad[n] <= (k + 1) + 1
    OBVIOUS
  <2>1. lo[(k + 1) + 1] = 10 * lo[k + 1] + 9 /\ lo[k + 1] \in Nat
    BY <1>2
  <2>2. CASE n < 10
    <3>1. pad[n] = 1
      BY <1>1, <2>2
    <3> QED
      BY <3>1
  <2>3. CASE ~(n < 10)
    <3>1. n \div 10 \in Nat /\ n \div 10 <= lo[k + 1]
      <4>1. \A l \in Nat : n <= 10 * l + 9 => n \div 10 <= l
        OBVIOUS
      <4> QED
        BY <2>1, <4>1, TenFact
    <3>2. pad[n \div 10] <= k + 1 /\ pad[n \div 10] \in Nat
      BY <1>1, <1>4, <3>1
    <3>3. pad[n] = 1 + pad[n \div 10]
      BY <1>1, <2>3, Zenon
    <3> QED
      BY <3>2, <3>3
  <2> QED
    BY <2>2, <2>3
<1> HIDE DEF T
<1>5. Nat \subseteq T
  BY <1>3, <1>4, NatIsInductive
<1> QED
  BY <1>5 DEF T, pad, lo

LEMMA DigitValueFact ==
  \A d \in DigitChars : DigitValue(d) \in 0 .. 9
<1> TAKE d \in DigitChars
<1>1. PICK k \in 1 .. 10 : d = Digits[k]
  BY DigitsFact DEF DigitChars, Range
<1>2. k - 1 \in 0 .. 9 /\ (k - 1) + 1 = k
  OBVIOUS
<1> QED
  BY <1>1, <1>2, DigitsFact

\* What ValueOf() computes is what the loop does.
LEMMA ValueFact ==
  ASSUME NEW digits \in Seq(DigitChars)
  PROVE  /\ ValueOf(digits) \in [0 .. Len(digits) -> Nat]
         /\ ValueOf(digits)[0] = 0
         /\ \A i \in 1 .. Len(digits) :
              ValueOf(digits)[i] =
                10 * ValueOf(digits)[i - 1] + DigitValue(digits[i])
<1> DEFINE n == Len(digits)
           step == [i \in 1 .. n |->
                      [v \in Nat |-> 10 * v + DigitValue(digits[i])]]
           Loop(g) == [i \in 0 .. n |->
                         IF i = 0 THEN 0
                         ELSE 10 * g[i - 1] + DigitValue(digits[i])]
<1>1. n \in Nat /\ 0 \in Nat
  OBVIOUS
<1>2. \A i \in 1 .. n : DigitValue(digits[i]) \in Nat
  BY DigitValueFact
<1>3. \A i \in 1 .. n : \A v \in Nat :
        step[i][v] = 10 * v + DigitValue(digits[i]) /\ step[i][v] \in Nat
  <2>1. \A i \in 1 .. n : \A v \in Nat :
          step[i][v] = 10 * v + DigitValue(digits[i])
    OBVIOUS
  <2>2. \A d, v \in Nat : 10 * v + d \in Nat
    OBVIOUS
  <2> HIDE DEF step
  <2> QED
    BY <1>2, <2>1, <2>2, Zenon
<1> HIDE DEF step
<1>4. PICK f \in [0 .. n -> Nat] : IsLoop(f, n, 0, step)
  <2>1. KeepsType(Nat, n, step)
    BY <1>3 DEF KeepsType
  <2> HIDE DEF n
  <2> QED
    BY <1>1, <2>1, LoopExists
<1>5. f = Loop(f)
  <2>1. f = [i \in 0 .. n |-> f[i]]
    BY <1>4
  <2>2. ASSUME NEW i \in 0 .. n
        PROVE  f[i] = IF i = 0 THEN 0
                      ELSE 10 * f[i - 1] + DigitValue(digits[i])
    <3>1. CASE i = 0
      BY <1>4, <3>1 DEF IsLoop
    <3>2. CASE i # 0
      <4>1. i \in 1 .. n /\ i - 1 \in 0 .. n
        BY <1>1, <3>2
      <4>2. f[i] = step[i][f[i - 1]] /\ f[i - 1] \in Nat
        BY <1>4, <4>1, Zenon DEF IsLoop
      <4> QED
        BY <1>3, <3>2, <4>1, <4>2, Zenon
    <3> QED
      BY <3>1, <3>2
  <2> QED
    BY <2>1, <2>2, Zenon
<1>6. ValueOf(digits) = CHOOSE g : g = Loop(g)
  BY DEF ValueOf
<1>7. ValueOf(digits) = Loop(ValueOf(digits))
  <2> HIDE DEF Loop
  <2> QED
    BY <1>5, <1>6, Zenon
<1> DEFINE value == ValueOf(digits)
<1>8. value = [i \in 0 .. n |-> value[i]]
  BY <1>7
<1>9. /\ value[0] = 0
      /\ \A i \in 1 .. n :
           value[i] = 10 * value[i - 1] + DigitValue(digits[i])
  <2>1. 0 \in 0 .. n /\ \A i \in 1 .. n : i \in 0 .. n /\ i # 0
    BY <1>1
  <2> QED
    BY <1>7, <2>1, Zenon
<1> DEFINE T == {i \in Nat : i <= n => value[i] \in Nat}
<1> HIDE DEF value
<1>10. \A i \in 0 .. n : value[i] \in Nat
  <2>1. 0 \in T
    BY <1>9
  <2>2. ASSUME NEW i \in Nat, i \in T
        PROVE  i + 1 \in T
    <3>1. SUFFICES ASSUME i + 1 <= n
                   PROVE  value[i + 1] \in Nat
      OBVIOUS
    <3>2. i + 1 \in 1 .. n /\ (i + 1) - 1 = i /\ i <= n
      BY <1>1, <3>1
    <3>3. value[i + 1] = 10 * value[i] + DigitValue(digits[i + 1])
      BY <1>9, <3>2
    <3>4. value[i] \in Nat /\ DigitValue(digits[i + 1]) \in Nat
      BY <1>2, <2>2, <3>2
    <3> QED
      BY <3>3, <3>4
  <2> HIDE DEF T
  <2>3. Nat \subseteq T
    BY <2>1, <2>2, NatIsInductive
  <2> QED
    BY <1>1, <2>3 DEF T
<1> QED
  BY <1>8, <1>9, <1>10 DEF value

\* The value of the first digits does not depend on the others.
LEMMA PrefixValue ==
  ASSUME NEW p \in Seq(DigitChars), NEW d \in Seq(DigitChars),
         Len(p) <= Len(d), \A i \in 1 .. Len(p) : p[i] = d[i]
  PROVE  ValueOf(d)[Len(p)] = ValueOf(p)[Len(p)]
<1> DEFINE a == ValueOf(p)
           b == ValueOf(d)
           T == {i \in Nat : i <= Len(p) => a[i] = b[i]}
<1>1. Len(p) \in Nat /\ Len(d) \in Nat
  OBVIOUS
<1>2. /\ a[0] = 0 /\ b[0] = 0
      /\ \A i \in 1 .. Len(p) : a[i] = 10 * a[i - 1] + DigitValue(p[i])
      /\ \A i \in 1 .. Len(d) : b[i] = 10 * b[i - 1] + DigitValue(d[i])
  BY ValueFact
<1> HIDE DEF a, b
<1>3. 0 \in T
  BY <1>2
<1>4. ASSUME NEW i \in Nat, i \in T
      PROVE  i + 1 \in T
  <2>1. SUFFICES ASSUME i + 1 <= Len(p)
                 PROVE  a[i + 1] = b[i + 1]
    OBVIOUS
  <2>2. /\ i + 1 \in 1 .. Len(p) /\ i + 1 \in 1 .. Len(d)
        /\ (i + 1) - 1 = i /\ i <= Len(p)
    BY <1>1, <2>1
  <2>3. a[i] = b[i] /\ p[i + 1] = d[i + 1]
    BY <1>4, <2>2
  <2> QED
    BY <1>2, <2>2, <2>3, Zenon
<1> HIDE DEF T
<1>5. Nat \subseteq T
  BY <1>3, <1>4, NatIsInductive
<1> QED
  BY <1>1, <1>5 DEF T, a, b

\* Reading what was written.
LEMMA DecimalValue ==
  \A n \in Nat : ValueOf(Decimal[n])[Len(Decimal[n])] = n
<1> DEFINE T == {n \in Nat : ValueOf(Decimal[n])[Len(Decimal[n])] = n}
<1>1. ASSUME NEW n \in Nat, \A m \in Nat : m < n => m \in T
      PROVE  n \in T
  <2> DEFINE p == IF n < 10 THEN <<>> ELSE Decimal[n \div 10]
             d == Decimal[n]
             k == Len(p)
  <2>1. n \div 10 \in Nat
    BY TenFact
  <2>2. p \in Seq(DigitChars) /\ d \in Seq(DigitChars) /\ d = p \o DigitOf(n)
    <3>1. \A m \in Nat : Decimal[m] \in Seq(DigitChars)
      BY DecimalFact
    <3>2. <<>> \in Seq(DigitChars)
      OBVIOUS
    <3>3. p \in Seq(DigitChars)
      BY <2>1, <3>1, <3>2
    <3> QED
      BY <3>1, <3>3, DecimalFact, Zenon
  <2>3. ValueOf(p)[k] = n \div 10
    <3>1. CASE n < 10
      <4>1. p = <<>> /\ k = 0 /\ n \div 10 = 0
        BY <3>1, TenFact
      <4> HIDE DEF p
      <4> QED
        BY <2>2, <4>1, ValueFact
    <3>2. CASE ~(n < 10)
      <4>1. n \div 10 < n /\ p = Decimal[n \div 10]
        BY <3>2, TenFact
      <4> QED
        BY <1>1, <2>1, <4>1
    <3> QED
      BY <3>1, <3>2
  <2> HIDE DEF p, d
  <2>4. /\ DigitOf(n) \in Seq(DigitChars) /\ Len(DigitOf(n)) = 1
        /\ DigitValue(DigitOf(n)[1]) = n % 10
    BY DigitOfFact
  <2>5. k \in Nat /\ 1 \in 1 .. 1
    BY <2>2
  <2>6. Len(d) = k + 1 /\ d[k + 1] = DigitOf(n)[1]
        /\ \A i \in 1 .. k : p[i] = d[i]
    <3>1. /\ Len(p \o DigitOf(n)) = Len(p) + Len(DigitOf(n))
          /\ \A i \in 1 .. Len(p) : (p \o DigitOf(n))[i] = p[i]
          /\ \A i \in 1 .. Len(DigitOf(n)) :
               (p \o DigitOf(n))[Len(p) + i] = DigitOf(n)[i]
      <4>1. p \in Seq(DigitChars) /\ DigitOf(n) \in Seq(DigitChars)
        BY <2>2, <2>4
      <4> QED
        BY <4>1, CatFact
    <3> QED
      BY <2>2, <2>4, <2>5, <3>1, Zenon
  <2>7. ValueOf(d)[k] = n \div 10
    <3>1. Len(p) <= Len(d)
      BY <2>5, <2>6
    <3>2. ValueOf(d)[Len(p)] = ValueOf(p)[Len(p)]
      BY <2>2, <2>6, <3>1, PrefixValue
    <3> QED
      BY <2>3, <3>2, Zenon
  <2>8. ValueOf(d)[k + 1] = 10 * ValueOf(d)[(k + 1) - 1] + DigitValue(d[k + 1])
    <3>1. k + 1 \in 1 .. Len(d)
      BY <2>5, <2>6
    <3> QED
      BY <2>2, <3>1, ValueFact
  <2>9. ValueOf(d)[k + 1] = 10 * (n \div 10) + (n % 10)
    <3>1. (k + 1) - 1 = k
      BY <2>5
    <3> QED
      BY <2>4, <2>6, <2>7, <2>8, <3>1, Zenon
  <2>10. ValueOf(d)[Len(d)] = n
    BY <2>6, <2>9, TenFact, Zenon
  <2> QED
    BY <2>10 DEF d
<1> HIDE DEF T
<1>2. Nat \subseteq T
  BY <1>1, CourseOfValues
<1> QED
  BY <1>2 DEF T

-----------------------------------------------------------------------------
(***************************************************************************)
(* The lines, and the number that the launcher's output begins with.       *)
(***************************************************************************)
\* What there is in the lines that clipmenu writes.
LineChars == Chars \union DigitChars
               \union {"[", "]", " ", "(", " lines)", "."}

LEMMA BlanksFact ==
  ASSUME NEW n \in Nat
  PROVE  /\ Blanks(n) \in Seq({" "}) /\ Len(Blanks(n)) = n
         /\ \A i \in 1 .. n : Blanks(n)[i] = " "
BY DEF Blanks

\* A number has digits, and nothing else in it.
LEMMA DecimalDigits ==
  ASSUME NEW n \in Nat
  PROVE  /\ Decimal[n] \in Seq(DigitChars)
         /\ Len(Decimal[n]) \in Nat /\ Len(Decimal[n]) >= 1
         /\ \A i \in 1 .. Len(Decimal[n]) :
              Decimal[n][i] # " " /\ Decimal[n][i] # "]"
<1>1. Decimal[n] \in Seq(DigitChars)
  BY DecimalFact
<1>2. Len(Decimal[n]) >= 1
  <2>1. CASE n < 10
    BY <2>1, DecimalLength, PaddingFact
  <2>2. CASE ~(n < 10)
    <3>1. n \div 10 \in Nat
      BY TenFact
    <3>2. get_padding_length[n \div 10] \in Nat
      BY <3>1, PaddingFact
    <3>3. get_padding_length[n] = 1 + get_padding_length[n \div 10]
      BY <2>2, PaddingFact, Zenon
    <3>4. 1 + get_padding_length[n \div 10] >= 1
      BY <3>2
    <3> QED
      BY <3>3, <3>4, DecimalLength, Zenon
  <2> QED
    BY <2>1, <2>2
<1>3. \A i \in 1 .. Len(Decimal[n]) : Decimal[n][i] \in DigitChars
  BY <1>1
<1>4. Len(Decimal[n]) \in Nat
  BY <1>1
<1>5. \A d \in DigitChars : d # " " /\ d # "]"
  BY DigitsFact
<1> QED
  BY <1>1, <1>2, <1>3, <1>4, <1>5, Zenon

\* The beginning of a line: a bracket, blanks, the number, and a bracket.
LEMMA NumberedFact ==
  ASSUME NEW total \in Nat, NEW n \in 0 .. total
  PROVE  LET p == get_padding_length[total]
             k == Len(Decimal[n])
             line == Numbered(n, total)
         IN  /\ p \in Nat /\ k \in 1 .. p
             /\ line \in Seq(LineChars) /\ Len(line) = p + 3
             /\ \A i \in 1 .. p - k : line[1 + i] = " "
             /\ \A i \in 1 .. k : line[1 + (p - k) + i] = Decimal[n][i]
             /\ line[p + 2] = "]"
<1> DEFINE p == get_padding_length[total]
           d == Decimal[n]
           k == Len(d)
           c1 == <<"[">>
           c2 == c1 \o Blanks(p - k)
           c3 == c2 \o d
           c4 == c3 \o <<"]", " ">>
<1>1. n \in Nat /\ p \in Nat /\ d \in Seq(DigitChars) /\ k \in Nat /\ k >= 1
  <2>1. n \in Nat /\ total \in Nat
    OBVIOUS
  <2>2. p \in Nat
    BY <2>1, PaddingFact
  <2> QED
    BY <2>1, <2>2, DecimalDigits
<1>2. k <= p
  BY <1>1, DecimalLength, PaddingMonotone
<1>3. p - k \in Nat
  BY <1>1, <1>2
<1>4. Numbered(n, total) = c4
  BY DEF Numbered
<1>5. c1 \in Seq(LineChars) /\ Len(c1) = 1
  BY OneFact DEF LineChars
<1>6. /\ Blanks(p - k) \in Seq(LineChars) /\ Len(Blanks(p - k)) = p - k
      /\ \A i \in 1 .. p - k : Blanks(p - k)[i] = " "
  <2>1. {" "} \subseteq LineChars
    BY DEF LineChars
  <2> HIDE DEF p, k
  <2>2. /\ Blanks(p - k) \in Seq({" "}) /\ Len(Blanks(p - k)) = p - k
        /\ \A i \in 1 .. p - k : Blanks(p - k)[i] = " "
    BY <1>3, BlanksFact
  <2>3. Blanks(p - k) \in Seq(LineChars)
    BY <2>1, <2>2, WiderSeq
  <2> QED
    BY <2>2, <2>3, Zenon
<1> HIDE DEF c1
<1>7. /\ c2 \in Seq(LineChars) /\ Len(c2) = 1 + (p - k)
      /\ \A i \in 1 .. p - k : c2[1 + i] = " "
  <2> HIDE DEF p, k
  <2>1. c2 \in Seq(LineChars)
    BY <1>5, <1>6, CatSeq
  <2>2. /\ Len(c2) = Len(c1) + Len(Blanks(p - k))
        /\ \A i \in 1 .. Len(Blanks(p - k)) :
             c2[Len(c1) + i] = Blanks(p - k)[i]
    <3>1. c1 \in Seq(LineChars) /\ Blanks(p - k) \in Seq(LineChars)
      BY <1>5, <1>6
    <3> QED
      BY <3>1, CatFact
  <2> HIDE DEF c2
  <2> QED
    BY <1>5, <1>6, <2>1, <2>2, Zenon
<1> HIDE DEF c2, d
<1>8. /\ c3 \in Seq(LineChars) /\ Len(c3) = 1 + (p - k) + k
      /\ \A i \in 1 .. p - k : c3[1 + i] = " "
      /\ \A i \in 1 .. k : c3[1 + (p - k) + i] = d[i]
  <2>1. d \in Seq(LineChars)
    <3>1. DigitChars \subseteq LineChars
      BY DEF LineChars
    <3> QED
      BY <1>1, <3>1, WiderSeq
  <2>2. c3 \in Seq(LineChars)
    BY <1>7, <2>1, CatSeq
  <2>3. /\ Len(c3) = Len(c2) + Len(d)
        /\ \A i \in 1 .. Len(c2) : c3[i] = c2[i]
        /\ \A i \in 1 .. Len(d) : c3[Len(c2) + i] = d[i]
    <3>1. c2 \in Seq(LineChars) /\ d \in Seq(LineChars)
      BY <1>7, <2>1
    <3> QED
      BY <3>1, CatFact
  <2> HIDE DEF c3, p
  <2>4. \A i \in 1 .. p - k : 1 + i \in 1 .. Len(c2)
    <3> HIDE DEF k
    <3>1. \A b \in Nat : \A i \in 1 .. b : 1 + i \in 1 .. 1 + b
      OBVIOUS
    <3> QED
      BY <1>3, <1>7, <3>1, Zenon
  <2> HIDE DEF k
  <2>5. Len(d) = k
    BY DEF k
  <2> QED
    BY <1>7, <2>2, <2>3, <2>4, <2>5, Zenon
<1> HIDE DEF c3
<1>9. /\ c4 \in Seq(LineChars) /\ Len(c4) = p + 3
      /\ \A i \in 1 .. p + 1 : c4[i] = c3[i]
      /\ c4[p + 2] = "]"
  <2>1. <<"]", " ">> \in Seq(LineChars) /\ Len(<<"]", " ">>) = 2
        /\ <<"]", " ">>[1] = "]"
    BY DEF LineChars
  <2> DEFINE e == <<"]", " ">>
  <2> HIDE DEF e
  <2>2. e \in Seq(LineChars) /\ Len(e) = 2 /\ e[1] = "]"
    BY <2>1 DEF e
  <2>3. c4 = c3 \o e
    BY DEF e
  <2> HIDE DEF c4, p, k
  <2>4. /\ Len(c4) = Len(c3) + Len(e)
        /\ \A i \in 1 .. Len(c3) : c4[i] = c3[i]
        /\ \A i \in 1 .. Len(e) : c4[Len(c3) + i] = e[i]
    <3>1. c3 \in Seq(LineChars) /\ e \in Seq(LineChars)
      BY <1>8, <2>2
    <3>2. /\ Len(c3 \o e) = Len(c3) + Len(e)
          /\ \A i \in 1 .. Len(c3) : (c3 \o e)[i] = c3[i]
          /\ \A i \in 1 .. Len(e) : (c3 \o e)[Len(c3) + i] = e[i]
      BY <3>1, CatFact
    <3> QED
      BY <2>3, <3>2, Zenon
  <2>5. c4 \in Seq(LineChars)
    BY <1>8, <2>2, <2>3, CatSeq
  <2>6. Len(c3) = p + 1 /\ Len(c3) + 2 = p + 3 /\ (p + 1) + 1 = p + 2
        /\ 1 \in 1 .. 2
    <3>1. /\ 1 + (p - k) + k = p + 1 /\ (p + 1) + 2 = p + 3
          /\ (p + 1) + 1 = p + 2 /\ 1 \in 1 .. 2
      BY <1>1
    <3> QED
      BY <1>8, <3>1, Zenon
  <2> QED
    BY <2>2, <2>4, <2>5, <2>6, Zenon
<1> HIDE DEF c4
<1>10. ASSUME NEW i \in 1 .. p - k
       PROVE  c4[1 + i] = " "
  <2>1. 1 + i \in 1 .. p + 1
    <3> HIDE DEF p, k
    <3> QED
      BY <1>1
  <2> HIDE DEF p, k
  <2> QED
    BY <1>8, <1>9, <2>1, Zenon
<1>11. ASSUME NEW i \in 1 .. k
       PROVE  c4[1 + (p - k) + i] = d[i]
  <2>1. 1 + (p - k) + i \in 1 .. p + 1
    <3> HIDE DEF p, k
    <3> QED
      BY <1>1, <1>2
  <2> HIDE DEF p, k
  <2> QED
    BY <1>8, <1>9, <2>1, Zenon
<1>12. k \in 1 .. p
  <2> HIDE DEF p, k
  <2> QED
    BY <1>1, <1>2
<1> HIDE DEF p
<1> QED
  BY <1>1, <1>4, <1>9, <1>10, <1>11, <1>12, Zenon DEF p, d

\* Characters that the proofs below have names for.
Blank == " "
Closing == "]"
Opening == "("
ManyLines == " lines)"
Dot == "."

\* Blanks, and then digits.
IsPadded(str, b, digits) ==
  /\ Len(str) = b + Len(digits)
  /\ \A i \in 1 .. b : str[i] = Blank
  /\ \A i \in 1 .. Len(digits) : str[b + i] = digits[i]

\* No number of so many clips is longer than clipmenu reads.
Fits(total) == get_padding_length[total] <= MaxStrlen

\* Blanks and digits, read by str_to_uint64().
LEMMA ReadNumber ==
  ASSUME NEW n \in Nat, NEW b \in Nat, NEW str \in Seq(LineChars),
         IsPadded(str, b, Decimal[n])
  PROVE  str_to_uint64(str) = n
<1> DEFINE d == Decimal[n]
           k == Len(d)
           blanks == {i \in DOMAIN str : \A j \in 1 .. i : str[j] = Blank}
           digits == SubSeq(str, b + 1, Len(str))
<1>1. /\ d \in Seq(DigitChars) /\ k \in Nat /\ k >= 1
      /\ \A i \in 1 .. k : d[i] # Blank
  BY DecimalDigits, Zenon DEF Blank
<1> HIDE DEF d
<1>2. /\ Len(str) = b + k /\ DOMAIN str = 1 .. b + k
      /\ \A i \in 1 .. b : str[i] = Blank
  BY DEF IsPadded, d
<1>3. \A i \in 1 .. k : str[b + i] = d[i]
  BY DEF IsPadded, d
<1>4. blanks = 1 .. b
  <2> HIDE DEF k
  <2>1. ASSUME NEW i \in 1 .. b
        PROVE  i \in blanks
    <3>1. i \in 1 .. b + k /\ \A j \in 1 .. i : j \in 1 .. b
      BY <1>1
    <3> QED
      BY <1>2, <3>1
  <2>2. ASSUME NEW i \in blanks
        PROVE  i \in 1 .. b
    <3>1. i \in 1 .. b + k /\ \A j \in 1 .. i : str[j] = Blank
      BY <1>2
    <3>2. str[b + 1] # Blank
      <4>1. 1 \in 1 .. k
        BY <1>1
      <4> QED
        BY <1>1, <1>3, <4>1, Zenon
    <3>3. ~(i > b)
      <4>1. i > b => b + 1 \in 1 .. i
        BY <3>1
      <4> QED
        BY <3>1, <3>2, <4>1, Zenon
    <3> QED
      BY <1>1, <3>1, <3>3
  <2> HIDE DEF blanks
  <2> QED
    BY <2>1, <2>2
<1>5. Cardinality(blanks) = b
  <2>1. Cardinality(1 .. b) = IF 1 > b THEN 0 ELSE b - 1 + 1
    BY FS_Interval
  <2> HIDE DEF blanks
  <2> QED
    BY <1>4, <2>1
<1>6. digits = d
  <2> HIDE DEF k
  <2>1. b + 1 \in 1 .. Len(str) + 1 /\ Len(str) \in (b + 1) - 1 .. Len(str)
        /\ Len(str) - (b + 1) + 1 = k
    BY <1>1, <1>2
  <2>2. /\ digits \in Seq(LineChars) /\ Len(digits) = k
        /\ \A i \in 1 .. k : digits[i] = str[(b + 1) + i - 1]
    BY <2>1, SubSeqFact
  <2> HIDE DEF digits
  <2>3. \A i \in 1 .. k : (b + 1) + i - 1 = b + i
    BY <1>1
  <2>4. \A i \in 1 .. k : digits[i] = d[i]
    BY <1>3, <2>2, <2>3
  <2>5. Len(d) = k
    BY DEF k
  <2> QED
    BY <1>1, <2>2, <2>4, <2>5, SeqEqual
<1>7. Range(d) \subseteq Range(Digits)
  <2>1. \A i \in DOMAIN d : d[i] \in DigitChars
    BY <1>1
  <2> QED
    BY <2>1, Zenon DEF Range, DigitChars
<1>8. ValueOf(d)[k] = n
  BY DecimalValue DEF d
<1>9. str_to_uint64(str) =
        LET t == SubSeq(str, Cardinality(blanks) + 1, Len(str))
        IN  IF Range(t) \subseteq Range(Digits) THEN ValueOf(t)[Len(t)] ELSE 0
  BY Zenon DEF str_to_uint64, Blank
<1> HIDE DEF blanks
<1> QED
  BY <1>5, <1>6, <1>7, <1>8, <1>9, Zenon

\* A line that begins with a number leads back to it, whatever follows.
LEMMA ReadsBack ==
  ASSUME NEW total \in Nat, NEW n \in 0 .. total,
         Fits(total), NEW rest \in Seq(LineChars)
  PROVE  /\ ChosenNumber(Numbered(n, total) \o rest) = n
         /\ (Numbered(n, total) \o rest)[get_padding_length[total] + 2] = "]"
<1> DEFINE p == get_padding_length[total]
           d == Decimal[n]
           k == Len(d)
           out == Numbered(n, total) \o rest
           m == Shorter(Len(out), MaxStrlen + 1)
           str == SubSeq(out, 2, m)
           t == SubSeq(str, 1, p)
<1>1. /\ p \in Nat /\ k \in 1 .. p /\ p <= MaxStrlen /\ MaxStrlen \in Nat
      /\ n \in Nat
  <2>1. p \in Nat /\ k \in 1 .. p
    BY NumberedFact, Zenon
  <2>2. p <= MaxStrlen /\ n \in Nat
    BY DEF Fits
  <2> QED
    BY <2>1, <2>2, SizeAssumption
<1>2. /\ out \in Seq(LineChars) /\ Len(out) \in Nat /\ Len(out) >= p + 3
      /\ \A i \in 1 .. p - k : out[1 + i] = Blank
      /\ \A i \in 1 .. k : out[1 + (p - k) + i] = d[i]
      /\ out[p + 2] = Closing
  <2> DEFINE line == Numbered(n, total)
  <2>1. /\ line \in Seq(LineChars) /\ Len(line) = p + 3
        /\ \A i \in 1 .. p - k : line[1 + i] = Blank
        /\ \A i \in 1 .. k : line[1 + (p - k) + i] = d[i]
        /\ line[p + 2] = Closing
    BY NumberedFact, Zenon DEF Blank, Closing
  <2> HIDE DEF line, p, d, k
  <2>2. out = line \o rest
    BY DEF line
  <2>3. /\ Len(line \o rest) = Len(line) + Len(rest)
        /\ \A i \in 1 .. Len(line) : (line \o rest)[i] = line[i]
        /\ line \o rest \in Seq(LineChars)
    <3>1. line \in Seq(LineChars)
      BY <2>1
    <3> QED
      BY <3>1, CatFact, CatSeq
  <2> HIDE DEF out
  <2>4. Len(rest) \in Nat
    OBVIOUS
  <2>5. Len(out) = p + 3 + Len(rest)
    BY <2>1, <2>2, <2>3, Zenon
  <2>6. Len(out) \in Nat /\ Len(out) >= p + 3
    BY <1>1, <2>4, <2>5
  <2>7. /\ \A i \in 1 .. p - k : 1 + i \in 1 .. p + 3
        /\ \A i \in 1 .. k : 1 + (p - k) + i \in 1 .. p + 3
        /\ p + 2 \in 1 .. p + 3
    BY <1>1
  <2> QED
    BY <2>1, <2>2, <2>3, <2>6, <2>7, Zenon
<1> HIDE DEF p, d, out
<1>3. m \in Nat /\ m >= p + 1 /\ m <= Len(out)
  BY <1>1, <1>2 DEF Shorter
<1> HIDE DEF m
<1>4. /\ str \in Seq(LineChars) /\ Len(str) = m - 1
      /\ \A i \in 1 .. m - 1 : str[i] = out[1 + i]
  <2> HIDE DEF k
  <2>1. 2 \in 1 .. Len(out) + 1 /\ m \in 2 - 1 .. Len(out)
        /\ m - 2 + 1 = m - 1
    BY <1>1, <1>2, <1>3
  <2>2. /\ str \in Seq(LineChars) /\ Len(str) = m - 1
        /\ \A i \in 1 .. m - 1 : str[i] = out[2 + i - 1]
    BY <1>2, <2>1, SubSeqFact
  <2> HIDE DEF str
  <2>3. \A i \in 1 .. m - 1 : 2 + i - 1 = 1 + i
    BY <1>3
  <2> QED
    BY <2>2, <2>3
<1> HIDE DEF str
<1>5. /\ \A i \in 1 .. p - k : str[i] = Blank
      /\ \A i \in 1 .. k : str[(p - k) + i] = d[i]
      /\ m - 1 > p => str[p + 1] = Closing
  <2> HIDE DEF k
  <2>1. ASSUME NEW i \in 1 .. p - k
        PROVE  str[i] = Blank
    <3>1. i \in 1 .. m - 1
      BY <1>1, <1>3
    <3> QED
      BY <1>2, <1>4, <3>1, Zenon
  <2>2. ASSUME NEW i \in 1 .. k
        PROVE  str[(p - k) + i] = d[i]
    <3>1. /\ (p - k) + i \in 1 .. m - 1
          /\ 1 + ((p - k) + i) = 1 + (p - k) + i
      BY <1>1, <1>3
    <3> QED
      BY <1>2, <1>4, <3>1
  <2>3. ASSUME m - 1 > p
        PROVE  str[p + 1] = Closing
    <3>1. p + 1 \in 1 .. m - 1 /\ 1 + (p + 1) = p + 2
      BY <1>1, <1>3, <2>3
    <3> QED
      BY <1>2, <1>4, <3>1
  <2> QED
    BY <2>1, <2>2, <2>3
<1>6. \A i \in 1 .. p : str[i] # Closing
  <2> TAKE i \in 1 .. p
  <2>1. \A j \in 1 .. k : d[j] # Closing
    BY <1>1, DecimalDigits, Zenon DEF d, Closing
  <2> HIDE DEF k
  <2>2. CASE i <= p - k
    <3>1. i \in 1 .. p - k
      BY <1>1, <2>2
    <3>2. str[i] = Blank
      BY <1>5, <3>1
    <3> QED
      BY <3>2, Zenon DEF Blank, Closing
  <2>3. CASE ~(i <= p - k)
    <3>1. i - (p - k) \in 1 .. k /\ (p - k) + (i - (p - k)) = i
      BY <1>1, <2>3
    <3>2. str[i] = d[i - (p - k)]
      BY <1>5, <3>1
    <3> QED
      BY <2>1, <3>1, <3>2
  <2> QED
    BY <2>2, <2>3
<1>7. Bracket(str) = p + 1
  <2> HIDE DEF k
  <2> DEFINE Found(i) == /\ i = Len(str) + 1 \/ str[i] = Closing
                         /\ \A j \in 1 .. i - 1 : str[j] # Closing
  <2>1. Len(str) \in Nat /\ p + 1 \in 1 .. Len(str) + 1
    BY <1>1, <1>3, <1>4
  <2>2. p + 1 = Len(str) + 1 \/ str[p + 1] = Closing
    BY <1>1, <1>3, <1>4, <1>5
  <2>3. (p + 1) - 1 = p
    BY <1>1
  <2>4. Found(p + 1)
    BY <1>6, <2>2, <2>3
  <2>5. ASSUME NEW i \in 1 .. Len(str) + 1, Found(i)
        PROVE  i = p + 1
    <3>1. ~(i < p + 1)
      <4>1. SUFFICES ASSUME i < p + 1
                     PROVE  FALSE
        OBVIOUS
      <4>2. i \in 1 .. p /\ i # Len(str) + 1
        BY <1>1, <2>1, <4>1
      <4> QED
        BY <1>6, <2>5, <4>2
    <3>2. ~(p + 1 < i)
      <4>1. SUFFICES ASSUME p + 1 < i
                     PROVE  FALSE
        OBVIOUS
      <4>2. p + 1 \in 1 .. i - 1 /\ p + 1 # Len(str) + 1
        BY <1>1, <2>1, <4>1
      <4> QED
        BY <2>2, <2>5, <4>2
    <3> QED
      BY <1>1, <2>1, <3>1, <3>2
  <2>6. Bracket(str) = CHOOSE i \in 1 .. Len(str) + 1 : Found(i)
    BY Zenon DEF Bracket, Closing
  <2> HIDE DEF Found
  <2> QED
    BY <2>1, <2>4, <2>5, <2>6, Zenon
<1>8. t \in Seq(LineChars) /\ Len(t) = p /\ \A i \in 1 .. p : t[i] = str[i]
  <2> HIDE DEF k
  <2>1. 1 \in 1 .. Len(str) + 1 /\ p \in 1 - 1 .. Len(str) /\ p - 1 + 1 = p
    BY <1>1, <1>3, <1>4
  <2>2. /\ t \in Seq(LineChars) /\ Len(t) = p
        /\ \A i \in 1 .. p : t[i] = str[1 + i - 1]
    BY <1>4, <2>1, SubSeqFact
  <2> HIDE DEF t
  <2>3. \A i \in 1 .. p : 1 + i - 1 = i
    BY <1>1
  <2> QED
    BY <2>2, <2>3
<1>9. ChosenNumber(out) = str_to_uint64(t)
  <2>1. ChosenNumber(out) = str_to_uint64(SubSeq(str, 1, Bracket(str) - 1))
    BY DEF ChosenNumber, str, m
  <2>2. Bracket(str) - 1 = p
    BY <1>1, <1>7
  <2> QED
    BY <2>1, <2>2, Zenon
<1> HIDE DEF t
<1>10. str_to_uint64(t) = n
  <2>1. /\ p - k \in Nat /\ Len(t) = (p - k) + k
        /\ \A i \in 1 .. p - k : i \in 1 .. p
        /\ \A i \in 1 .. k : (p - k) + i \in 1 .. p
    <3> HIDE DEF k
    <3> QED
      BY <1>1, <1>8
  <2>2. /\ \A i \in 1 .. p - k : t[i] = Blank
        /\ \A i \in 1 .. k : t[(p - k) + i] = d[i]
    BY <1>5, <1>8, <2>1, Zenon
  <2> QED
    BY <1>1, <1>8, <2>1, <2>2, ReadNumber DEF d, IsPadded
<1> QED
  BY <1>2, <1>9, <1>10, Zenon DEF p, out, Closing

LEMMA EllipsisedChars ==
  ASSUME NEW line \in Seq(Chars)
  PROVE  Ellipsised(line) \in Seq(LineChars)
<1>1. Chars \subseteq LineChars
  BY Zenon DEF LineChars
<1>2. line \in Seq(LineChars)
  BY <1>1, WiderSeq
<1>3. CASE Len(line) = LineSize - 1
  <2> DEFINE m == LineSize - 4
             cut == SubSeq(line, 1, m)
             dots == <<Dot, Dot, Dot>>
  <2>1. m \in Nat /\ m >= 1 /\ m <= Len(line)
    BY <1>3, SizeAssumption
  <2>2. cut \in Seq(LineChars)
    <3> HIDE DEF m
    <3>1. 1 \in 1 .. Len(line) + 1 /\ m \in 1 - 1 .. Len(line)
      BY <2>1
    <3> QED
      BY <1>2, <3>1, SubSeqFact
  <2>3. Dot \in LineChars
    BY Zenon DEF LineChars, Dot
  <2>4. dots \in Seq(LineChars)
    BY <2>3
  <2>5. Ellipsised(line) = cut \o dots
    BY <1>3, Zenon DEF Ellipsised, Dot
  <2> HIDE DEF cut, dots
  <2>6. cut \o dots \in Seq(LineChars)
    BY <2>2, <2>4, CatSeq
  <2> QED
    BY <2>5, <2>6
<1>4. CASE Len(line) # LineSize - 1
  BY <1>2, <1>4, Zenon DEF Ellipsised
<1> QED
  BY <1>3, <1>4

LEMMA FirstLineType ==
  ASSUME NEW str \in Seq(Chars)
  PROVE  /\ first_line(str).line \in Seq(Chars)
         /\ first_line(str).nr_lines \in Nat
<1> DEFINE s == LinesSeen(str)[Len(str)]
<1>1. s \in SeenState
  BY SeenIsLoop
<1>2. s.nr \in Nat /\ s.out \in Seq(Chars)
  BY <1>1 DEF SeenState
<1> QED
  BY <1>2 DEF first_line

\* What clipmenu writes for a clip begins with its number.
LEMMA ListedFact ==
  ASSUME NEW str \in Seq(Chars), NEW total \in Nat, NEW n \in 0 .. total
  PROVE  \E rest \in Seq(LineChars) :
           Listed(n, total, str) = Numbered(n, total) \o rest
<1> DEFINE snip == first_line(str)
           head == Numbered(n, total)
           line == Ellipsised(snip.line)
           nr == Decimal[snip.nr_lines]
           tail == IF snip.nr_lines > 1
                   THEN <<" ", "(">> \o nr \o <<" lines)">> ELSE <<>>
<1>1. snip.line \in Seq(Chars) /\ snip.nr_lines \in Nat
  BY FirstLineType
<1>2. line \in Seq(LineChars)
  BY <1>1, EllipsisedChars
<1>3. head \in Seq(LineChars)
  BY NumberedFact, Zenon
<1>4. tail \in Seq(LineChars)
  <2> DEFINE open == <<Blank, Opening>>
             close == <<ManyLines>>
  <2>1. /\ Blank \in LineChars /\ Opening \in LineChars
        /\ ManyLines \in LineChars /\ DigitChars \subseteq LineChars
    BY Zenon DEF LineChars, Blank, Opening, ManyLines
  <2>2. open \in Seq(LineChars) /\ close \in Seq(LineChars)
        /\ <<>> \in Seq(LineChars)
    BY <2>1
  <2>3. nr \in Seq(LineChars)
    <3>1. nr \in Seq(DigitChars)
      BY <1>1, DecimalFact
    <3> QED
      BY <2>1, <3>1, WiderSeq
  <2>4. tail = IF snip.nr_lines > 1 THEN open \o nr \o close ELSE <<>>
    BY Zenon DEF Blank, Opening, ManyLines
  <2> HIDE DEF open, close, nr, tail, snip
  <2>5. open \o nr \in Seq(LineChars)
    BY <2>2, <2>3, CatSeq
  <2>6. open \o nr \o close \in Seq(LineChars)
    BY <2>2, <2>5, CatSeq
  <2> QED
    BY <2>2, <2>4, <2>6
<1>5. Listed(n, total, str) = head \o line \o tail
  BY Zenon DEF Listed
<1> HIDE DEF head, line, tail
<1>6. line \o tail \in Seq(LineChars)
  BY <1>2, <1>4, CatSeq
<1>7. head \o line \o tail = head \o (line \o tail)
  BY <1>2, <1>3, <1>4, ConcatAssociative
<1> QED
  BY <1>5, <1>6, <1>7, Zenon DEF head

\* Every line that can be written leads back, whatever is in the text.
LEMMA LineLeadsBack ==
  ASSUME NEW str \in Seq(Chars), NEW total \in Nat, NEW n \in 0 .. total,
         Fits(total)
  PROVE  LeadsBack(n, total, str)
<1>1. PICK rest \in Seq(LineChars) :
        Listed(n, total, str) = Numbered(n, total) \o rest
  BY ListedFact, Zenon
<1>2. /\ ChosenNumber(Numbered(n, total) \o rest) = n
      /\ (Numbered(n, total) \o rest)[get_padding_length[total] + 2] = "]"
  BY ReadsBack, Zenon
<1> QED
  BY <1>1, <1>2, Zenon DEF LeadsBack

\* For all numbers that are not too long, and not only those of the runs.
AllNumbersReadBack ==
  \A k \in DOMAIN kept :
    \A total \in 0 .. LargestOf[MaxStrlen] : \A n \in 0 .. total :
      LeadsBack(n, total, kept[k])

(***************************************************************************)
(* The number is read back from every line that clipmenu writes, with as   *)
(* many clips as there are numbers for, whatever there is in their texts.  *)
(***************************************************************************)
THEOREM NumbersReadBack ==
  TextSpec => [](NumberReadBack /\ AllNumbersReadBack)
<1> DEFINE most == LargestOf[MaxStrlen]
<1>1. MaxStrlen \in Nat /\ MaxStrlen >= 2
  BY SizeAssumption
<1>2. most \in Nat /\ most >= 99
  <2> DEFINE k == MaxStrlen - 2
  <2>1. k \in Nat /\ k + 1 \in Nat /\ (k + 1) + 1 = MaxStrlen
    BY <1>1
  <2> HIDE DEF k
  <2>2. /\ LargestOf[k] \in Nat
        /\ LargestOf[k + 1] = 10 * LargestOf[k] + 9
        /\ LargestOf[(k + 1) + 1] = 10 * LargestOf[k + 1] + 9
    BY <2>1, LargestFact
  <2> QED
    BY <2>1, <2>2
<1> HIDE DEF most
<1>3. \A total \in 0 .. most : Fits(total)
  <2>1. MaxStrlen - 1 \in Nat /\ (MaxStrlen - 1) + 1 = MaxStrlen
    BY <1>1
  <2>2. \A total \in 0 .. most : total \in Nat /\ total <= most
    BY <1>2
  <2> QED
    BY <2>1, <2>2, LargestLength DEF Fits, most
<1>4. DragInv => AllNumbersReadBack
  <2> SUFFICES ASSUME DragInv, NEW k \in DOMAIN kept,
                      NEW total \in 0 .. most, NEW n \in 0 .. total
               PROVE  LeadsBack(n, total, kept[k])
    BY Zenon DEF AllNumbersReadBack, most
  <2>1. kept[k] \in Seq(Chars)
    BY DEF DragInv, TextTypeOK
  <2>2. total \in Nat /\ Fits(total)
    BY <1>2, <1>3
  <2> QED
    BY <2>1, <2>2, LineLeadsBack
<1>5. AllNumbersReadBack => NumberReadBack
  <2> SUFFICES ASSUME AllNumbersReadBack, NEW k \in DOMAIN kept,
                      NEW n \in {1, 9, 10, most},
                      NEW total \in {1, 9, 10, most}, n <= total
               PROVE  LeadsBack(n, total, kept[k])
    BY Zenon DEF NumberReadBack, most
  <2>1. total \in 0 .. most /\ n \in 0 .. total
    BY <1>2
  <2> QED
    BY <2>1, Zenon DEF AllNumbersReadBack, most
<1> QED
  BY <1>4, <1>5, KeptAreSalient, PTL

-----------------------------------------------------------------------------
(***************************************************************************)
(* The variables of the subject satisfy its invariant, and those of the    *)
(* other module never change.                                              *)
(***************************************************************************)
OfSubject ==
  \/ subject = "config" /\ ConfigInv /\ MCTextUnused
  \/ subject = "text" /\ DragInv /\ MCConfigUnused

LEMMA UnusedTypes ==
  /\ <<>> \in Documents /\ MCTextUnused => TextTypeOK
  /\ MCConfigUnused => ConfigTypeOK
<1>1. 1 \in EntryIds
  BY EntriesFact DEF EntryIds
<1>2. <<>> \in Documents /\ MCTextUnused => TextTypeOK
  BY DEF MCTextUnused, TextTypeOK
<1>3. MCConfigUnused => ConfigTypeOK
  BY <1>1 DEF MCConfigUnused, ConfigTypeOK, Phases, Ended
<1> QED
  BY <1>2, <1>3

LEMMA OfSubjectStep == OfSubject /\ [MCNext]_<<configVars, textVars, subject>>
                         => OfSubject'
<1> SUFFICES ASSUME OfSubject, [MCNext]_<<configVars, textVars, subject>>
             PROVE  OfSubject'
  OBVIOUS
<1>1. CASE subject = "config"
  <2>1. /\ subject' = "config" /\ UNCHANGED textVars
        /\ [ConfigNext]_configVars
    BY <1>1 DEF MCNext
  <2>2. ConfigInv' /\ MCTextUnused'
    BY <1>1, <2>1, ConfigInvStep DEF OfSubject, MCTextUnused, textVars
  <2> QED
    BY <2>1, <2>2 DEF OfSubject
<1>2. CASE subject = "text"
  <2>1. /\ subject' = "text" /\ UNCHANGED configVars
        /\ [TextNext]_textVars
    BY <1>2 DEF MCNext
  <2>2. DragInv' /\ MCConfigUnused'
    BY <1>2, <2>1, DragInvStep
       DEF OfSubject, MCConfigUnused, configVars, inputVars
  <2> QED
    BY <2>1, <2>2 DEF OfSubject
<1> QED
  BY <1>1, <1>2 DEF OfSubject

(***************************************************************************)
(* Every variable keeps its type in a behaviour about either.  (The text   *)
(* of a behaviour about the configuration is the empty document.)          *)
(***************************************************************************)
THEOREM InputsTypeOK ==
  ASSUME <<>> \in Documents
  PROVE  MCSpec => []TypeOK
<1>1. MCInit => OfSubject
  BY InitInv, DragInit DEF MCInit, OfSubject
<1>2. OfSubject => TypeOK
  BY UnusedTypes
     DEF OfSubject, TypeOK, ConfigInv, Typed, Opened, Early, ConfigTypeOK,
         DragInv
<1> QED
  BY <1>1, <1>2, OfSubjectStep, PTL DEF MCSpec
=============================================================================
