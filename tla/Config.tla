------------------------------- MODULE Config -------------------------------
(***************************************************************************)
(* How every program of clipmenu gets its configuration (src/config.c):    *)
(* from environment variables, from the lines of one file, and from        *)
(* defaults, in this order, or it refuses to start.                        *)
(*                                                                         *)
(* A string is the sequence of its words, between which there is a space;  *)
(* Null is a NULL pointer, and an environment variable that is not set.    *)
(***************************************************************************)
EXTENDS Integers, Sequences

CONSTANTS
  Strings,     \* what may be a value
  Inputs,      \* the environments, with the files their paths lead to
  Null,        \* NULL
  Invalid,     \* a conversion that fails
  Missing,     \* no file
  Unreadable,  \* a file that cannot be opened
  IntMax,      \* INT_MAX
  NumberOf(_), \* the number that strtol() makes of all of a string, or Null
  Lower(_),    \* a string in lower case
  IsRegex(_)   \* regcomp() accepts it

VARIABLES
  env,     \* the environment
  files,   \* what there is at the path that each variable leads to
  phase,   \* what config_setup() is doing, or how it ended
  at,      \* the entry it is at
  read,    \* how many lines it has read
  isSet,   \* entries[i].is_set
  cfg      \* the values

inputVars == <<env, files>>
configVars == <<inputVars, phase, at, read, isSet, cfg>>

-----------------------------------------------------------------------------
(***************************************************************************)
(* Conversions, of which each has a value or is Invalid.                   *)
(***************************************************************************)
SelectionNames == {"clipboard", "primary", "secondary"}

Truthy == {<<"1">>, <<"y">>, <<"yes">>, <<"true">>, <<"on">>}
Falsy  == {<<"0">>, <<"n">>, <<"no">>, <<"false">>, <<"off">>}

convert_bool(str) ==
  IF Lower(str) \in Truthy THEN TRUE
  ELSE IF Lower(str) \in Falsy THEN FALSE ELSE Invalid

convert_positive_int(str) ==
  IF NumberOf(str) # Null /\ NumberOf(str) \in 0 .. IntMax
  THEN NumberOf(str) ELSE Invalid

\* The selections that are active.
convert_selections(str) ==
  LET words == {str[i] : i \in DOMAIN str}
  IN  IF words \subseteq SelectionNames THEN words ELSE Invalid

convert_ignore_window(str) ==
  IF str = Null \/ IsRegex(str) THEN str ELSE Invalid

convert_launcher(str) ==
  [ltype |-> IF str = <<"rofi">> THEN "rofi" ELSE "custom", custom |-> str]

get_runtime_directory(e) ==
  IF e["XDG_RUNTIME_DIR"] # Null THEN e["XDG_RUNTIME_DIR"]
  ELSE IF e["TMPDIR"] # Null THEN e["TMPDIR"] ELSE <<"/tmp">>

convert_cm_dir(e, str) == IF str = Null THEN get_runtime_directory(e) ELSE str

Entry(key, var, type, default) ==
  [key |-> key, var |-> var, type |-> type, default |-> default]

Entries ==
  << Entry("max_clips", "CM_MAX_CLIPS", "int", <<"1000">>),
     Entry("max_clips_batch", "CM_MAX_CLIPS_BATCH", "int", <<"100">>),
     Entry("oneshot", "CM_ONESHOT", "int", <<"0">>),
     Entry("own_clipboard", "CM_OWN_CLIPBOARD", "bool", <<"0">>),
     Entry("selections", "CM_SELECTIONS", "selections",
           <<"clipboard", "primary">>),
     Entry("own_selections", "CM_OWN_SELECTIONS", "selections",
           <<"clipboard">>),
     Entry("ignore_window", "CM_IGNORE_WINDOW", "regex", Null),
     Entry("launcher", "CM_LAUNCHER", "launcher", <<"dmenu">>),
     Entry("launcher_pass_dmenu_args", "CM_LAUNCHER_PASS_DMENU_ARGS",
           "bool", <<"1">>),
     Entry("cm_dir", "CM_DIR", "dir", Null) >>

EntryIds == 1 .. 10

Convert(e, i, str) ==
  CASE Entries[i].type = "int"        -> convert_positive_int(str)
    [] Entries[i].type = "bool"       -> convert_bool(str)
    [] Entries[i].type = "selections" -> convert_selections(str)
    [] Entries[i].type = "regex"      -> convert_ignore_window(str)
    [] Entries[i].type = "launcher"   -> convert_launcher(str)
    [] Entries[i].type = "dir"        -> convert_cm_dir(e, str)

-----------------------------------------------------------------------------
(***************************************************************************)
(* config_setup()                                                          *)
(***************************************************************************)
\* The variables that lead to the file, the one that counts first.
PathVars == <<"CM_CONFIG", "XDG_CONFIG_HOME", "HOME">>

\* What is read of a file is lines, each with a key and a value.
ASSUME InputAssumption ==
  \A input \in Inputs : \A k \in 1 .. 3 :
    input.files[PathVars[k]] \in
      {Missing, Unreadable}
        \union Seq([key : STRING, value : Strings \union {Null}])

Ended == {"ready", "invalid", "no path", "aborted"}
Phases == {"path", "env", "file", "default"} \union Ended

ConfigInit ==
  /\ \E input \in Inputs : env = input.env /\ files = input.files
  /\ phase = "path" /\ at = 1 /\ read = 0
  /\ isSet = [i \in EntryIds |-> FALSE]
  /\ cfg = [i \in EntryIds |-> Null]

\* get_config_file(): the file is found by the first that is set.
FirstSet(k) == /\ env[PathVars[k]] # Null
               /\ \A l \in 1 .. k - 1 : env[PathVars[l]] = Null

NoPath == \A k \in 1 .. 3 : env[PathVars[k]] = Null

\* What fopen() and fgets() make of it: its lines, none if it is missing.  (A
\* line of 256 characters or more comes as two or more.)
FileAt(k) == LET f == files[PathVars[k]] IN IF f = Missing THEN <<>> ELSE f

Lines == FileAt(CHOOSE k \in 1 .. 3 : FirstSet(k))

OpenFile ==
  /\ phase = "path"
  /\ \/ NoPath /\ phase' = "no path"
     \/ \E k \in 1 .. 3 :
          /\ FirstSet(k)
          /\ phase' = IF files[PathVars[k]] = Unreadable THEN "aborted" ELSE "env"
  /\ UNCHANGED <<inputVars, at, read, isSet, cfg>>

\* entries[i].convert(), for a value that is there.
Assign(i, str) ==
  LET v == Convert(env, i, str)
  IN  /\ v # Invalid
      /\ cfg' = [cfg EXCEPT ![i] = v]
      /\ isSet' = [isSet EXCEPT ![i] = TRUE]

Refuse(i, str) ==
  /\ Convert(env, i, str) = Invalid
  /\ phase' = "invalid"
  /\ UNCHANGED <<at, isSet, cfg>>

\* A loop that does not begin anew in the next phase.
AdvanceOnly(next) == /\ at' = at + 1
                     /\ phase' = IF at = Len(Entries) THEN next ELSE phase

\* The loop over the entries, at the end of which comes the next phase.
Advance(next) == /\ at' = IF at = Len(Entries) THEN 1 ELSE at + 1
                 /\ phase' = IF at = Len(Entries) THEN next ELSE phase

config_parse_env_vars ==
  /\ phase = "env"
  /\ LET str == env[Entries[at].var]
     IN  \/ str = Null /\ Advance("file") /\ UNCHANGED <<isSet, cfg>>
         \/ str # Null /\ Assign(at, str) /\ Advance("file")
         \/ str # Null /\ Refuse(at, str)
  /\ UNCHANGED <<inputVars, read>>

\* A line that sets what has been set before.
WantsAlways(line, i) == line.value # Null /\ line.key = Entries[i].key

\* The entry that a line is for.
Wants(line, i) == line.value # Null /\ line.key = Entries[i].key /\ ~isSet[i]

config_parse_file ==
  /\ phase = "file" /\ read < Len(Lines)
  /\ read' = read + 1
  /\ LET line == Lines[read + 1]
     IN  \/ /\ ~\E i \in EntryIds : Wants(line, i)
            /\ UNCHANGED <<phase, at, isSet, cfg>>
         \/ \E i \in EntryIds :
              /\ Wants(line, i)
              /\ \/ Assign(i, line.value) /\ UNCHANGED <<phase, at>>
                 \/ Refuse(i, line.value)
  /\ UNCHANGED inputVars

EndOfFile ==
  /\ phase = "file" /\ read = Len(Lines)
  /\ phase' = "default"
  /\ UNCHANGED <<inputVars, at, read, isSet, cfg>>

\* (is_set is not looked at again, and is left alone.)
config_apply_default_values ==
  /\ phase = "default"
  /\ LET v == Convert(env, at, Entries[at].default)
     IN  \/ isSet[at] /\ Advance("ready") /\ UNCHANGED cfg
         \/ /\ ~isSet[at] /\ v # Invalid
            /\ cfg' = [cfg EXCEPT ![at] = v]
            /\ Advance("ready")
         \/ ~isSet[at] /\ v = Invalid /\ phase' = "invalid"
              /\ UNCHANGED <<at, cfg>>
  /\ UNCHANGED <<inputVars, read, isSet>>

ConfigNext == \/ OpenFile \/ config_parse_env_vars \/ config_parse_file
              \/ EndOfFile \/ config_apply_default_values

ConfigSpec == ConfigInit /\ [][ConfigNext]_configVars

-----------------------------------------------------------------------------
\* Where the value of an entry is to come from: its variable, else the first
\* line of the file that has its key and a value, else its default.
LinesFor(i) == {l \in DOMAIN Lines : /\ Lines[l].value # Null
                                     /\ Lines[l].key = Entries[i].key}

FirstLineFor(i) ==
  CHOOSE l \in LinesFor(i) : \A m \in LinesFor(i) : l <= m

Source(i) ==
  IF env[Entries[i].var] # Null THEN env[Entries[i].var]
  ELSE IF LinesFor(i) # {} THEN Lines[FirstLineFor(i)].value
  ELSE Entries[i].default

Configured(i) == Convert(env, i, Source(i))

ConfigTypeOK ==
  /\ phase \in Phases /\ at \in EntryIds
  /\ isSet \in [EntryIds -> BOOLEAN]
  /\ DOMAIN cfg = EntryIds
  /\ phase \notin {"path", "no path", "aborted"} => read \in 0 .. Len(Lines)

(***************************************************************************)
(* config_setup() goes over the variables, then over the lines, then over  *)
(* the defaults, and keeps a flag for each entry.  A program that starts   *)
(* has for each entry the value of its source, and one that refuses does   *)
(* so over a source that is invalid: neither a later line for the same key *)
(* nor a line for what the environment has set counts, valid or not.       *)
(***************************************************************************)
Resolved ==
  /\ phase = "ready" => \A i \in EntryIds : /\ cfg[i] = Configured(i)
                                            /\ Configured(i) # Invalid
  /\ phase = "invalid" => \E i \in EntryIds : Configured(i) = Invalid
=============================================================================
