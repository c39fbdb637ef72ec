------------------------------ MODULE MCConfig ------------------------------
(***************************************************************************)
(* For each entry: its variable unset or with any value, and a file of up  *)
(* to two lines, for this entry, for another key, or without a value.  And *)
(* with default values: all that can become of the three paths.            *)
(***************************************************************************)
EXTENDS Config, SequencesExt

MCIntMax == 1000
MCNumbers == <<"-1">> :> -1 @@ <<"0">> :> 0 @@ <<"100">> :> 100
               @@ <<"1000">> :> 1000 @@ <<"1001">> :> 1001
MCNumberOf(str) == IF str \in DOMAIN MCNumbers THEN MCNumbers[str] ELSE Null
MCLower(str) == IF str = <<"YES">> THEN <<"yes">> ELSE str
MCIsRegex(str) == str # <<"(">>

MCValues ==
  [int |-> {<<"-1">>, <<"1000">>, <<"1001">>, <<"x">>},
   bool |-> {<<"0">>, <<"YES">>, <<"x">>},
   selections |-> {<<>>, <<"primary", "clipboard">>, <<"primary", "x">>},
   regex |-> {<<"x">>, <<"x", "y">>, <<"(">>},
   launcher |-> {<<"rofi">>, <<"x">>, <<"x", "y">>},
   dir |-> {<<"/x">>, <<"/y">>}]
MCStrings == UNION {MCValues[t] : t \in DOMAIN MCValues}
               \union {<<PathVars[k]>> : k \in 1 .. 3}

MCVars == {Entries[i].var : i \in EntryIds}
            \union {"XDG_RUNTIME_DIR", "TMPDIR"}
            \union {PathVars[k] : k \in 1 .. 3}

\* An environment of the variables in e.
MCEnv(e) == [v \in MCVars |-> IF v \in DOMAIN e THEN e[v] ELSE Null]

MCLine(key, str) == [key |-> key, value |-> str]

MCEntryInputs(i) ==
  LET values == MCValues[Entries[i].type]
      lines == {MCLine(Entries[i].key, str) : str \in values}
                 \union {MCLine(Entries[i].key, Null), MCLine("x", <<"x">>)}
  IN  {[env |-> MCEnv("HOME" :> <<"/home">> @@ Entries[i].var :> str),
        files |-> [v \in {"CM_CONFIG", "XDG_CONFIG_HOME"} |-> Missing]
                    @@ "HOME" :> f] :
         str \in values \union {Null}, f \in BoundedSeq(lines, 2)}

MCPathInputs ==
  LET dirs == {"XDG_RUNTIME_DIR", "TMPDIR"}
      vars == {PathVars[k] : k \in 1 .. 3}
      file(v) == {Missing, Unreadable, <<MCLine("launcher", <<v>>)>>}
  IN  {[env |-> MCEnv([v \in set |-> <<v>>]), files |-> f] :
         set \in SUBSET (dirs \union vars),
         f \in {g \in [vars -> UNION {file(v) : v \in vars}] :
                  \A v \in vars : g[v] \in file(v)}}

MCConfigInputs == MCPathInputs \union UNION {MCEntryInputs(i) : i \in EntryIds}
=============================================================================
