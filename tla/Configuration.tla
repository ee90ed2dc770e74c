---------------------------- MODULE Configuration ----------------------------
(***************************************************************************)
(* The configuration of a process (packages/envs/src): the environment, the *)
(* .env file and the overrides of a service merged by priority; a variable   *)
(* parsed and validated as its schema declares it; and the one ConfigProxy   *)
(* of the process, which the first application with a schema makes, and      *)
(* which its constructor and every start() load.  getConfig() keeps one of    *)
(* its own.  A schema has one variable here; another is parsed likewise.     *)
(*                                                                          *)
(* A word is what a source gives for the variable; a value is a pair of its  *)
(* type and what the word denotes.                                          *)
(***************************************************************************)
EXTENDS Naturals, Sequences, FiniteSets

CONSTANTS Plans,     \* the schema and options of each application, made one after the other
          NumberOf,  \* the words that are numerals, and the number each denotes
          ItemsOf,   \* the items of each word that is an array
          Words,     \* what the environment may give for the variable
          Files,     \* what the .env file may contain: words, line by line
          MaxEdits   \* bound: edits of the file

ASSUME PlansAssumption == \A p \in Plans : DOMAIN p = 1..Len(p) /\ Len(p) \in Nat
ASSUME MaxEditsAssumption == MaxEdits \in Nat

VARIABLES
  plan,      \* the schema and options of each application
  state,     \* how far each has come
  word,      \* of the environment, which stays as it is
  file,      \* the .env file: its lines for the variable, or that it cannot be read
  edits,
  owner,     \* whose schema and options the proxy was made from
  value,     \* of the proxy, once it is initialized
  loads,     \* the loads of the proxy under way, by who waits for them
  early      \* what getConfig() keeps for the first schema

given == <<plan, word>>
configurationVars == <<given, state, file, edits, owner, value, loads, early>>

Absent == "absent"
Unreadable == <<"unreadable">>
Failure == <<"failure">>
Nothing == <<"nothing">>
AppIds == DOMAIN plan

-----------------------------------------------------------------------------
(* EnvLoader: the later line of the file, and the source of the higher       *)
(* priority, win.                                                           *)

InFile(lines) == IF lines = <<>> THEN Absent ELSE lines[Len(lines)]

Or(first, second) == IF first # Absent THEN first ELSE second

Merge(options, env, lines) ==
  LET dotEnv == IF options.loadDotEnv THEN InFile(lines) ELSE Absent
  IN Or(options.override, IF options.envOverridesDotEnv THEN Or(env, dotEnv) ELSE Or(dotEnv, env))

-----------------------------------------------------------------------------
(* EnvParser.                                                               *)

TrueWords == {"true", "1", "yes", "on"}
FalseWords == {"false", "0", "no", "off"}

ParseByType(type, w) ==
  CASE type = "string" -> <<"string", w>>
    [] type = "number" -> IF w \in DOMAIN NumberOf THEN <<"number", NumberOf[w]>> ELSE Failure
    [] type = "boolean" -> IF w \in TrueWords THEN <<"boolean", TRUE>>
                           ELSE IF w \in FalseWords THEN <<"boolean", FALSE>> ELSE Failure
    [] type = "array" -> <<"array", ItemsOf[w]>>

\* Of an optional variable that nobody set.
DefaultForType(type) ==
  CASE type = "string" -> <<"string", "">>
    [] type = "number" -> <<"number", 0>>
    [] type = "boolean" -> <<"boolean", FALSE>>
    [] type = "array" -> <<"array", <<>>>>

\* min and max, minLength and maxLength, oneOf(): what the variable admits.
Size(v) == IF v[1] = "array" THEN Len(v[2]) ELSE v[2]
Admits(schema, v) ==
  CASE v[1] \in {"number", "array"} -> schema.min <= Size(v) /\ Size(v) <= schema.max
    [] v[1] = "string" -> schema.oneOf = {} \/ v[2] \in schema.oneOf
    [] OTHER -> TRUE

Parse(schema, w) ==
  LET v == IF w # Absent THEN ParseByType(schema.type, w)
           ELSE IF schema.default # Nothing THEN schema.default
           ELSE IF schema.required THEN Failure ELSE DefaultForType(schema.type)
  IN IF v = Failure \/ ~Admits(schema, v) THEN Failure ELSE v

\* What a load makes of the environment it began with and the file it has read.
\* Without loadDotEnv the file is not touched.
Loaded(s, env, lines) ==
  IF s.loadDotEnv /\ lines = Unreadable THEN Failure ELSE Parse(s.schema, Merge(s, env, lines))

-----------------------------------------------------------------------------
ConfigurationStart ==
  /\ edits = 0
  /\ state = [a \in AppIds |-> "planned"]
  /\ owner = 0 /\ value = Nothing /\ early = Nothing /\ loads = {}
ConfigurationInit == plan \in Plans /\ word \in Words /\ file \in Files /\ ConfigurationStart

Edit ==
  /\ edits < MaxEdits /\ edits' = edits + 1
  /\ file' \in Files \ {file}
  /\ UNCHANGED <<given, state, owner, value, loads, early>>

-----------------------------------------------------------------------------
(* TypedEnv and getConfig().                                                *)

\* A load, for a service that waits in start() or (0) for nobody.
Begun(a) == [for |-> a, lines |-> Nothing]

\* TypedEnv.create() with the key every application uses: the first makes the
\* proxy and begins to load it.
Construct(a) ==
  /\ state[a] = "planned" /\ a > 1 => state[a - 1] # "planned"
  /\ state' = [state EXCEPT ![a] = "constructed"]
  /\ IF owner = 0 THEN owner' = a /\ loads' = {Begun(0)} ELSE UNCHANGED <<owner, loads>>
  /\ UNCHANGED <<given, file, edits, value, early>>

\* start() loads the proxy unless it has been.
Start(a) ==
  /\ state[a] = "constructed"
  /\ IF value # Nothing
     THEN state' = [state EXCEPT ![a] = "started"] /\ UNCHANGED loads
     ELSE state' = [state EXCEPT ![a] = "loading"] /\ loads' = loads \cup {Begun(a)}
  /\ UNCHANGED <<given, file, edits, owner, value, early>>

ReadFile(l) ==
  /\ l.lines = Nothing
  /\ loads' = (loads \ {l}) \cup {[l EXCEPT !.lines = file]}
  /\ UNCHANGED <<given, state, file, edits, owner, value, early>>

\* Mutant: the options of the one that loads are taken.
LoadsWithOwn(l) == plan[IF l.for = 0 THEN owner ELSE l.for]

LoadsWith(l) == plan[owner]

\* The end of ensureInitialized() sets the values, also if another load has; what
\* create() began and did not wait for may reject unseen.
Finish(l) ==
  /\ l.lines # Nothing /\ loads' = loads \ {l}
  /\ LET v == Loaded(LoadsWith(l), word, l.lines)
     IN /\ value' = IF v = Failure THEN value ELSE v
        /\ state' = IF l.for = 0 THEN state
                    ELSE [state EXCEPT ![l.for] = IF v = Failure THEN "failed" ELSE "started"]
  /\ UNCHANGED <<given, file, edits, owner, early>>

\* loadSync(), and a proxy of its own, of the schema and options of the first.
GetConfig ==
  /\ early = Nothing
  /\ LET v == Loaded(plan[1], word, file)
     IN v # Failure /\ early' = v
  /\ UNCHANGED <<given, state, file, edits, owner, value, loads>>

ConfigurationNext ==
  \/ Edit \/ GetConfig
  \/ \E a \in AppIds : Construct(a) \/ Start(a)
  \/ \E l \in loads : ReadFile(l) \/ Finish(l)

ConfigurationSpec == ConfigurationInit /\ [][ConfigurationNext]_configurationVars

-----------------------------------------------------------------------------
\* Unless the file is edited, all that ever read the configuration read the same:
\* a load that ends late changes nothing under a service that has started, and
\* what getConfig() gave before is what the services get.
SameForAll ==
  [][edits = 0 => /\ value # Nothing => value' = value
                  /\ owner' = 1 /\ value' # Nothing /\ early' # Nothing => value' = early']_configurationVars
=============================================================================
