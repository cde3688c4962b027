-------------------------- MODULE BrokerEnvironment --------------------------
(***************************************************************************)
(* Where a broker's settings come from, and which object names follow from *)
(* them: the operator's exported variables, the .env file, the defaults,   *)
(* and what scripts/init-key-in-enclave.sh adds.  The settings followed    *)
(* here are S3_PREFIX and DECRYPT_SERVER_TEE_MODE.                         *)
(*                                                                         *)
(* A prefix or a name is a sequence of characters; "/" separates, and the  *)
(* character ".." stands for two dots.                                     *)
(***************************************************************************)
EXTENDS Naturals, SequencesExt

CONSTANTS
  Chars,      \* the characters, and the parts of names that are told apart
  Spellings,  \* values of S3_PREFIX that the operator may set
  Files,      \* contents of .env: sequences of lines [var, value]
  Default,    \* DEFAULT_S3_PREFIX, and the default of the script
  None        \* "not set"

VARIABLES
  shell,     \* the operator's exports: [prefix, mode], and app: APP_ENV_FILE is set
  file,      \* the .env file, or the one that APP_ENV_FILE names
  broker,    \* the running broker: [by, prefix, mode], or None
  manifest,  \* the last manifest: [key, same], same as long as nothing was configured since
  named      \* the object the script told the operator to verify, or None

vars == <<shell, file, broker, manifest, named>>

Modes  == {"init-key", "serve"}
Shells == [prefix : Spellings \cup {None}, mode : Modes \cup {None}, app : BOOLEAN]

Name == Seq(Chars)

ASSUME EnvironmentAssumption ==
  /\ Default # None /\ None \notin Modes
  /\ {"/", "manifest"} \subseteq Chars
  /\ Default \in Name /\ \A prefix \in Spellings : prefix \in Name
  /\ \A lines \in Files :
       /\ lines \in Seq(Range(lines))
       /\ \A line \in Range(lines) : line.var = "prefix" => line.value \in Name

(* dotenvy sets what is not set yet, line by line, up to a line it cannot  *)
(* read.                                                                   *)
FirstBad == IF \E i \in DOMAIN file : file[i].var = "bad"
              THEN Min({i \in DOMAIN file : file[i].var = "bad"}) ELSE Len(file) + 1

FromFile(var) ==
  LET lines == {i \in 1..(FirstBad - 1) : file[i].var = var}
  IN  IF lines = {} THEN None ELSE file[Min(lines)].value

(* Faulty variant: the file wins over what is exported.                    *)
OverridingVar(exported, var) == IF FromFile(var) # None THEN FromFile(var) ELSE exported[var]

(* env::var after load_environment.                                        *)
Var(exported, var) == IF exported[var] # None THEN exported[var] ELSE FromFile(var)

(* An unreadable file is an error only when APP_ENV_FILE names it.         *)
Loads == shell.app => FirstBad > Len(file)

(* Slashes at both ends are cut off.                                       *)
Trim(value) ==
  LET kept == {i \in DOMAIN value : value[i] # "/"}
  IN  IF kept = {} THEN <<>> ELSE SubSeq(value, Min(kept), Max(kept))

(* str::split: Cut(name)[i] is what the first i characters fall into.       *)
Extend(parts, char) ==
  IF char = "/" THEN Append(parts, <<>>)
                ELSE [parts EXCEPT ![Len(parts)] = Append(@, char)]

Cut(name) ==
  LET cut[i \in 0..Len(name)] == IF i = 0 THEN << <<>> >> ELSE Extend(cut[i - 1], name[i])
  IN  cut

Components(name) == Cut(name)[Len(name)]

(* ParentSettings::from_env; blank is as good as not set.                  *)
S3Prefix(exported) ==
  LET value == Var(exported, "prefix")
  IN  Trim(IF value \in {None, <<>>} THEN Default ELSE value)

Mode(exported) == IF Var(exported, "mode") = None THEN "serve" ELSE Var(exported, "mode")

Accepts(prefix) == prefix # <<>> /\ ~Contains(Components(prefix), <<"..">>)

(* object_key.                                                             *)
ObjectKey(prefix) == prefix \o <<"/", "manifest">>

(* Faulty variant: the prefix is compared without the slash behind it.     *)
AllowedBySpelling(key, prefix) == IsPrefix(prefix, key)

(* validate_s3_target.                                                     *)
Allowed(key, prefix) == IsPrefix(prefix \o <<"/">>, key)

-----------------------------------------------------------------------------
Init ==
  /\ shell \in Shells /\ file \in Files
  /\ broker = None /\ manifest = None /\ named = None

(* The operator sets variables and edits the file while no broker runs.    *)
Configure ==
  /\ broker = None
  /\ shell' \in Shells /\ file' \in Files
  /\ manifest' = IF manifest = None THEN None ELSE [manifest EXCEPT !.same = FALSE]
  /\ named' = None
  /\ UNCHANGED broker

Start(by, exported) ==
  /\ broker = None
  /\ Loads /\ Accepts(S3Prefix(exported))
  /\ broker' = [by |-> by, prefix |-> S3Prefix(exported), mode |-> Mode(exported)]
  /\ named' = None
  /\ UNCHANGED <<shell, file, manifest>>

StartByHand == Start("hand", [prefix |-> shell.prefix, mode |-> shell.mode])

(* The script's S3_PREFIX: its default replaces an empty value too.        *)
ScriptPrefix == IF shell.prefix \in {None, <<>>} THEN Default ELSE shell.prefix

(* Faulty variant: the script hands its S3_PREFIX on to the broker.        *)
ScriptExportsPrefix == [prefix |-> ScriptPrefix, mode |-> "init-key"]

(* A variable that the caller exported stays exported when the script      *)
(* assigns to it; one that was not set stays the script's own.             *)
ScriptExports ==
  [prefix |-> IF shell.prefix = None THEN None ELSE ScriptPrefix, mode |-> "init-key"]

StartByScript == Start("script", ScriptExports)

(* A tee in init-key mode leaves a manifest at its key.                    *)
Initialize ==
  /\ broker # None /\ broker.mode = "init-key"
  /\ LET key == ObjectKey(broker.prefix) IN
       Allowed(key, broker.prefix) /\ manifest' = [key |-> key, same |-> TRUE]
  /\ UNCHANGED <<shell, file, broker, named>>

(* The broker stops; at the end of the script, this names the object to    *)
(* verify, with one slash cut off: "${S3_PREFIX%/}".                       *)
Stop ==
  /\ broker # None
  /\ broker' = None
  /\ named' = IF broker.by # "script" THEN None
              ELSE ObjectKey(IF Last(ScriptPrefix) = "/" THEN Front(ScriptPrefix)
                                                         ELSE ScriptPrefix)
  /\ UNCHANGED <<shell, file, manifest>>

Next == Configure \/ StartByHand \/ StartByScript \/ Initialize \/ Stop

Spec == Init /\ [][Next]_vars

-----------------------------------------------------------------------------
(* Properties.                                                             *)

(* A broker lets its tees at the names they build from its settings, and   *)
(* at the manifest of another configuration only when its own prefix is a  *)
(* directory of it: prefixes are compared component by component           *)
(* (validate_s3_target), however they were spelled.                        *)
AllowedIsBelow ==
  broker # None =>
    /\ Allowed(ObjectKey(broker.prefix), broker.prefix)
    /\ manifest # None =>
         (Allowed(manifest.key, broker.prefix)
            <=> IsStrictPrefix(Components(broker.prefix), Components(manifest.key)))

(* What the script initialized is found by a serve broker that the         *)
(* operator then starts by hand with the same exports and .env file, and   *)
(* the other way round.                                                    *)
SameSettingsSamePlace ==
  broker # None /\ manifest # None /\ manifest.same
    => manifest.key = ObjectKey(broker.prefix)

(* The script's broker is in init-key mode whatever .env and the shell say *)
(* (scripts/init-key-in-enclave.sh:5).                                     *)
ScriptInitializes == broker # None /\ broker.by = "script" => broker.mode = "init-key"

(* The object that the script tells the operator to verify is the one that *)
(* was written (scripts/init-key-in-enclave.sh:85).                        *)
NamedObjectIsManifest ==
  named # None /\ manifest # None /\ manifest.same => named = manifest.key
=============================================================================
