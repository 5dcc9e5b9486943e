------------------------------- MODULE Config -------------------------------
(***************************************************************************)
(* The parsed .github/prove.yml: internal/config/schema.go and load.go.    *)
(*                                                                         *)
(* A config is a record whose fields carry the YAML names.  An optional    *)
(* boolean (a Go *bool) is a set: {} when the key is unset, else its       *)
(* value's singleton.  A glob is a record that Engine knows how to match;  *)
(* NoGlob is the empty string, which Validate refuses.                     *)
(***************************************************************************)
EXTENDS Integers, Sequences

CONSTANT DefaultMaxChangedFiles \* 3000 in the code

ASSUME MaxFilesType == DefaultMaxChangedFiles \in Nat \ {0}

NoGlob  == [rooted |-> FALSE, segs |-> << >>, subtree |-> FALSE,
            bad |-> FALSE]
Methods == {"", "squash", "merge", "rebase"}
Levels  == {"patch", "minor", "major"}

(* A set for an optional boolean: does it hold, with true as the default?  *)
TrueUnlessSet(opt) == FALSE \notin opt

IsEnabled(c)           == TrueUnlessSet(c.enabled)
ConfigFileProtected(c) == TrueUnlessSet(c.protect.config_file)
DotGithubProtected(c)  == TrueUnlessSet(c.protect.dot_github)

EffectiveMaxChangedFiles(c) ==
  IF c.max_changed_files > 0 THEN c.max_changed_files
  ELSE DefaultMaxChangedFiles

Default ==
  [rules |-> << >>, enabled |-> {}, dry_run |-> FALSE, comment |-> FALSE,
   protect |-> [dot_github |-> {}, config_file |-> {}, paths |-> << >>],
   blocked_users |-> {}, max_changed_files |-> DefaultMaxChangedFiles,
   auto_merge |-> [enabled |-> FALSE, method |-> ""]]

applyDefaults(c) ==
  IF c.max_changed_files = 0
  THEN [c EXCEPT !.max_changed_files = DefaultMaxChangedFiles] ELSE c

(* A handle is "@user" or "@org/slug": at says the "@" is there, team that *)
(* there is a "/".  A bare "@" names nobody.                               *)
ValidHandle(h) == h.at /\ (h.team \/ h.name # "")

ValidRule(r) ==
  /\ Len(r.paths) > 0 /\ \A i \in DOMAIN r.paths : r.paths[i] # NoGlob
  /\ Len(r.allow) > 0 /\ \A i \in DOMAIN r.allow : ValidHandle(r.allow[i])
  /\ r.semver \subseteq Levels

Validate(c) ==
  /\ c.max_changed_files >= 0
  /\ \A i \in DOMAIN c.rules : ValidRule(c.rules[i])
  /\ \A i \in DOMAIN c.protect.paths : c.protect.paths[i] # NoGlob
  /\ c.auto_merge.method \in Methods

(* config.Load on the file found at the ref, or on none: {} is the error.  *)
Parse(c)      == LET d == applyDefaults(c) IN IF Validate(d) THEN {d} ELSE {}
Load(content) == IF content = {} THEN {Default}
                 ELSE UNION {Parse(c) : c \in content}
=============================================================================
