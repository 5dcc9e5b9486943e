------------------------------ MODULE MCPolicy ------------------------------
(* Globs, handles and files small enough to try every config of one rule,  *)
(* one more rule and one protected path on every pull request of up to     *)
(* three files.  Pages hold one file, so a cap of one ends the listing at  *)
(* the second file of three.                                               *)
EXTENDS PolicyCheck

Lit(s) == [stars |-> FALSE, of |-> {s}]

Glb(segs)     == [rooted |-> FALSE, segs |-> segs, subtree |-> FALSE, bad |-> FALSE]
Subtree(segs) == [Glb(segs) EXCEPT !.subtree = TRUE]

MCGlobs ==
  { [Subtree(<<Lit("docs")>>) EXCEPT !.rooted = TRUE], \* /docs/
    Glb(<<Stars, Lit("a.md")>>),           \* **/a.md
    Glb(<<Stars>>),                        \* **
    [Glb(<< >>) EXCEPT !.bad = TRUE],      \* [
    NoGlob }                               \* the empty string

User(n)    == [at |-> TRUE, team |-> FALSE, org |-> "", name |-> n]
Team(o, s) == [at |-> TRUE, team |-> TRUE, org |-> o, name |-> s]

(* @me, @org/t, and two that Validate refuses: me without its @, a bare @. *)
MCPrincipals == {User("me"), Team("org", "t"),
                 [User("me") EXCEPT !.at = FALSE], User("")}
OnlyMe  == {User("me")}
OneTeam == {<<"org", "t">>}

(* A second rule for everything, and one for somebody else.                *)
MCMoreRules ==
  { [paths |-> <<Glb(<<Stars>>)>>, allow |-> <<User("me")>>,
     semver |-> {}, sha |-> FALSE],
    [paths |-> <<Subtree(<<Lit("docs")>>)>>, allow |-> <<User("you")>>,
     semver |-> {"patch"}, sha |-> TRUE] }

File(p, old, ks) == [path |-> p, previous |-> old, kinds |-> ks]
MCFiles ==
  { File(<<"docs", "a.md">>, {}, {"patch"}),
    File(<<"docs", "m.go">>, {}, {"patch", "sha"}),
    File(<<"docs">>, {<<"m.go">>}, {}),
    File(<<"m.go">>, {<<".github", "prove.yml">>}, {"unknown"}),
    File(<<"m.go">>, {}, {"patch"}) }
=============================================================================
