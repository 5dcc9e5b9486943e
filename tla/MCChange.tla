------------------------------ MODULE MCChange ------------------------------
(* Lines of a dependency, of two versions, of a pinned digest, and prose.  *)
EXTENDS Change

V(n) == [spelt |-> "v", n |-> n]
Bare(n) == [spelt |-> "", n |-> n]

(* 1.0.0-rc.1, 1.0.0, 1.0.1, 1.1.0, 1.1.1, 2.0.0, and one that does not    *)
(* parse.                                                                  *)
v100rc == V(<<1, 0, 0, 0>>)
v100   == V(<<1, 0, 0, 9>>)
v101   == V(<<1, 0, 1, 9>>)
v110   == V(<<1, 1, 0, 9>>)
v111   == V(<<1, 1, 1, 9>>)
v200   == V(<<2, 0, 0, 9>>)
broken == V(<< >>)

Dep(v)    == [text |-> "dep", vers |-> <<v>>, shas |-> << >>]
Two(v, w) == [text |-> "two", vers |-> <<v, w>>, shas |-> << >>]
Pin(s, v) == [text |-> "pin", vers |-> <<v>>, shas |-> <<s>>]

(* The prose line, with no token at all, never pairs.                      *)
MCLines ==
  { Dep(v100rc), Dep(v100), Dep(v110), Dep(v111), Dep(v200), Dep(broken),
    Two(v100, v100), Two(v101, v200), Two(v101, Bare(<<1, 0, 0, 9>>)),
    Pin("s", v100), Pin("t", v200), Pin("s", v101),
    [text |-> "prose", vers |-> << >>, shas |-> << >>] }
=============================================================================
