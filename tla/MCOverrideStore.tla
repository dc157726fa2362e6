-------------------------- MODULE MCOverrideStore --------------------------
(* Instances of OverrideStore for TLC: which operations each writer may ask. *)
EXTENDS OverrideStore, TLC

Singles ==
  {SetOp(k, e) : k \in Keys, e \in Effects} \cup {RemoveOp(k) : k \in Keys}

\* Up to two overrides, the same key twice included.
Replaces == {ReplaceOp(s) : s \in UNION {[1 .. n -> Override] : n \in 0 .. 2}}

CONSTANT Replacers      \* the writers that replace; the others set or remove

MCAsks(w) == IF w \in Replacers THEN Replaces ELSE Singles

=============================================================================
