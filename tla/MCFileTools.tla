---------------------------- MODULE MCFileTools -----------------------------
(* Values of FileTools' constants for TLC. *)
EXTENDS FileTools, TLC
CONSTANTS s1, s2, f1, a, b, indented

\* `indented` is `a` with other white space.
TextOf == (a :> "text a") @@ (b :> "text b") @@ (indented :> "text a")
\* Nothing is read in parts; or `b` is above maxSize.
AllSmall == [c \in Contents |-> "small"]
OneLarge == [AllSmall EXCEPT ![b] = "large"]
SomeDiffs == {<<a, b>>, <<b, a>>}
NoDiff == {}
=============================================================================
