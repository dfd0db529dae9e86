----------------------------- MODULE MCSourceHash -----------------------------
(***************************************************************************)
(* SourceHash for TLC: every tree over a few paths.  In `Utf8` every path  *)
(* is its text; `Lossy` has a source whose name is not UTF-8 (its bytes    *)
(* end in ff), and one that is really called what its text says.           *)
(***************************************************************************)
EXTENDS SourceHash, TLC

Utf8Paths == {"Move.toml", "Published.toml", "README.md", "sources", "sources/b.move",
              "sources/c", "sources/c/a.move", "sources/notes"}
Utf8Parent == [p \in Utf8Paths |->
    CASE p \in {"sources/b.move", "sources/c", "sources/notes"} -> "sources"
      [] p = "sources/c/a.move" -> "sources/c"
      [] OTHER -> Top]
Utf8MoveNames == {"sources/b.move", "sources/c/a.move"}
Utf8Text == [p \in Utf8Paths |-> p]
Utf8Rank == "Move.toml" :> 1 @@ "Published.toml" :> 2 @@ "README.md" :> 3
                @@ "sources" :> 4 @@ "sources/b.move" :> 5 @@ "sources/c" :> 6
                @@ "sources/c/a.move" :> 7 @@ "sources/notes" :> 8

LossyPaths == {"Move.toml", "sources", "sources/<ff>.move", "sources/?.move"}
LossyParent == [p \in LossyPaths |->
    IF p \in {"Move.toml", "sources"} THEN Top ELSE "sources"]
LossyMoveNames == {"sources/<ff>.move", "sources/?.move"}
LossyText == [p \in LossyPaths |-> IF p = "sources/<ff>.move" THEN "sources/?.move" ELSE p]
LossyRank == "Move.toml" :> 1 @@ "sources" :> 2 @@ "sources/?.move" :> 3

=============================================================================
