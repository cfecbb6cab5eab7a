------------------------------ MODULE MCAssets ------------------------------
\* An instance of Assets: the shipped system workflow has one contract with one
\* text, and the asset API may delete, rename and rewrite any of the three.
EXTENDS Assets

Repository ==
  [path \in Paths |->
     CASE path = "gen" -> Manifest(<<>>, <<"build.yaml">>)
       [] path = "build.yaml" -> Contract(TRUE, "build.md")
       [] path = "build.md" -> "shipped"
       [] OTHER -> Nothing]

NamesOf == [text \in Texts |-> IF text = "build.md" THEN "build.yaml" ELSE "spec.yaml"]

Edited(path) ==
  CASE path \in Workflows -> {Manifest(<<path>>, <<>>)}
    [] path \in Contracts -> {Contract(FALSE, "build.md")}
    [] OTHER -> {"edited"}

=============================================================================
