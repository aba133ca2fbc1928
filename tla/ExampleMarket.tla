--------------------------- MODULE ExampleMarket ----------------------------
(***************************************************************************)
(* A market of five assets and six symbols for TLC.  Two triangles share   *)
(* only the asset A, so their executions can run at the same time; a third *)
(* path trades the symbols of the first from another starting asset.       *)
(***************************************************************************)
EXTENDS Integers, Sequences

MCAssets  == {"A", "B", "C", "D", "E"}
MCSymbols == {"BA", "CB", "CA", "DA", "ED", "EA"}
MCBase    == [s \in MCSymbols |->
    CASE s = "BA" -> "B" [] s \in {"CB", "CA"} -> "C"
      [] s = "DA" -> "D" [] s \in {"ED", "EA"} -> "E"]
MCQuote   == [s \in MCSymbols |->
    CASE s \in {"BA", "CA", "DA", "EA"} -> "A"
      [] s = "CB" -> "B" [] s = "ED" -> "D"]

Triangle  == {"BA", "CB", "CA"}    \* the symbols of the first triangle
TriBase   == [s \in Triangle |-> MCBase[s]]
TriQuote  == [s \in Triangle |-> MCQuote[s]]
TriAssets == {"A", "B", "C"}

Long(s)  == [symbol |-> s, position |-> "LONG"]
Short(s) == [symbol |-> s, position |-> "SHORT"]

PathABC == <<Long("BA"), Long("CB"), Short("CA")>>    \* A -> B -> C -> A
PathADE == <<Long("DA"), Long("ED"), Short("EA")>>    \* A -> D -> E -> A
PathBAC == <<Short("BA"), Long("CA"), Short("CB")>>   \* B -> A -> C -> B
MCPaths == {PathABC, PathADE, PathBAC}

(* Fee maps: nothing, or one unit of an asset.                             *)
NoFee    == [a \in MCAssets |-> 0]
FeeIn(a) == [NoFee EXCEPT ![a] = -1]
MCFees   == {NoFee} \cup {FeeIn(a) : a \in {"A", "B"}}
MCNoFees == {NoFee}
FeesInA  == {FeeIn("A")}
FeesInB  == {FeeIn("B")}

(* The same for the assets of the first triangle alone.                    *)
TriNoFee   == [a \in TriAssets |-> 0]
TriNoFees  == {TriNoFee}
TriFeesInA == {[TriNoFee EXCEPT !["A"] = -1]}
TriFees    == TriNoFees \cup TriFeesInA
=============================================================================
