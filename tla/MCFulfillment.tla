----------------------------- MODULE MCFulfillment -----------------------------
(* Small instances of Fulfillment for TLC: a requirement that constrains       *)
(* everything, a layer that meets it, and what differs from either.            *)
EXTENDS Fulfillment, TLC

CONSTANTS c1, c2, g1, g2, osm

f1 == 1
f2 == 2

\* No fields, and one field or both with a type or other.
NoFields == [f \in {} |-> "text"]
Fields(a, b) == (f1 :> a) @@ (f2 :> b)

Box(cells, crs) == [box |-> cells, crs |-> crs]

BaseRequirement ==
  [geometry |-> "Polygon", required |-> {f1, f2}, types |-> (f1 :> "Double"), crs |-> c1,
   extent |-> Box({g1}, c1), partial |-> FALSE, hasTime |-> TRUE, local |-> TRUE,
   provider |-> osm, allowed |-> Ops]

BaseRecord ==
  [geometry |-> "2", fields |-> Fields("integer", "text"), crs |-> c1, unreachable |-> FALSE,
   extent |-> Box({g1}, c1), valid |-> TRUE, empty |-> FALSE, hasTime |-> TRUE]

\* A raster as discovery describes it.
RasterRecord == [BaseRecord EXCEPT !.geometry = None, !.fields = None, !.empty = None]

\* Other values of one dimension.
OtherRequirement(d) ==
  CASE d = "geometry" -> {"Any", "Raster", "Table"}
    [] d = "required" -> {{}, {f1}}
    [] d = "types" -> {NoFields}
    [] d = "extent" -> {None, Box({g1}, c2)}
    [] d \in {"crs", "hasTime", "provider"} -> {None}
    [] d \in {"partial", "local"} -> {~BaseRequirement[d]}
    [] d = "allowed" -> {{}, {"join"}, {"reproject-raster", "clip"}}

OtherRecord(d) ==
  CASE d = "geometry" -> {None, "0", "Raster"}
    [] d = "fields" -> {None, (f1 :> "integer"), Fields("text", "text"), (f2 :> "text")}
    [] d = "crs" -> {None, c2}
    [] d = "extent" -> {None, Box({g2}, c1), Box({g1, g2}, c2)}
    [] d = "hasTime" -> {None, FALSE}
    [] d = "empty" -> {TRUE, None}
    [] d \in {"unreachable", "valid"} -> {~BaseRecord[d]}

\* The members of S and what differs from one of them in one more dimension.
Differ(S, Other(_)) ==
  S \cup UNION {UNION {{[s EXCEPT ![d] = v] : v \in Other(d)} : d \in DOMAIN s} : s \in S}

MCAsked == Differ({BaseRequirement}, OtherRequirement)
Near == Differ({BaseRecord}, OtherRecord)
MCSnapshots == {<<>>} \cup {<<r>> : r \in Differ(Near \cup {RasterRecord}, OtherRecord)} \cup (Near \X Near)
MCColumns == {<<>>, <<"a">>, <<"b", "b">>, <<"b", "c">>, <<None>>, <<"b", "c", "b">>, <<"b", "c", "d", "b">>}
================================================================================
