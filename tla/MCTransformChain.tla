--------------------------- MODULE MCTransformChain ---------------------------
(* Instance for TLC: right and wrong steps, and chains of up to four of them.  *)
EXTENDS TransformChain

CONSTANTS a, b

Step(op, params, refs, out) == [op |-> op, params |-> params, refs |-> refs, out |-> out]

Reproject(ref, out) == Step("reproject-vector", [target_crs |-> "text"], <<ref>>, out)
Clip(ref, by, out) == Step("clip", [overlay_layer_id |-> by], <<ref>>, out)
Filter(params, out) == Step("filter", params, <<a, b>>, out)
JoinOf(type) ==
  Step("join", [join_layer_id |-> b, join_field |-> "text", target_field |-> "text", join_type |-> type],
       <<a>>, None)

\* A step of each operation that validates; the paths "x" and "./x" are one file.
RightSteps ==
  {Reproject(a, <<"x">>), Reproject(<<1, <<"x">>>>, <<"y">>), Clip(a, b, <<".", "x">>), Clip(b, Blank, None),
   Filter([field |-> "text", op |-> "comparison", value |-> "empty"], <<"d", "x">>),
   JoinOf("one-to-one"),
   Step("reproject-raster", [target_crs |-> "text", resampling |-> "text", nodata |-> "number"], <<b>>, None),
   Step("raster-to-vector", [field |-> "text"], <<b>>, <<"a:b">>),
   Step("vector-to-raster", [target_resolution |-> "number"], <<a>>, <<".">>)}

\* Each breaks one rule of validate_step; the first two are as the classification plans them.
WrongSteps ==
  {Step("raster-to-vector", [method |-> "text"], <<b>>, <<"a:b">>),
   Step("join", [key |-> "text", cardinality |-> "text"], <<a, b>>, <<"a:b">>),
   Step("merge", [none |-> "text"], <<a>>, None),
   Step("reproject-vector", [target_crs |-> "number"], <<a>>, None),
   Step("vector-to-raster", [target_resolution |-> "text"], <<a>>, None),
   Filter([field |-> "empty", op |-> "comparison"], None),
   Filter([field |-> "text", op |-> "text"], None),
   JoinOf("text"), Reproject(Blank, None),
   Step("clip", [overlay_layer_id |-> b], <<>>, None),
   Step("clip", [overlay_layer_id |-> b], Scalar, None)}

AllSteps == RightSteps \cup WrongSteps

Chains ==
  {<<>>} \cup {<<s>> : s \in AllSteps} \cup (RightSteps \X AllSteps)
    \cup {<<Reproject(a, <<"x">>), s, t>> : s \in RightSteps, t \in {Reproject(b, <<"y">>), Reproject(Blank, None)}}
    \cup {<<JoinOf("one-to-one"), JoinOf("one-to-one"), s, s>> : s \in {Reproject(a, <<"x">>)}}

MCRequests ==
  [tool : {"chain"}, steps : Chains, workspace : BOOLEAN]
    \cup [tool : {"buffer", "dissolve"}, layers : {<<a>>}, predicate : {None}]
    \cup [tool : {"intersection", "zonal_statistics"}, layers : {<<a, b>>}, predicate : {None}]
    \cup [tool : {"spatial_join"}, layers : {<<a, b>>}, predicate : {"within", "near"}]
================================================================================
