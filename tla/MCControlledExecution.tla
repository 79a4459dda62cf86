------------------------ MODULE MCControlledExecution ------------------------
(* Small instances of ControlledExecution for TLC. *)
EXTENDS ControlledExecution

CONSTANTS i1, i2, read_tool, load_tool, good, bad, ctx1, ctx2, v1, v2

\* A consequential tool in two versions, the later one more lenient about its
\* input, and a tool that reads, with and without its handler.
ConsequentialTool(version, accepts) ==
  [name |-> load_tool, version |-> version, risk |-> "high",
   handler |-> TRUE, accepts |-> accepts]
ReadTool(risk, handler) ==
  [name |-> read_tool, version |-> v1, risk |-> risk,
   handler |-> handler, accepts |-> {good}]

MCSpecs ==
  {ConsequentialTool(v1, {good}), ConsequentialTool(v2, {good, bad}),
   ReadTool("read", TRUE), ReadTool("read", FALSE), ReadTool("medium", TRUE)}

FewSpecs ==
  {ConsequentialTool(v1, {good}), ConsequentialTool(v2, {good}),
   ReadTool("read", TRUE), ReadTool("read", FALSE)}

TwoVersions ==
  {ConsequentialTool(v1, {good}), ConsequentialTool(v2, {good}), ReadTool("read", FALSE)}

HighRisk == {"high"}
AllButMedium == Risks \ {"medium"}
=============================================================================
