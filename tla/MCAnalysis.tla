------------------------------ MODULE MCAnalysis ------------------------------
(* Instance for TLC: small matrices, sweeps of five to seven steps over       *)
(* ranges of every kind, and tables of up to four units.                      *)
EXTENDS Analysis

Pair(a, b) == <<<<"one", a>>, <<b, "one">>>>
Triple(a, b) == <<<<"one", a, a>>, <<b, "one", "one">>, <<b, "one", "one">>>>

RightMatrices == {Pair("three", "third"), Pair("ninth", "nine"), Pair("one", "one"), Triple("three", "third")}

\* Each breaks one rule of validate_ahp_input, or two in the order they are checked in.
WrongMatrices ==
  {<<>>, <<<<"one">>, <<"one">>>>, <<<<"one", None>>, <<"one">>>>, Pair("three", None), Pair("three", "three"),
   Pair("text", "three"), Pair("true", "zero"), Pair("infinite", "one"), Pair("two and a half", "one"),
   <<<<"three", "one">>, <<"one", "three">>>>, <<<<"true", "one">>, <<"one", "one">>>>,
   [i \in 1 .. 4 |-> <<"one", "one", "one", "one">>]}

Names(n) == SubSeq(<<"slope", "access", "cost", "soil">>, 1, n)
NamesOf(matrix) == Names(Len(matrix))

AhpRequests ==
  [tool : {"ahp"}, criteria : {Names(2), Names(3), <<"slope", "slope">>, <<"blank", "blank">>, <<"slope", "number">>},
   matrix : RightMatrices \cup WrongMatrices]
    \cup {[tool |-> "ahp", criteria |-> Names(4), matrix |-> [i \in 1 .. 4 |-> <<"one", "one", "one", "one">>]],
          [tool |-> "ahp", criteria |-> Names(1), matrix |-> <<<<"one">>>>]}

Sensitivity(matrix, method, range, steps, targets) ==
  [tool |-> "sensitivity", criteria |-> NamesOf(matrix), matrix |-> matrix, method |-> method,
   range |-> range, steps |-> steps, targets |-> targets]

MCRanges ==
  {<<-36, 36>>, <<-6, 6>>, <<-90, 90>>, <<0, 60>>, <<-60, 0>>, <<12, 48>>, <<-48, -12>>, <<60, 108>>,
   <<-108, -60>>}

SensitivityRequests ==
  {Sensitivity(m, "OAT_WEIGHT", range, steps, None) : m \in RightMatrices, range \in MCRanges, steps \in {5, 6, 9}}
    \cup {Sensitivity(m, "OAT_WEIGHT", <<-36, 36>>, 5, t) :
            m \in RightMatrices \cup {Pair("three", "three")}, t \in {<<"access">>, <<"access", "access">>, <<"other">>, <<>>}}
    \cup {Sensitivity(Triple("three", "third"), method, range, steps, None) :
            method \in {"OAT_WEIGHT", "OAT_PAIRWISE", "other"},
            range \in {<<-120, 0>>, <<0, 120>>, <<6, 6>>, <<-6, 6>>}, steps \in {4, 5, 10}}
    \cup {[Sensitivity(Triple("three", "third"), "OAT_WEIGHT", <<-6, 6>>, 5, None) EXCEPT !.criteria = c] :
            c \in {Names(1), Names(2), Names(4)}}

\* Weights of three criteria: apart, tied, nearly tied, one heavy.
MCVectors == {<<72, 24, 24>>, <<40, 40, 40>>, <<60, 37, 23>>, <<45, 44, 31>>, <<108, 8, 4>>}

Criterion(field, weight, direction) == [field |-> field, weight |-> weight, direction |-> direction]

MCCriteria ==
  {<<Criterion("a", 120, "benefit")>>, <<Criterion("a", 40, "benefit"), Criterion("b", 80, "cost")>>,
   <<Criterion("b", 60, "cost"), Criterion("a", 60, "cost")>>,
   <<Criterion("a", 150, "benefit"), Criterion("b", -30, "benefit")>>,
   <<Criterion("a", 60, "benefit")>>, <<>>}

Row == [a : {0, 1, 3, None}, b : {1, 2, None}]
Tables == UNION {[1 .. n -> Row] : n \in 0 .. 3}

SuitabilityRequests == [tool : {"suitability"}, units : Tables, criteria : MCCriteria]

MCRequests == AhpRequests \cup SensitivityRequests \cup SuitabilityRequests
===============================================================================
