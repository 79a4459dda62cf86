---------------------------- MODULE GovernedEffect ----------------------------
(***************************************************************************)
(* What the controlled execution boundary promises (ADR-0010, seen from    *)
(* outside): a call of the single entry point either is refused without    *)
(* any effect, or obtains a licence that is on record before the effect,   *)
(* has the effect once, and is then concluded.  Only an effect that really *)
(* took place may be reported as a success.                                *)
(*                                                                         *)
(* ControlledExecution implements this specification; nothing here is      *)
(* about registries, policies, schemas or sinks.                           *)
(***************************************************************************)
EXTENDS Naturals

CONSTANTS Calls,     \* calls of the entry point
          Licences,  \* what a call may be licensed to do
          Unlicensed \* a value that is not a licence

VARIABLES licence,   \* call -> the licence on record, or Unlicensed
          performed, \* call -> number of times its effect took place
          verdict    \* call -> "pending", "success" or "failure"

absVars == <<licence, performed, verdict>>

AbsInit ==
  /\ licence = [c \in Calls |-> Unlicensed]
  /\ performed = [c \in Calls |-> 0]
  /\ verdict = [c \in Calls |-> "pending"]

\* The call is turned down: no licence, no effect, ever.
Refuse(c) ==
  /\ verdict[c] = "pending"
  /\ licence[c] = Unlicensed
  /\ verdict' = [verdict EXCEPT ![c] = "failure"]
  /\ UNCHANGED <<licence, performed>>

\* A licence goes on record before anything happens.
Grant(c) ==
  /\ verdict[c] = "pending"
  /\ licence[c] = Unlicensed
  /\ \E l \in Licences : licence' = [licence EXCEPT ![c] = l]
  /\ UNCHANGED <<performed, verdict>>

\* The one effect of a licensed call.
Perform(c) ==
  /\ verdict[c] = "pending"
  /\ licence[c] # Unlicensed
  /\ performed[c] = 0
  /\ performed' = [performed EXCEPT ![c] = 1]
  /\ UNCHANGED <<licence, verdict>>

\* The caller learns how the effect went.
Conclude(c, v) ==
  /\ verdict[c] = "pending"
  /\ performed[c] = 1
  /\ verdict' = [verdict EXCEPT ![c] = v]
  /\ UNCHANGED <<licence, performed>>

AbsNext == \E c \in Calls : \/ Refuse(c)
                            \/ Grant(c)
                            \/ Perform(c)
                            \/ Conclude(c, "success")
                            \/ Conclude(c, "failure")

AbsSpec == AbsInit /\ [][AbsNext]_absVars
===============================================================================
