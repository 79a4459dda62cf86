----------------------------- MODULE ProvenanceLog -----------------------------
(***************************************************************************)
(* What an append-only audit log promises: under an identity it keeps the  *)
(* first record stored, and nothing is ever changed or removed.  The one   *)
(* exception is the record of a write that was cut short: until something  *)
(* else is written it is in doubt, and then it may be lost, but no other.  *)
(***************************************************************************)
CONSTANTS Ids,      \* analytical identities
          Records,  \* what may be stored; r.id is the identity of r
          Nothing   \* no record, and no identity

VARIABLES stored,   \* identity -> its record, or Nothing
          doubtful  \* the identity whose record is in doubt, or Nothing

LogInit ==
  /\ stored = [id \in Ids |-> Nothing]
  /\ doubtful = Nothing

Store(r) ==
  /\ doubtful = Nothing
  /\ stored[r.id] = Nothing
  /\ stored' = [stored EXCEPT ![r.id] = r]
  /\ UNCHANGED doubtful

\* A write is cut short; of what is stored already nothing suffers.
StorePartly(r) ==
  /\ doubtful = Nothing
  /\ stored' = IF stored[r.id] = Nothing THEN [stored EXCEPT ![r.id] = r] ELSE stored
  /\ doubtful' = r.id

\* The doubt is settled, one way or the other.
Settle ==
  /\ doubtful # Nothing
  /\ stored' \in {stored, [stored EXCEPT ![doubtful] = Nothing]}
  /\ doubtful' = Nothing

LogNext == (\E r \in Records : Store(r) \/ StorePartly(r)) \/ Settle

LogSpec == LogInit /\ [][LogNext]_<<stored, doubtful>>
================================================================================
