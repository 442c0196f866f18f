---------------------------- MODULE VerifierView ----------------------------
(***************************************************************************)
(* What the signed status lists promise a verifier who never asks the      *)
(* database: a policy's change of status and the bit that shows it arrive  *)
(* together (services/statuslists.py, the docstrings of cancel_or_lapse,   *)
(* suspend_policy and reinstate_policy).                                   *)
(***************************************************************************)
CONSTANT Policies

VARIABLES status,  \* each policy's status
          shown    \* per purpose, the policies whose bit is set

vars == <<status, shown>>

Revoked == {"CANCELLED", "LAPSED"}

\* The bits a verifier must find for given statuses.
Mirror(st) == [revocation |-> {p \in Policies : st[p] \in Revoked},
               suspension |-> {p \in Policies : st[p] = "SUSPENDED"}]

Init == /\ status = [p \in Policies |-> "ACTIVE"]
        /\ shown = Mirror(status)

Move(some, from, to) ==
  /\ \A p \in some : status[p] = from
  /\ status' = [p \in Policies |-> IF p \in some THEN to ELSE status[p]]
  /\ shown' = Mirror(status')

Next == \/ \E p \in Policies : \/ Move({p}, "ACTIVE", "CANCELLED")
                               \/ Move({p}, "ACTIVE", "SUSPENDED")
                               \/ Move({p}, "SUSPENDED", "ACTIVE")
        \/ \E some \in SUBSET Policies : Move(some, "ACTIVE", "LAPSED")

Spec == Init /\ [][Next]_vars
=============================================================================
