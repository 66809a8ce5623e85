----------------------------- MODULE FencedLock -----------------------------
(***************************************************************************)
(* What a caller of the lease service may rely on, one lock per session.   *)
(*                                                                         *)
(* A session has at most one owner, and every change of owner is marked by *)
(* a strictly larger token, the fencing token that downstream writers      *)
(* compare.  An owner may lose the lock at any time (its lease runs out,   *)
(* it gives it back) and may come back under the same token only when      *)
(* nobody took the lock in between.                                        *)
(***************************************************************************)
EXTENDS Integers

CONSTANTS Session, Node, Nobody

VARIABLES owner,  \* owner[s]: who may act on session s, or Nobody
          token,  \* token[s]: the last token issued for s
          taker   \* taker[s]: to whom token[s] was issued, or Nobody

vars == <<owner, token, taker>>

Init ==
  /\ owner = [s \in Session |-> Nobody]
  /\ token = [s \in Session |-> 0]
  /\ taker = [s \in Session |-> Nobody]

(* n takes a free lock.  The lease may be so short that it is over at once. *)
Take(s, n) ==
  /\ owner[s] = Nobody
  /\ token' = [token EXCEPT ![s] = @ + 1]
  /\ taker' = [taker EXCEPT ![s] = n]
  /\ \E o \in {n, Nobody} : owner' = [owner EXCEPT ![s] = o]

(* The node that the current token was issued to owns the lock again. *)
Regain(s) ==
  /\ owner[s] = Nobody
  /\ taker[s] # Nobody
  /\ owner' = [owner EXCEPT ![s] = taker[s]]
  /\ UNCHANGED <<token, taker>>

(* Owners of the sessions in S lose the lock. *)
Lose(S) ==
  /\ owner' = [s \in Session |-> IF s \in S THEN Nobody ELSE owner[s]]
  /\ UNCHANGED <<token, taker>>

Next ==
  \/ \E s \in Session, n \in Node : Take(s, n)
  \/ \E s \in Session : Regain(s)
  \/ \E S \in SUBSET Session : Lose(S)

Spec == Init /\ [][Next]_vars
=============================================================================
