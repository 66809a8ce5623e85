------------------------ MODULE SecretRotationProofs ------------------------
(***************************************************************************)
(* Proofs about SecretRotation, for any number of nodes, epochs and        *)
(* secrets.  CurrentIsLoaded needs nothing of the operator; that rotation  *)
(* is seamless needs the runbook, and a stronger invariant: whatever epoch *)
(* is in use somewhere is loaded everywhere.                               *)
(***************************************************************************)
EXTENDS SecretRotation, TLAPS

(* The part of TypeOK the steps below rely on. *)
RingOK ==
  /\ keys \in [Node -> SUBSET Epoch]
  /\ current \in [Node -> Epoch]
  /\ DOMAIN task = Node /\ task = [n \in Node |-> task[n]]

KeyRingInv == RingOK /\ CurrentIsLoaded

(* The key rings change by an operator's call only. *)
LEMMA OnlyOperatorTouchesRing ==
  ASSUME [Next]_vars
  PROVE  \/ \E n \in Node, e \in Epoch :
              Load(n, e) \/ Switch(n, e) \/ Retire(n, e)
         \/ UNCHANGED ring
BY DEF Next, vars, ring, ReadEpoch, derive_key, WriteRow, remove,
       get_decrypted_fetch, get_decrypted_open, verify_membership

(* Operations of the nodes keep `task` a function on Node. *)
LEMMA TaskStaysFunction ==
  ASSUME RingOK, [Next]_vars
  PROVE  DOMAIN task' = Node /\ task' = [n \in Node |-> task'[n]]
<1>1. CASE \E n \in Node, e \in Epoch : Load(n, e) \/ Switch(n, e) \/ Retire(n, e)
  BY <1>1 DEF RingOK, Load, Switch, Retire, add_epoch, set_current_epoch,
              retire_epoch
<1>2. CASE \E n \in Node, r \in Ref :
             \/ \E op \in {"store", "update", "send"} : ReadEpoch(n, op, r)
             \/ get_decrypted_fetch(n, r)
  BY <1>2 DEF RingOK, ReadEpoch, get_decrypted_fetch
<1>3. CASE \E n \in Node : derive_key(n) \/ WriteRow(n) \/ get_decrypted_open(n)
  BY <1>3 DEF RingOK, derive_key, WriteRow, get_decrypted_open
<1>4. CASE \E r \in Ref : remove(r)
  BY <1>4 DEF RingOK, remove
<1>5. CASE \E m \in Node : \E msg \in messages : verify_membership(m, msg)
  BY <1>5 DEF RingOK, verify_membership
<1>6. CASE UNCHANGED vars
  BY <1>6 DEF RingOK, vars
<1>7. QED
  BY <1>1, <1>2, <1>3, <1>4, <1>5, <1>6 DEF Next

(* KeyRingInv is inductive. *)
LEMMA KeyRingStep ==
  ASSUME KeyRingInv, [Next]_vars
  PROVE  KeyRingInv'
<1>1. DOMAIN task' = Node /\ task' = [n \in Node |-> task'[n]]
  BY TaskStaysFunction DEF KeyRingInv
<1>2. ASSUME NEW n \in Node, NEW e \in Epoch, Load(n, e)
      PROVE  KeyRingInv'
  BY <1>1, <1>2 DEF KeyRingInv, RingOK, CurrentIsLoaded, Load, add_epoch
<1>3. ASSUME NEW n \in Node, NEW e \in Epoch, Switch(n, e)
      PROVE  KeyRingInv'
  BY <1>1, <1>3 DEF KeyRingInv, RingOK, CurrentIsLoaded, Switch,
                    set_current_epoch
<1>4. ASSUME NEW n \in Node, NEW e \in Epoch, Retire(n, e)
      PROVE  KeyRingInv'
  BY <1>1, <1>4 DEF KeyRingInv, RingOK, CurrentIsLoaded, Retire, retire_epoch
<1>5. CASE UNCHANGED ring
  BY <1>1, <1>5 DEF KeyRingInv, RingOK, CurrentIsLoaded, ring
<1>6. QED
  BY <1>2, <1>3, <1>4, <1>5, OnlyOperatorTouchesRing

(* Every node is started with the key of its current epoch. *)
LEMMA KeyRingInit == Init => KeyRingInv
BY DEF Init, with_epochs, KeyRingInv, RingOK, CurrentIsLoaded

(* Whatever the operator does, a node always has the key of its current    *)
(* epoch: with_epochs, set_current_epoch and retire_epoch see to it.       *)
THEOREM NodeHasItsKey == Spec => []CurrentIsLoaded
<1>1. KeyRingInv => CurrentIsLoaded
  BY DEF KeyRingInv
<1>2. QED
  BY <1>1, KeyRingInit, KeyRingStep, PTL DEF Spec

-----------------------------------------------------------------------------
(* An operation of a node that has read its epoch but not derived its key. *)
Reading(n) == task[n] # Idle /\ task[n].step = "epoch"

LoadedEverywhere(e) == \A m \in Node : e \in keys[m]

(* What is in use anywhere is loaded everywhere. *)
SeamlessInv ==
  /\ KeyRingInv
  /\ \A n \in Node : LoadedEverywhere(current[n])
  /\ \A n \in Node : Reading(n) => LoadedEverywhere(task[n].epoch)
  /\ \A msg \in messages : LoadedEverywhere(msg.epoch)
  /\ "Refused" \notin failed

(* Every node is started with the same keys, and nothing is in flight. *)
LEMMA SeamlessInit == Init => SeamlessInv
<1> SUFFICES ASSUME Init PROVE SeamlessInv
  OBVIOUS
<1>1. KeyRingInv
  BY KeyRingInit
<1>2. PICK epochs \in SUBSET Epoch, c \in Epoch : with_epochs(epochs, c)
  BY DEF Init
<1>3. \A n \in Node : LoadedEverywhere(current[n])
  BY <1>2 DEF with_epochs, LoadedEverywhere
<1>4. QED
  BY <1>1, <1>3 DEF Init, SeamlessInv, Reading

(* An operator who follows the runbook preserves SeamlessInv. *)
LEMMA SeamlessOperator ==
  ASSUME SeamlessInv, Runbook, KeyRingInv',
         NEW n \in Node, NEW e \in Epoch,
         Load(n, e) \/ Switch(n, e) \/ Retire(n, e)
  PROVE  SeamlessInv'
<1>1. CASE Load(n, e)
  BY <1>1 DEF SeamlessInv, KeyRingInv, RingOK, Reading, LoadedEverywhere,
              Load, add_epoch
<1>2. CASE Switch(n, e)
  BY <1>2 DEF SeamlessInv, KeyRingInv, RingOK, Reading, LoadedEverywhere,
              Switch, set_current_epoch, Others
<1>3. CASE Retire(n, e)
  <2>1. ~InUse(e) /\ \A m \in Node : current[m] # e
    BY <1>3 DEF Retire, retire_epoch, Others
  <2>2. \A m \in Node : keys'[m] = keys[m] \/ keys'[m] = keys[m] \ {e}
    BY <1>3 DEF Retire, retire_epoch, SeamlessInv, KeyRingInv, RingOK
  <2>3. UNCHANGED <<current, task, messages, failed>>
    BY <1>3 DEF Retire, retire_epoch
  <2>4. \A d : LoadedEverywhere(d) /\ d # e => LoadedEverywhere(d)'
    BY <2>2 DEF LoadedEverywhere
  <2>5. \A m \in Node : Reading(m) => task[m].epoch # e
    BY <2>1 DEF InUse, Reading
  <2>6. \A msg \in messages : msg.epoch # e
    BY <2>1 DEF InUse
  <2>7. \A m \in Node : LoadedEverywhere(current[m])'
    BY <2>1, <2>3, <2>4 DEF SeamlessInv, LoadedEverywhere
  <2>8. \A m \in Node : Reading(m)' => LoadedEverywhere(task[m].epoch)'
    BY <2>3, <2>4, <2>5 DEF SeamlessInv, LoadedEverywhere, Reading
  <2>9. \A msg \in messages' : LoadedEverywhere(msg.epoch)'
    BY <2>3, <2>4, <2>6 DEF SeamlessInv, LoadedEverywhere
  <2>10. QED
    BY <2>3, <2>7, <2>8, <2>9 DEF SeamlessInv
<1>4. QED
  BY <1>1, <1>2, <1>3

(* What nodes do between the operator's calls preserves SeamlessInv: they  *)
(* put only loaded epochs to use.                                          *)
LEMMA SeamlessNode ==
  ASSUME SeamlessInv, KeyRingInv', UNCHANGED ring, [Next]_vars
  PROVE  SeamlessInv'
<1>1. \A d : LoadedEverywhere(d)' <=> LoadedEverywhere(d)
  BY DEF ring, LoadedEverywhere
<1>2. \A n \in Node : LoadedEverywhere(current[n])'
  BY <1>1 DEF SeamlessInv, ring, LoadedEverywhere
<1>3. ASSUME NEW n \in Node, NEW r \in Ref, NEW op, ReadEpoch(n, op, r)
      PROVE  SeamlessInv'
  <2>1. /\ task' = [task EXCEPT ![n] = [step |-> "epoch", op |-> op,
                                        ref |-> r, epoch |-> current[n]]]
        /\ UNCHANGED <<messages, failed>>
    BY <1>3 DEF ReadEpoch
  <2>2. \A m \in Node : Reading(m)' => LoadedEverywhere(task[m].epoch)'
    BY <2>1, <1>1 DEF SeamlessInv, KeyRingInv, RingOK, Reading, LoadedEverywhere
  <2>3. QED
    BY <2>1, <2>2, <1>1, <1>2 DEF SeamlessInv, LoadedEverywhere
<1>4. ASSUME NEW n \in Node, derive_key(n)
      PROVE  SeamlessInv'
  <2>1. Reading(n) /\ LoadedEverywhere(task[n].epoch)
    BY <1>4 DEF derive_key, Sealed, Reading, SeamlessInv
  <2>2. /\ \/ task' = [task EXCEPT ![n] = Idle]
           \/ \E op, r, e : task' = [task EXCEPT ![n] =
                [step |-> "row", op |-> op, ref |-> r, epoch |-> e]]
        /\ \/ UNCHANGED messages
           \/ messages' = messages \cup {[epoch |-> task[n].epoch, by |-> n]}
        /\ failed' \in {failed, failed \cup {"UnknownEpoch"}}
    BY <1>4 DEF derive_key, Sealed
  <2>3. \A m \in Node : Reading(m)' => m # n /\ Reading(m) /\ task'[m] = task[m]
    BY <2>1, <2>2 DEF SeamlessInv, KeyRingInv, RingOK, Reading
  <2>4. \A m \in Node : Reading(m)' => LoadedEverywhere(task[m].epoch)'
    BY <2>3, <1>1 DEF SeamlessInv, LoadedEverywhere
  <2>5. \A msg \in messages' : LoadedEverywhere(msg.epoch)'
    BY <2>1, <2>2, <1>1 DEF SeamlessInv, LoadedEverywhere
  <2>6. "Refused" \notin failed'
    BY <2>2 DEF SeamlessInv
  <2>7. QED
    BY <1>2, <2>4, <2>5, <2>6 DEF SeamlessInv
<1>5. ASSUME NEW n \in Node,
             WriteRow(n) \/ get_decrypted_open(n)
             \/ \E r \in Ref : get_decrypted_fetch(n, r)
      PROVE  SeamlessInv'
  <2>1. /\ \/ UNCHANGED task
           \/ task' = [task EXCEPT ![n] = Idle]
           \/ \E row : task' = [task EXCEPT ![n] = [step |-> "fetched", row |-> row]]
        /\ UNCHANGED messages
    BY <1>5 DEF WriteRow, get_decrypted_open, get_decrypted_fetch
  <2>2. "Refused" \notin failed'
    BY <1>5 DEF SeamlessInv, WriteRow, get_decrypted_open, Opens,
                get_decrypted_fetch
  <2>3. \A m \in Node : Reading(m)' => Reading(m) /\ task'[m] = task[m]
    BY <2>1 DEF SeamlessInv, KeyRingInv, RingOK, Reading
  <2>4. \A m \in Node : Reading(m)' => LoadedEverywhere(task[m].epoch)'
    BY <2>3, <1>1 DEF SeamlessInv, LoadedEverywhere
  <2>5. QED
    BY <2>1, <2>2, <2>4, <1>1, <1>2 DEF SeamlessInv, LoadedEverywhere
<1>6. ASSUME NEW m \in Node, NEW msg \in messages, verify_membership(m, msg)
      PROVE  SeamlessInv'
  <2>1. msg.epoch \in keys[m]
    BY DEF SeamlessInv, LoadedEverywhere
  <2>2. UNCHANGED <<task, failed>> /\ messages' = messages \ {msg}
    BY <1>6, <2>1 DEF verify_membership, for_node_epoch
  <2>3. QED
    BY <2>2, <1>1, <1>2 DEF SeamlessInv, LoadedEverywhere, Reading
<1>7. ASSUME NEW r \in Ref, remove(r)
      PROVE  SeamlessInv'
  BY <1>7, <1>1, <1>2 DEF remove, SeamlessInv, LoadedEverywhere, Reading
<1>8. CASE UNCHANGED vars
  BY <1>8, <1>1, <1>2 DEF vars, SeamlessInv, LoadedEverywhere, Reading
<1>9. ASSUME NEW n \in Node, NEW e \in Epoch,
             Load(n, e) \/ Switch(n, e) \/ Retire(n, e)
      PROVE  SeamlessInv'
  <2>1. UNCHANGED <<task, messages, failed>>
    BY <1>9 DEF Load, Switch, Retire, add_epoch, set_current_epoch, retire_epoch
  <2>2. QED
    BY <2>1, <1>1, <1>2 DEF SeamlessInv, LoadedEverywhere, Reading
<1>10. QED
  BY <1>3, <1>4, <1>5, <1>6, <1>7, <1>8, <1>9 DEF Next

(* While the operator follows the runbook, no message is refused and no    *)
(* operation finds its epoch retired, whatever is in flight during the     *)
(* rotation.                                                               *)
THEOREM RunbookRotatesSeamlessly ==
  ASSUME Runbook
  PROVE  Spec => []RotationIsSeamless
<1>1. SeamlessInv /\ [Next]_vars => SeamlessInv'
  <2> SUFFICES ASSUME SeamlessInv, [Next]_vars PROVE SeamlessInv'
    OBVIOUS
  <2>1. KeyRingInv'
    BY KeyRingStep DEF SeamlessInv
  <2>2. QED
    BY <2>1, OnlyOperatorTouchesRing, SeamlessOperator, SeamlessNode
<1>2. SeamlessInv => RotationIsSeamless
  BY DEF SeamlessInv, Reading, LoadedEverywhere, RotationIsSeamless
<1>3. QED
  BY <1>1, <1>2, SeamlessInit, PTL DEF Spec
=============================================================================
