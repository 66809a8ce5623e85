--------------------------- MODULE SecretRotation ---------------------------
(***************************************************************************)
(* The master keys of a cluster and what is encrypted under them: the      *)
(* SecretManager of every node (secret/mod.rs), the Vault they share       *)
(* (secret/vault.rs) and its store, while an operator rotates the keys by  *)
(* the runbook of secret/mod.rs.                                           *)
(*                                                                         *)
(* An operation of a node reads the current epoch, derives the key of that *)
(* epoch and uses the result in three separate steps: each of the first    *)
(* two takes the lock of the key ring on its own, and a store is awaited.  *)
(* A key is represented by its epoch (the operator gives an epoch one      *)
(* key), so a ciphertext opens with the key it was sealed with.            *)
(***************************************************************************)
EXTENDS Naturals, FiniteSets

CONSTANTS Node,      \* the nodes of the cluster
          Epoch,     \* KeyEpoch
          Ref,       \* SecretRef
          NoSecret,  \* no row in the store
          Idle,
          Upsert,    \* replace_secret inserts a missing row (InMemorySecretStore)
          Runbook    \* the operator follows the runbook of SecretManager

DEFAULT_EPOCH == 0

ASSUME SecretAssumption ==
  /\ Epoch \subseteq Nat /\ DEFAULT_EPOCH \in Epoch
  /\ Upsert \in BOOLEAN /\ Runbook \in BOOLEAN

VARIABLES keys,      \* keys[n]: the epochs loaded by n
          current,   \* current[n]: Inner.current_epoch
          stored,    \* stored[r]: StoredSecret
          task,      \* task[n]: the operation n is in the middle of
          messages,  \* proofs and secrets in transit, under an epoch
          used,      \* history: references ever handed out
          removed,   \* history: references removed
          failed     \* history: how operations failed

ring == <<keys, current>>
vars == <<ring, stored, task, messages, used, removed, failed>>

Row == [key_epoch : Epoch, sealed : Epoch]
Message == [epoch : Epoch, by : Node]
Task == [step : {"epoch", "row"}, op : {"store", "update", "send"}, ref : Ref,
         epoch : Epoch]
   \cup [step : {"fetched"}, row : Row]
Failure == {"UnknownEpoch", "DecryptionFailed", "UnknownSecret", "Refused"}

TypeOK ==
  /\ keys \in [Node -> SUBSET Epoch]
  /\ current \in [Node -> Epoch]
  /\ stored \in [Ref -> Row \cup {NoSecret}]
  /\ task \in [Node -> Task \cup {Idle}]
  /\ messages \subseteq Message
  /\ used \subseteq Ref /\ removed \subseteq used
  /\ failed \subseteq Failure

(* SecretManager::with_epochs refuses no key at all, and a current epoch   *)
(* without its key.  Every node is started with the same keys.             *)
with_epochs(epochs, c) ==
  /\ epochs # {} /\ c \in epochs
  /\ keys = [n \in Node |-> epochs]
  /\ current = [n \in Node |-> c]

Init ==
  /\ \E epochs \in SUBSET Epoch : \E c \in Epoch : with_epochs(epochs, c)
  /\ stored = [r \in Ref |-> NoSecret]
  /\ task = [n \in Node |-> Idle]
  /\ messages = {}
  /\ used = {} /\ removed = {}
  /\ failed = {}

-----------------------------------------------------------------------------
(* SecretManager *)

add_epoch(n, e) ==
  /\ keys' = [keys EXCEPT ![n] = @ \cup {e}]
  /\ UNCHANGED <<current, stored, task, messages, used, removed, failed>>

set_current_epoch__unchecked(n, e) ==
  /\ current' = [current EXCEPT ![n] = e]
  /\ UNCHANGED <<keys, stored, task, messages, used, removed, failed>>

set_current_epoch(n, e) ==
  /\ e \in keys[n]
  /\ current' = [current EXCEPT ![n] = e]
  /\ UNCHANGED <<keys, stored, task, messages, used, removed, failed>>

retire_epoch__current(n, e) ==
  /\ Cardinality(keys[n]) > 1
  /\ keys' = [keys EXCEPT ![n] = @ \ {e}]
  /\ UNCHANGED <<current, stored, task, messages, used, removed, failed>>

(* Neither the current epoch nor the last one is retired. *)
retire_epoch(n, e) ==
  /\ current[n] # e
  /\ Cardinality(keys[n]) > 1
  /\ keys' = [keys EXCEPT ![n] = @ \ {e}]
  /\ UNCHANGED <<current, stored, task, messages, used, removed, failed>>

-----------------------------------------------------------------------------
(* The operator.  The runbook asks it to look at the other nodes; what a   *)
(* node checks by itself is left to the node.  No code enforces the        *)
(* runbook: InUse is the operator's "marge de sécurité", which waits for   *)
(* operations that have read an epoch and not used it yet (the two locks   *)
(* of prove_membership).                                                   *)

Others(n) == Node \ {n}
InUse(e) ==
  \/ \E msg \in messages : msg.epoch = e
  \/ \E n \in Node : task[n] # Idle /\
       \/ task[n].step = "epoch" /\ task[n].epoch = e
       \/ task[n].step = "fetched" /\ task[n].row.key_epoch = e
  \/ \E r \in Ref : stored[r] # NoSecret /\ stored[r].key_epoch = e

(* Steps 2, 3 and 6: load everywhere; switch once every node has the key;  *)
(* retire once nothing is in flight or stored under the old epoch and no   *)
(* node works under it.                                                    *)
Load(n, e) == e \notin keys[n] /\ add_epoch(n, e)

Switch(n, e) ==
  /\ current[n] # e
  /\ Runbook => \A m \in Others(n) : e \in keys[m]
  /\ set_current_epoch(n, e)

Retire(n, e) ==
  /\ e \in keys[n]
  /\ Runbook => ~InUse(e) /\ \A m \in Others(n) : current[m] # e
  /\ retire_epoch(n, e)

-----------------------------------------------------------------------------
(* What nodes do under the current epoch. *)

(* A reference is known once the store of its secret has returned. *)
Known(r) == stored[r] # NoSecret \/ r \in removed

(* The first step of Vault::store and Vault::update, and of                *)
(* prove_membership and for_node: the current epoch is read.               *)
ReadEpoch(n, op, r) ==
  /\ task[n] = Idle
  /\ op = "store" => r \notin used
  /\ op = "update" => Known(r)
  /\ task' = [task EXCEPT ![n] =
       [step |-> "epoch", op |-> op, ref |-> r, epoch |-> current[n]]]
  /\ used' = IF op = "store" THEN used \cup {r} ELSE used
  /\ UNCHANGED <<ring, stored, messages, removed, failed>>

(* NodeSecretManager::encrypt and prove_membership stamp the epoch of the  *)
(* key they were given.                                                    *)
Sealed(n, epoch) == [epoch |-> epoch, by |-> n]

(* derive_key and the encryption or the proof; the epoch may be gone.      *)
derive_key(n) ==
  LET t == task[n] IN
  /\ t # Idle /\ t.step = "epoch"
  /\ \/ /\ t.epoch \notin keys[n]
        /\ task' = [task EXCEPT ![n] = Idle]
        /\ failed' = failed \cup {"UnknownEpoch"}
        /\ UNCHANGED messages
     \/ /\ t.epoch \in keys[n] /\ t.op = "send"
        /\ task' = [task EXCEPT ![n] = Idle]
        /\ messages' = messages \cup {Sealed(n, t.epoch)}
        /\ UNCHANGED failed
     \/ /\ t.epoch \in keys[n] /\ t.op # "send"
        /\ task' = [task EXCEPT ![n] =
             [step |-> "row", op |-> t.op, ref |-> t.ref, epoch |-> t.epoch]]
        /\ UNCHANGED <<messages, failed>>
  /\ UNCHANGED <<ring, stored, used, removed>>

(* SecretCodec for SecretKey: a raw key stamps DEFAULT_EPOCH, whichever    *)
(* epoch it was derived under; the Vault keeps that stamp.                 *)
encrypt(epoch) == [key_epoch |-> DEFAULT_EPOCH, sealed |-> epoch]

(* In PostgreSQL an UPDATE of a missing row does nothing; the store in     *)
(* memory, the one the program is started with, inserts it.                *)
replace_secret(r, row) ==
  IF stored[r] = NoSecret /\ ~Upsert THEN stored
  ELSE [stored EXCEPT ![r] = row]

(* The end of Vault::store and Vault::update. *)
WriteRow(n) ==
  LET t == task[n] IN
  /\ t # Idle /\ t.step = "row"
  /\ stored' = IF t.op = "store"
               THEN [stored EXCEPT ![t.ref] = encrypt(t.epoch)]
               ELSE replace_secret(t.ref, encrypt(t.epoch))
  /\ task' = [task EXCEPT ![n] = Idle]
  /\ UNCHANGED <<ring, messages, used, removed, failed>>

remove(r) ==
  /\ stored[r] # NoSecret
  /\ stored' = [stored EXCEPT ![r] = NoSecret]
  /\ removed' = removed \cup {r}
  /\ UNCHANGED <<ring, task, messages, used, failed>>

(* get_decrypted fetches the row, then derives the key it names. *)
get_decrypted_fetch(n, r) ==
  /\ task[n] = Idle
  /\ Known(r)
  /\ \/ /\ stored[r] = NoSecret
        /\ failed' = failed \cup {"UnknownSecret"}
        /\ UNCHANGED task
     \/ /\ stored[r] # NoSecret
        /\ task' = [task EXCEPT ![n] = [step |-> "fetched", row |-> stored[r]]]
        /\ UNCHANGED failed
  /\ UNCHANGED <<ring, stored, messages, used, removed>>

Opens(n, row) ==
  CASE row.key_epoch \notin keys[n]     -> {"UnknownEpoch"}
    [] row.key_epoch # row.sealed       -> {"DecryptionFailed"}
    [] OTHER                            -> {}

get_decrypted_open(n) ==
  /\ task[n] # Idle /\ task[n].step = "fetched"
  /\ failed' = failed \cup Opens(n, task[n].row)
  /\ task' = [task EXCEPT ![n] = Idle]
  /\ UNCHANGED <<ring, stored, messages, used, removed>>

(* for_node_epoch: the key of the epoch that came with a message. *)
for_node_epoch(m, epoch) == epoch \in keys[m]

(* verify_membership, or for_node_epoch and decrypt, on another node. *)
verify_membership(m, msg) ==
  /\ msg \in messages /\ m # msg.by
  /\ messages' = messages \ {msg}
  /\ failed' = failed \cup (IF for_node_epoch(m, msg.epoch) THEN {} ELSE {"Refused"})
  /\ UNCHANGED <<ring, stored, task, used, removed>>

Next ==
  \/ \E n \in Node, e \in Epoch : Load(n, e) \/ Switch(n, e) \/ Retire(n, e)
  \/ \E n \in Node, r \in Ref :
       \/ \E op \in {"store", "update", "send"} : ReadEpoch(n, op, r)
       \/ get_decrypted_fetch(n, r)
  \/ \E n \in Node : derive_key(n) \/ WriteRow(n) \/ get_decrypted_open(n)
  \/ \E r \in Ref : remove(r)
  \/ \E m \in Node : \E msg \in messages : verify_membership(m, msg)

Spec == Init /\ [][Next]_vars

-----------------------------------------------------------------------------
(* "toujours une clé de `keys`": no order of loads, switches and           *)
(* retirements leaves a node working under an epoch it has no key for.     *)
CurrentIsLoaded == \A n \in Node : current[n] \in keys[n]

(* Rotation "sans coupure de service": while the operator follows the      *)
(* runbook, no proof or secret in transit is refused by another node, and  *)
(* no node finds that the epoch it is about to use has been retired.       *)
RotationIsSeamless ==
  /\ "Refused" \notin failed
  /\ \A n \in Node : task[n] # Idle /\ task[n].step = "epoch" =>
       task[n].epoch \in keys[n]
=============================================================================
