------------------------------- MODULE Models -------------------------------
(***************************************************************************)
(* The models of a cluster (model/mod.rs): versions in the Catalog and,    *)
(* for each, a key in a Vault.  SecretRotation models how the Vault        *)
(* encrypts; here a secret is stored or not.  A caller keeps its secrets   *)
(* in its own memory, whatever the database its catalog is in              *)
(* (entrypoint.rs): the key of a model it did not create is not there.     *)
(***************************************************************************)
EXTENDS Catalog

CONSTANT Secret   \* SecretRef

VARIABLES secrets,  \* secrets[c]: the secrets in the Vault of c
          used,     \* references handed out
          heard     \* heard[c]: what the stream of c brought

modelsVars == <<catalogVars, secrets, used, heard>>

ModelsTypeOK(Is(_, _)) ==
  /\ CatalogTypeOK(Is)
  /\ used \subseteq Secret
  /\ secrets \in [Caller -> SUBSET used]
  /\ \A d \in Database : \A v \in DOMAIN items[d]["model"] :
       items[d]["model"][v].data.key \in used
  /\ heard \in [Caller -> SUBSET {"completed", "failed"}]

ModelsInit ==
  /\ CatalogInit
  /\ secrets = [c \in Caller |-> {}] /\ used = {}
  /\ heard = [c \in Caller |-> {}]

-----------------------------------------------------------------------------
(* Models::insert: Vault::store, then Catalog::publish. *)
insert_model(c, key) ==
  /\ Ready(c)
  /\ key \notin used
  /\ used' = used \cup {key}
  /\ secrets' = [secrets EXCEPT ![c] = @ \cup {key}]
  /\ Goto(c, "insert", "publish", "model", 0, [key |-> key])
  /\ UNCHANGED <<items, db, heard>>

(* Models::change, Models::delete and Models::execute read the active      *)
(* version: it may have been deleted since its reference was found.        *)
open_model(c, op) ==
  /\ op \in {"change", "delete", "execute"}
  /\ latest_ref(c, op, "model", "open", NoData)
  /\ UNCHANGED <<secrets, used, heard>>

(* A change may or may not set the key; the others use it. *)
deref_model(c) ==
  LET t == task[c]
      model == get_catalog_item(Versions(c, "model"), t.version)
  IN /\ ~Ready(c) /\ t.step = "open"
     /\ \/ model = NoData /\ End(c, "not_found", NoData)
        \/ model # NoData /\ Goto(c, t.op, "vault", "model", t.version, model)
        \/ model # NoData /\ t.op = "change"
           /\ Goto(c, "change", "publish", "model", t.version, model)
     /\ UNCHANGED <<items, db, secrets, used, heard>>

(* Vault::update keeps the reference; a store in memory inserts the row,   *)
(* whether it had one or not.                                              *)
change_key(c) ==
  /\ At(c, "change", "vault")
  /\ secrets' = [secrets EXCEPT ![c] = @ \cup {task[c].data.key}]
  /\ Goto(c, "change", "publish", "model", task[c].version, task[c].data)
  /\ UNCHANGED <<items, db, used, heard>>

(* The secret goes first, then the item. *)
delete_secret(c) ==
  /\ At(c, "delete", "vault")
  /\ secrets' = [secrets EXCEPT ![c] = @ \ {task[c].data.key}]
  /\ Goto(c, "delete", "delete", "model", task[c].version, NoData)
  /\ UNCHANGED <<items, db, used, heard>>

(* EncryptedModel::decrypt, then the request that opens the stream. *)
decrypt(c) ==
  /\ At(c, "execute", "vault")
  /\ IF task[c].data.key \in secrets[c]
     THEN Goto(c, "execute", "stream", "model", task[c].version, task[c].data)
     ELSE End(c, "error", NoData)
  /\ heard' = [heard EXCEPT ![c] = {}]
  /\ UNCHANGED <<items, db, secrets, used>>

(* The server says, in any order, that the response is complete and that   *)
(* it failed; an error of the connection counts as a failure.              *)
stream_event(c, event) ==
  /\ At(c, "execute", "stream")
  /\ event \notin heard[c]
  /\ heard' = [heard EXCEPT ![c] = @ \cup {event}]
  /\ UNCHANGED <<items, db, task, secrets, used>>

(* The stream ends: Completed if nothing failed and a response came. *)
stream_end(c) ==
  /\ At(c, "execute", "stream")
  /\ End(c, IF heard[c] = {"completed"} THEN "ok" ELSE "error", NoData)
  /\ UNCHANGED <<items, db, secrets, used, heard>>

model_step(c) ==
  \/ deref_model(c) \/ change_key(c) \/ delete_secret(c) \/ decrypt(c)
  \/ \E event \in {"completed", "failed"} : stream_event(c, event)
  \/ stream_end(c)
=============================================================================
