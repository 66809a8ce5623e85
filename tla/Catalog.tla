------------------------------ MODULE Catalog -------------------------------
(***************************************************************************)
(* The catalog (catalog/mod.rs) and what is a list of versions in it and   *)
(* nothing else: the experts (expert/mod.rs), the tools (tools/mod.rs) and *)
(* the graphs (graph/mod.rs), which read, publish and delete alike.        *)
(*                                                                         *)
(* An operation is a sequence of awaited calls to the store, which nothing *)
(* holds together: task[c] is the call its caller c makes next, and the    *)
(* other callers run in between.  Operations on two identifiers of a kind  *)
(* share nothing, so each kind has one item.  A caller is a LocalMarie or  *)
(* another process: it works on the PostgreSQL database they all share, or *)
(* on a catalog in its own memory (entrypoint.rs).                         *)
(***************************************************************************)
EXTENDS Naturals, Sequences, FiniteSetsExt

CONSTANTS Caller,       \* concurrent users of the catalog
          NoData,       \* no content
          MaxVersions   \* how many versions of an item are published

Kind == {"model", "expert", "tool", "graph"}

Database == {"postgres", "memory"}

ASSUME CatalogAssumption == MaxVersions \in Nat

VARIABLES items,   \* items[d][k]: the versions of the item of kind k, in d
          db,      \* db[c]: the database of c
          task     \* task[c]: the operation c is in the middle of

catalogVars == <<items, db, task>>

(* The row of a version.  A version is its place in the list, from 1 on. *)
StoredItem(data) == [data : {data}, deprecated : BOOLEAN, deleted : BOOLEAN]

Op == {"replace", "delete", "get", "list", "insert", "change", "execute"}
NextCall == {"publish", "delete", "deref", "vault", "open", "stream"}

Idle == [op |-> "none"]

(* Is(k, data): data is what an item of kind k holds. *)
CatalogTypeOK(Is(_, _)) ==
  /\ \A d \in Database : \A k \in Kind :
       /\ Len(items[d][k]) <= MaxVersions
       /\ \A v \in DOMAIN items[d][k] :
            Is(k, items[d][k][v].data) /\ items[d][k][v] \in StoredItem(items[d][k][v].data)
  /\ db \in [Caller -> Database]
  /\ \A c \in Caller :
       LET t == task[c] IN
       \/ t = Idle
       \/ t.op = "done" /\ t.answer \in {"ok", "not_found", "error"}
       \/ /\ t.op \in Op /\ t.step \in NextCall /\ t.version \in 0..MaxVersions
          /\ t.data = NoData \/ Is(t.kind, t.data)

-----------------------------------------------------------------------------
(* StoreCatalog, on the versions of one item.  PgStore and InMemoryCatalog *)
(* differ in where the versions are.                                       *)

insert_catalog_item(versions, data) ==
  Append(versions, [data |-> data, deprecated |-> FALSE, deleted |-> FALSE])

get_catalog_item(versions, v) ==
  IF v \in DOMAIN versions /\ ~versions[v].deleted THEN versions[v].data ELSE NoData

(* The highest version neither deprecated nor deleted; 0 is NotFound. *)
last_catalog_ref(versions) ==
  Max({0} \cup {v \in DOMAIN versions :
                  ~versions[v].deprecated /\ ~versions[v].deleted})

(* One reference per item, if it has an active version. *)
list_catalog_refs(versions) == {last_catalog_ref(versions)} \ {0}

(* Both mark every version there is. *)
deprecate_catalog_item(versions) ==
  [v \in DOMAIN versions |-> [versions[v] EXCEPT !.deprecated = TRUE]]

delete_catalog_item(versions) ==
  [v \in DOMAIN versions |-> [versions[v] EXCEPT !.deleted = TRUE]]

(* A catalog in memory lives and dies with its LocalMarie. *)
InMemoryCatalog == [k \in Kind |-> <<>>]

CatalogInit ==
  /\ items = [d \in Database |-> InMemoryCatalog]
  /\ db = [c \in Caller |-> "postgres"]
  /\ task = [c \in Caller |-> Idle]

-----------------------------------------------------------------------------
Versions(c, k) == items[db[c]][k]
Ready(c) == task[c].op \in {"none", "done"}
At(c, op, step) == task[c].op = op /\ task[c].step = step

Goto(c, op, step, k, v, data) ==
  task' = [task EXCEPT ![c] = [op |-> op, step |-> step, kind |-> k,
                               version |-> v, data |-> data]]
End(c, answer, data) ==
  task' = [task EXCEPT ![c] = [op |-> "done", answer |-> answer, data |-> data]]
Answer(c, ok, data) == End(c, IF ok THEN "ok" ELSE "not_found", data)

(* Catalog::publish.  The primary key refuses one of two publications that *)
(* PostgreSQL computed the same version for: Fail.                         *)
publish(c, k, data) ==
  /\ Len(Versions(c, k)) < MaxVersions
  /\ items' = [items EXCEPT ![db[c]][k] = insert_catalog_item(@, data)]
  /\ End(c, "ok", NoData)
  /\ UNCHANGED db

(* Experts::create, Graphs::insert, Tools::insert *)
insert(c, k, data) ==
  /\ Ready(c)
  /\ publish(c, k, data)

(* Every other operation starts with the active version (latest_ref), and  *)
(* answers NotFound when there is none.  next is the call that follows.    *)
latest_ref(c, op, k, next, data) ==
  /\ Ready(c)
  /\ LET v == last_catalog_ref(Versions(c, k)) IN
     IF v = 0 THEN End(c, "not_found", NoData) ELSE Goto(c, op, next, k, v, data)
  /\ UNCHANGED <<items, db>>

replace(c, k, data) == latest_ref(c, "replace", k, "publish", data)

delete(c, k) == latest_ref(c, "delete", k, "delete", NoData)

(* Graphs::latest: whether there is an active version. *)
latest(c, k) ==
  /\ Ready(c)
  /\ Answer(c, last_catalog_ref(Versions(c, k)) # 0, NoData)
  /\ UNCHANGED <<items, db>>

(* Catalog::latest: the reference, then the version it points to. *)
get(c, k) == latest_ref(c, "get", k, "deref", NoData)

(* The references, then each version.  An item deleted in between fails    *)
(* the whole list.                                                         *)
list(c, k) ==
  /\ Ready(c)
  /\ LET refs == list_catalog_refs(Versions(c, k)) IN
     \/ refs = {} /\ End(c, "ok", NoData)
     \/ \E v \in refs : Goto(c, "list", "deref", k, v, NoData)
  /\ UNCHANGED <<items, db>>

-----------------------------------------------------------------------------
(* The calls that follow. *)

publish_version(c) ==
  /\ ~Ready(c) /\ task[c].step = "publish"
  /\ publish(c, task[c].kind, task[c].data)

(* Every version there is by now, whichever latest_ref found. *)
delete_versions(c) ==
  /\ ~Ready(c) /\ task[c].step = "delete"
  /\ items' = [items EXCEPT ![db[c]][task[c].kind] = delete_catalog_item(@)]
  /\ End(c, "ok", NoData)
  /\ UNCHANGED db

(* Catalog::deref *)
deref(c) ==
  /\ At(c, "get", "deref") \/ At(c, "list", "deref")
  /\ LET item == get_catalog_item(Versions(c, task[c].kind), task[c].version) IN
     Answer(c, item # NoData, item)
  /\ UNCHANGED <<items, db>>

deprecate(c, k) ==
  /\ Ready(c)
  /\ items' = [items EXCEPT ![db[c]][k] = deprecate_catalog_item(@)]
  /\ End(c, "ok", NoData)
  /\ UNCHANGED db

(* The store answers a call with an error: the first of an operation, or a *)
(* later one.                                                              *)
Refused(c) ==
  /\ Ready(c)
  /\ End(c, "error", NoData)
  /\ UNCHANGED <<items, db>>

Fail(c) ==
  /\ ~Ready(c)
  /\ End(c, "error", NoData)
  /\ UNCHANGED <<items, db>>

catalog_step(c) == publish_version(c) \/ delete_versions(c) \/ deref(c)
=============================================================================
