------------------------------ MODULE MemoryMap ------------------------------
(***************************************************************************)
(* What the memory store promises to a caller that names memories by ID:   *)
(* one map from IDs to records.  A save replaces the record, an update     *)
(* changes the fields it names and keeps the others, a removal (by a       *)
(* caller or by the cleanup) takes the record away, each in one step.      *)
(***************************************************************************)
CONSTANTS Memories, Contents, NoRecord, Keep

VARIABLE store

(* ttl is the request's TTL (given or not), expiry the state of expires_at. *)
Expiries == {"none", "live", "past"}
Records == [content : Contents, ttl : BOOLEAN, expiry : Expiries]
TTLChanges == {"keep", "on", "off"}

Fresh(content, ttl) ==
  [content |-> content, ttl |-> ttl, expiry |-> IF ttl THEN "live" ELSE "none"]

(* The record after an update: a TTL in force starts anew.                 *)
Changed(r, content, ttl) ==
  LET on == IF ttl = "keep" THEN r.ttl ELSE ttl = "on"
  IN  [content |-> IF content = Keep THEN r.content ELSE content,
       ttl     |-> on,
       expiry  |-> IF on THEN "live" ELSE r.expiry]

Init == store = [m \in Memories |-> NoRecord]

Save(m) ==
  \E content \in Contents, ttl \in BOOLEAN :
    store' = [store EXCEPT ![m] = Fresh(content, ttl)]

Update(m) ==
  /\ store[m] # NoRecord
  /\ \E content \in Contents \cup {Keep}, ttl \in TTLChanges :
       store' = [store EXCEPT ![m] = Changed(@, content, ttl)]

Remove(m) == store' = [store EXCEPT ![m] = NoRecord]

Expire(m) ==
  /\ store[m] # NoRecord
  /\ store[m].expiry = "live"
  /\ store' = [store EXCEPT ![m].expiry = "past"]

Next == \E m \in Memories : Save(m) \/ Update(m) \/ Remove(m) \/ Expire(m)

Spec == Init /\ [][Next]_store
=============================================================================
