---------------------------- MODULE StorageTables ----------------------------
(***************************************************************************)
(* The two containers a storing node keeps: LruCache (lru_cache.hpp) for   *)
(* mutable and immutable values, and AnnounceStore (announce.cpp) for the  *)
(* peers announced under a target.                                         *)
(*                                                                         *)
(* An entry records its age, the distance of created_at from the clock.    *)
(***************************************************************************)
EXTENDS Integers, Sequences, SequencesExt, FiniteSetsExt, Lists

(* LruCache: the list entries_, most recently used first; map_ indexes it. *)

Has(cache, key) == \E i \in DOMAIN cache : cache[i].key = key

Without(cache, key) == Only(cache, {i \in DOMAIN cache : cache[i].key # key})

Entry(cache, key) == cache[CHOOSE i \in DOMAIN cache : cache[i].key = key]

\* put: an entry of that key is replaced and moved to the front, otherwise the
\* last ones make room.
LruPut(cache, entry, maxSize) ==
  <<entry>> \o (IF Has(cache, entry.key)
                  THEN Without(cache, entry.key)
                  ELSE SubSeq(cache, 1, Min({Len(cache), maxSize - 1})))

\* get: the entry found is promoted to the front; its age does not change.
LruGet(cache, key) ==
  IF Has(cache, key) THEN <<Entry(cache, key)>> \o Without(cache, key) ELSE cache

\* A collector that trusts the list to be ordered by age: it stops at the
\* first entry, from the back, that has not expired.
LruGc_StopsAtFresh(cache, maxAge) ==
  LET fresh == {i \in DOMAIN cache : cache[i].age <= maxAge}
  IN  IF fresh = {} THEN <<>> ELSE SubSeq(cache, 1, Max(fresh))

\* gc: every expired entry goes, wherever it stands.
LruGc(cache, maxAge) == Only(cache, {i \in DOMAIN cache : cache[i].age <= maxAge})

(* AnnounceStore: the list of one target; a target without peers is absent. *)

\* put: a record of the same address is replaced in place; a full list gives
\* up (in place) the first of its oldest records.
AnnPut(peers, ann, maxPeers) ==
  LET same   == {i \in DOMAIN peers : peers[i].from = ann.from}
      oldest == {i \in DOMAIN peers : \A j \in DOMAIN peers : peers[j].age <= peers[i].age}
  IN  CASE same # {}               -> [peers EXCEPT ![Min(same)] = ann]
        [] Len(peers) >= maxPeers  -> [peers EXCEPT ![Min(oldest)] = ann]
        [] OTHER                   -> Append(peers, ann)

AnnRemove(peers, from) == Only(peers, {i \in DOMAIN peers : peers[i].from # from})

AnnGc(peers, ttl) == Only(peers, {i \in DOMAIN peers : peers[i].age <= ttl})

Older(e) == [e EXCEPT !.age = @ + 1]

Aged(entries) == [i \in DOMAIN entries |-> Older(entries[i])]
==============================================================================
