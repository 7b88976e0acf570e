---------------------------- MODULE StorageProofs ----------------------------
(***************************************************************************)
(* What storing nodes promise, for every number of nodes, clients, keys    *)
(* and operations, and for every cache size and time to live: the window   *)
(* of a token, the expiry of stored records, and the newest record read.   *)
(* Then the walks that find those nodes (module Query) and the samples     *)
(* their answers leave with us (module NatSampler), whose lists are        *)
(* filtered in the same closed form (module Lists).                        *)
(***************************************************************************)
EXTENDS Storage, Query, NatSampler, FiniteSetTheorems, TLAPS

-----------------------------------------------------------------------------
(* The containers.                                                         *)

Below(I, i) == {j \in I : j <= i}

\* Every rank up to the number of positions is the rank of one position.
LEMMA Ranks ==
  ASSUME NEW n \in Nat, NEW I \in SUBSET (1 .. n)
  PROVE  /\ Cardinality(I) \in Nat
         /\ \A r \in 1 .. Cardinality(I) : Position(I, r) \in I
         /\ \A i \in I : \E r \in 1 .. Cardinality(I) : Position(I, r) = i
         /\ \A r, t \in 1 .. Cardinality(I) : Position(I, r) = Position(I, t) => r = t
         /\ \A r \in 1 .. Cardinality(I) : Cardinality(Below(I, Position(I, r))) = r
<1> DEFINE rank == [i \in I |-> Cardinality(Below(I, i))]
           N == Cardinality(I)
<1>1. IsFiniteSet(I)
  <2>1. IsFiniteSet(1 .. n) BY FS_Interval
  <2> QED BY <2>1, FS_Subset
<1>2. N \in Nat BY <1>1, FS_CardinalityType
<1>3. \A i \in I : IsFiniteSet(Below(I, i)) /\ Cardinality(Below(I, i)) \in 1 .. N
  <2> TAKE i \in I
  <2>1. Below(I, i) \in SUBSET I /\ i \in Below(I, i) BY DEF Below
  <2>2. IsFiniteSet(Below(I, i)) /\ Cardinality(Below(I, i)) <= N BY <1>1, <2>1, FS_Subset
  <2>3. Cardinality(Below(I, i)) \in Nat /\ Cardinality(Below(I, i)) # 0
    BY <2>1, <2>2, FS_CardinalityType, FS_EmptySet
  <2> QED BY <1>2, <2>2, <2>3
<1>4. ASSUME NEW i \in I, NEW k \in I, i < k PROVE Cardinality(Below(I, i)) # Cardinality(Below(I, k))
  <2>0. I \subseteq Int OBVIOUS
  <2>1. Below(I, i) \subseteq Below(I, k)
    <3>1. \A j \in I : j <= i => j <= k BY <1>4, <2>0
    <3> QED BY <3>1 DEF Below
  <2>2. k \in Below(I, k) BY <2>0 DEF Below
  <2>3. k \notin Below(I, i)
    <3>1. ~(k <= i) BY <1>4, <2>0
    <3> QED BY <3>1 DEF Below
  <2>4. Below(I, i) # Below(I, k) BY <2>2, <2>3
  <2> QED BY <2>1, <2>4, <1>3, FS_Subset
<1>5. \A i, k \in I : Cardinality(Below(I, i)) = Cardinality(Below(I, k)) => i = k BY <1>4
<1>6. rank \in Injection(I, 1 .. N) BY <1>3, <1>5 DEF Injection, IsInjective
<1>7. IsFiniteSet(1 .. N) /\ Cardinality(1 .. N) = N BY <1>2, FS_Interval
<1>8. rank \in Surjection(I, 1 .. N) BY <1>6, <1>7, FS_Injection
<1>9. \A r \in 1 .. N : \E i \in I : Cardinality(Below(I, i)) = r BY <1>8 DEF Surjection
<1>10. \A r \in 1 .. N : Position(I, r) \in I /\ Cardinality(Below(I, Position(I, r))) = r
  BY <1>9 DEF Position, Below
<1>11. \A i \in I : Position(I, Cardinality(Below(I, i))) = i BY <1>3, <1>5, <1>10
<1>12. \A r, t \in 1 .. N : Position(I, r) = Position(I, t) => r = t BY <1>10
<1> QED BY <1>2, <1>3, <1>10, <1>11, <1>12

\* Only keeps the elements it is told to keep, and no others.
LEMMA OnlyKeeps ==
  ASSUME NEW S, NEW list \in Seq(S), NEW I \in SUBSET DOMAIN list
  PROVE  Only(list, I) \in Seq(S) /\ Range(Only(list, I)) = {list[i] : i \in I}
<1>1. Len(list) \in Nat /\ DOMAIN list = 1 .. Len(list) OBVIOUS
<1>2. /\ Cardinality(I) \in Nat
      /\ \A r \in 1 .. Cardinality(I) : Position(I, r) \in I
      /\ \A i \in I : \E r \in 1 .. Cardinality(I) : Position(I, r) = i
  <2>1. I \in SUBSET (1 .. Len(list)) /\ Len(list) \in Nat BY <1>1
  <2> QED BY <2>1, Ranks
<1>3. Only(list, I) \in [1 .. Cardinality(I) -> S] BY <1>1, <1>2 DEF Only
<1> DEFINE o == Only(list, I)
<1>4. DOMAIN o = 1 .. Cardinality(I) /\ \A r \in 1 .. Cardinality(I) : o[r] = list[Position(I, r)] BY DEF Only
<1>5. o \in Seq(S) BY <1>2, <1>3
<1> HIDE DEF o
<1>6. Range(o) = {list[i] : i \in I} BY <1>2, <1>4 DEF Range
<1> QED BY <1>5, <1>6 DEF o

\* Has and Entry in terms of the elements of the list.
LEMMA Entries ==
  ASSUME NEW cache, NEW key
  PROVE  /\ Has(cache, key) <=> \E e \in Range(cache) : e.key = key
         /\ Has(cache, key) => Entry(cache, key) \in Range(cache) /\ Entry(cache, key).key = key
BY DEF Has, Entry, Range

\* The elements of a list with a new head.
LEMMA Prepended ==
  ASSUME NEW S, NEW e \in S, NEW list \in Seq(S)
  PROVE  <<e>> \o list \in Seq(S) /\ Range(<<e>> \o list) = {e} \cup Range(list)
<1> DEFINE s == <<e>> \o list
<1>1. /\ s \in Seq(S) /\ Len(s) = Len(list) + 1 /\ s[1] = e
      /\ \A i \in 1 .. Len(list) : s[i + 1] = list[i]
  OBVIOUS
<1> HIDE DEF s
<1>2. Len(list) \in Nat /\ DOMAIN s = 1 .. Len(s) /\ DOMAIN list = 1 .. Len(list) BY <1>1
<1>3. \A i \in DOMAIN s : s[i] = e \/ s[i] \in Range(list)
  <2> TAKE i \in DOMAIN s
  <2>1. CASE i = 1 BY <2>1, <1>1
  <2>2. CASE i # 1
    <3>1. i - 1 \in 1 .. Len(list) /\ (i - 1) + 1 = i BY <2>2, <1>1, <1>2
    <3>2. s[i] = list[i - 1] BY <3>1, <1>1
    <3> QED BY <3>1, <3>2, <1>2 DEF Range
  <2> QED BY <2>1, <2>2
<1>4. e \in Range(s)
  <2>1. 1 \in DOMAIN s BY <1>1, <1>2
  <2> QED BY <2>1, <1>1 DEF Range
<1>5. Range(list) \subseteq Range(s)
  <2> SUFFICES ASSUME NEW i \in DOMAIN list PROVE list[i] \in Range(s) BY DEF Range
  <2>1. i + 1 \in DOMAIN s BY <1>1, <1>2
  <2> QED BY <2>1, <1>1, <1>2 DEF Range
<1>6. Range(s) \subseteq {e} \cup Range(list) BY <1>3 DEF Range
<1> QED BY <1>1, <1>4, <1>5, <1>6 DEF s

\* A cache has one entry of a key.
Single(cache) == \A d, e \in Range(cache) : d.key = e.key => d = e

\* A lookup reorders the list: nothing is added and, with one entry for each key,
\* nothing is lost.
LEMMA LruGetKeeps ==
  ASSUME NEW S, NEW cache \in Seq(S), NEW key
  PROVE  /\ LruGet(cache, key) \in Seq(S)
         /\ Range(LruGet(cache, key)) \subseteq Range(cache)
         /\ Single(cache) => Range(LruGet(cache, key)) = Range(cache)
<1> DEFINE I == {i \in DOMAIN cache : cache[i].key # key}
           rest == Without(cache, key)
           found == Entry(cache, key)
<1>1. CASE ~Has(cache, key) BY <1>1 DEF LruGet
<1>2. CASE Has(cache, key)
  <2>1. rest \in Seq(S) /\ Range(rest) = {cache[i] : i \in I} BY OnlyKeeps DEF Without
  <2>2. found \in Range(cache) /\ found.key = key BY <1>2, Entries
  <2>3. LruGet(cache, key) = <<found>> \o rest BY <1>2 DEF LruGet
  <2>4. found \in S BY <2>2 DEF Range
  <2> HIDE DEF rest, found
  <2>5. <<found>> \o rest \in Seq(S) /\ Range(<<found>> \o rest) = {found} \cup Range(rest)
    BY <2>1, <2>4, Prepended
  <2>6. Range(rest) = {e \in Range(cache) : e.key # key} BY <2>1 DEF Range
  <2>7. {found} \cup Range(rest) \subseteq Range(cache) BY <2>2, <2>6
  <2>8. ASSUME Single(cache) PROVE Range(cache) \subseteq {found} \cup Range(rest)
    BY <2>2, <2>6, <2>8 DEF Single
  <2> QED BY <2>3, <2>5, <2>7, <2>8
<1> QED BY <1>1, <1>2

\* After a put the cache holds the new entry and, of other keys, at most what it
\* held before.
LEMMA LruPutKeeps ==
  ASSUME NEW S, NEW cache \in Seq(S), NEW entry \in S, NEW maxSize \in Nat \ {0}
  PROVE  LET put == LruPut(cache, entry, maxSize) IN
         /\ put \in Seq(S)
         /\ entry \in Range(put)
         /\ \A e \in Range(put) : e = entry \/ (e \in Range(cache) /\ e.key # entry.key)
<1> DEFINE rest == IF Has(cache, entry.key) THEN Without(cache, entry.key)
                   ELSE SubSeq(cache, 1, Min({Len(cache), maxSize - 1}))
<1>1. rest \in Seq(S) /\ \A e \in Range(rest) : e \in Range(cache) /\ e.key # entry.key
  <2>1. CASE Has(cache, entry.key)
    <3> DEFINE I == {i \in DOMAIN cache : cache[i].key # entry.key}
    <3>1. rest = Only(cache, I) BY <2>1 DEF Without
    <3>2. Only(cache, I) \in Seq(S) /\ Range(Only(cache, I)) = {cache[i] : i \in I} BY OnlyKeeps
    <3>3. {cache[i] : i \in I} = {e \in Range(cache) : e.key # entry.key} BY DEF Range
    <3> HIDE DEF rest
    <3> QED BY <3>1, <3>2, <3>3
  <2>2. CASE ~Has(cache, entry.key)
    <3> DEFINE m == Min({Len(cache), maxSize - 1})
    <3>1. rest = SubSeq(cache, 1, m) BY <2>2
    <3>2. m \in 0 .. Len(cache)
      <4>1. Len(cache) \in Nat /\ maxSize - 1 \in Nat OBVIOUS
      <4>2. \E x \in {Len(cache), maxSize - 1} : \A y \in {Len(cache), maxSize - 1} : x <= y
        BY <4>1
      <4>3. m \in {Len(cache), maxSize - 1} /\ \A y \in {Len(cache), maxSize - 1} : m <= y
        BY <4>2 DEF Min
      <4> QED BY <4>1, <4>3
    <3> HIDE DEF rest, m
    <3>3. rest \in Seq(S) /\ \A i \in DOMAIN rest : i \in DOMAIN cache /\ rest[i] = cache[i]
      <4>1. m \in Int /\ m <= Len(cache) /\ 0 <= m BY <3>2
      <4>2. rest \in Seq(S) /\ Len(rest) = m BY <3>1, <4>1
      <4>3. \A i \in 1 .. m : rest[i] = cache[i] BY <3>1, <4>1
      <4> QED BY <4>1, <4>2, <4>3
    <3>4. \A e \in Range(rest) : e \in Range(cache) BY <3>3 DEF Range
    <3> QED BY <2>2, <3>3, <3>4, Entries
  <2> QED BY <2>1, <2>2
<1>2. LruPut(cache, entry, maxSize) = <<entry>> \o rest BY DEF LruPut
<1> HIDE DEF rest
<1>3. /\ <<entry>> \o rest \in Seq(S)
      /\ Range(<<entry>> \o rest) = {entry} \cup Range(rest)
  BY <1>1, Prepended
<1> QED BY <1>1, <1>2, <1>3

\* Collections and removals only take elements away; a collection takes every
\* expired one, wherever it stands.
LEMMA LruGcKeeps ==
  ASSUME NEW S, NEW cache \in Seq(S), NEW maxAge
  PROVE  LruGc(cache, maxAge) \in Seq(S) /\ Range(LruGc(cache, maxAge)) = {e \in Range(cache) : e.age <= maxAge}
<1> DEFINE I == {i \in DOMAIN cache : cache[i].age <= maxAge}
<1>1. LruGc(cache, maxAge) \in Seq(S) /\ Range(LruGc(cache, maxAge)) = {cache[i] : i \in I}
  BY OnlyKeeps DEF LruGc
<1>2. {cache[i] : i \in I} = {e \in Range(cache) : e.age <= maxAge} BY DEF Range
<1> QED BY <1>1, <1>2

LEMMA AnnGcKeeps ==
  ASSUME NEW S, NEW peers \in Seq(S), NEW ttl
  PROVE  AnnGc(peers, ttl) \in Seq(S) /\ Range(AnnGc(peers, ttl)) = {a \in Range(peers) : a.age <= ttl}
BY LruGcKeeps DEF LruGc, AnnGc

LEMMA AnnRemoveKeeps ==
  ASSUME NEW S, NEW peers \in Seq(S), NEW from
  PROVE  AnnRemove(peers, from) \in Seq(S) /\ Range(AnnRemove(peers, from)) \subseteq Range(peers)
<1> DEFINE I == {i \in DOMAIN peers : peers[i].from # from}
<1>1. AnnRemove(peers, from) \in Seq(S) /\ Range(AnnRemove(peers, from)) = {peers[i] : i \in I}
  BY OnlyKeeps DEF AnnRemove
<1>2. {peers[i] : i \in I} \subseteq Range(peers) BY DEF Range
<1> QED BY <1>1, <1>2

LEMMA AnnPutKeeps ==
  ASSUME NEW S, NEW peers \in Seq(S), NEW ann \in S, NEW maxPeers
  PROVE  AnnPut(peers, ann, maxPeers) \in Seq(S) /\ Range(AnnPut(peers, ann, maxPeers)) \subseteq Range(peers) \cup {ann}
<1>1. ASSUME NEW i
      PROVE  [peers EXCEPT ![i] = ann] \in Seq(S) /\ Range([peers EXCEPT ![i] = ann]) \subseteq Range(peers) \cup {ann}
  <2> DEFINE p == [peers EXCEPT ![i] = ann]
  <2>1. p = [j \in DOMAIN peers |-> IF j = i THEN ann ELSE peers[j]] OBVIOUS
  <2>2. DOMAIN peers = 1 .. Len(peers) /\ Len(peers) \in Nat /\ \A j \in DOMAIN peers : peers[j] \in S OBVIOUS
  <2>3. DOMAIN p = DOMAIN peers /\ \A j \in DOMAIN p : p[j] = peers[j] \/ p[j] = ann BY <2>1
  <2>4. p \in [1 .. Len(peers) -> S] BY <2>1, <2>2
  <2>5. p \in Seq(S) BY <2>2, <2>4
  <2> HIDE DEF p
  <2>6. Range(p) \subseteq Range(peers) \cup {ann} BY <2>3 DEF Range
  <2> QED BY <2>5, <2>6 DEF p
<1>2. Append(peers, ann) \in Seq(S) /\ Range(Append(peers, ann)) \subseteq Range(peers) \cup {ann}
  <2> DEFINE p == Append(peers, ann)
  <2>1. p \in Seq(S) /\ Len(p) = Len(peers) + 1 /\ p[Len(p)] = ann /\ Len(peers) \in Nat
    OBVIOUS
  <2>2. \A i \in 1 .. Len(peers) : p[i] = peers[i] OBVIOUS
  <2> HIDE DEF p
  <2>3. \A i \in DOMAIN p : p[i] = ann \/ p[i] \in Range(peers) BY <2>1, <2>2 DEF Range
  <2>4. Range(p) \subseteq Range(peers) \cup {ann} BY <2>3 DEF Range
  <2> QED BY <2>1, <2>4 DEF p
<1> QED BY <1>1, <1>2 DEF AnnPut

\* Time passes for every element.
LEMMA AgedKeeps ==
  ASSUME NEW S, NEW list \in Seq(S), \A e \in S : Older(e) \in S
  PROVE  Aged(list) \in Seq(S) /\ Range(Aged(list)) = {Older(e) : e \in Range(list)}
<1>1. DOMAIN list = 1 .. Len(list) /\ Len(list) \in Nat /\ \A i \in DOMAIN list : list[i] \in S OBVIOUS
<1>2. Aged(list) \in [1 .. Len(list) -> S] BY <1>1 DEF Aged
<1>3. Aged(list) \in Seq(S) BY <1>1, <1>2
<1> QED BY <1>1, <1>3 DEF Aged, Range

-----------------------------------------------------------------------------
(* Tokens.                                                                 *)

Secrets == [root : {1, 2}, hashed : Nat]
Tokens == [node : Nodes, secret : Secrets, issued : Nat]
Commands == {"MUTABLE_PUT", "IMMUTABLE_PUT", "ANNOUNCE", "UNANNOUNCE", "none"}
Messages == [cmd : Commands, from : Clients, key : Keys, seq : Nat, val : Values, token : Tokens]

\* The rotation period in which a secret is the current one.
Period(s) == IF s.root = 1 THEN 2 * s.hashed ELSE 2 * s.hashed - 1

\* A token was made from the secret of the period it was issued in.
Genuine(t) ==
  /\ t \in Tokens
  /\ Period(t.secret) = t.issued
  /\ t.issued <= rotations[t.node]

HasFields(r, F) == DOMAIN r = F /\ r = [f \in F |-> r[f]]
OpFields == {"kind", "phase", "key", "seq", "val", "latest", "asked", "lost", "tokens", "result", "floor"}

OpShape(o) ==
  /\ HasFields(o, OpFields)
  /\ o.key \in Keys /\ o.seq \in Nat /\ o.val \in Values /\ o.result \in Nat /\ o.floor \in Nat
OpOk(o) == OpShape(o) /\ \A t \in o.tokens : Genuine(t)

Ops == DOMAIN op = Clients /\ \A c \in Clients : OpOk(op[c])
Net == net \subseteq Messages /\ \A m \in net : Genuine(m.token)
Relays == DOMAIN relays = Clients /\ \A c \in Clients : \A t \in relays[c] : Genuine(t)
TwoSecrets ==
  /\ cur \in [Nodes -> Secrets] /\ prev \in [Nodes -> Secrets] /\ rotations \in [Nodes -> Nat]
  /\ \A n \in Nodes : Period(cur[n]) = rotations[n] /\ Period(prev[n]) = rotations[n] - 1

\* Every token, wherever it is kept, names the rotation period it was issued in,
\* and a node holds the secrets of this and of the last period.
TokenInv == load \in Loads /\ TwoSecrets /\ Ops /\ Net /\ Relays

\* A secret is current in one period only.
LEMMA PeriodInjective ==
  ASSUME NEW s \in Secrets, NEW t \in Secrets, Period(s) = Period(t)
  PROVE  s = t
<1>1. /\ s.root \in {1, 2} /\ s.hashed \in Nat /\ t.root \in {1, 2} /\ t.hashed \in Nat
      /\ s = [root |-> s.root, hashed |-> s.hashed] /\ t = [root |-> t.root, hashed |-> t.hashed]
  BY DEF Secrets
<1>2. s.root = t.root /\ s.hashed = t.hashed BY <1>1 DEF Period
<1> QED BY <1>1, <1>2

\* TokenWindow is what the invariant says about the tokens of the commits.
LEMMA TokenInvImpliesWindow == TokenInv => TokenWindow
<1> SUFFICES ASSUME TokenInv, NEW m \in net
             PROVE  Validate(m.token.node, m.token) <=> rotations[m.token.node] - m.token.issued <= 1
  BY DEF TokenWindow
<1> DEFINE t == m.token
           n == t.node
<1>1. Genuine(t) BY DEF TokenInv, Net
<1>2. n \in Nodes /\ t.secret \in Secrets /\ t.issued \in Nat BY <1>1 DEF Genuine, Tokens
<1>3. /\ cur[n] \in Secrets /\ prev[n] \in Secrets /\ rotations[n] \in Nat
      /\ Period(cur[n]) = rotations[n] /\ Period(prev[n]) = rotations[n] - 1
  BY <1>2 DEF TokenInv, TwoSecrets
<1>4. Period(t.secret) = t.issued /\ t.issued <= rotations[n] BY <1>1 DEF Genuine
<1> HIDE DEF t, n
<1>5. t.secret = cur[n] <=> t.issued = rotations[n] BY <1>2, <1>3, <1>4, PeriodInjective
<1>6. t.secret = prev[n] <=> t.issued = rotations[n] - 1 BY <1>2, <1>3, <1>4, PeriodInjective
<1>7. Validate(n, t) <=> rotations[n] - t.issued <= 1 BY <1>2, <1>3, <1>4, <1>5, <1>6 DEF Validate
<1> QED BY <1>7 DEF t, n

\* A new token is genuine.
LEMMA CreateGenuine ==
  ASSUME TokenInv, NEW n \in Nodes
  PROVE  Genuine(Create(n))
<1>1. cur[n] \in Secrets /\ rotations[n] \in Nat /\ Period(cur[n]) = rotations[n] BY DEF TokenInv, TwoSecrets
<1> DEFINE t == Create(n)
<1>2. t \in Tokens /\ t.secret = cur[n] /\ t.issued = rotations[n] /\ t.node = n BY <1>1 DEF Create, Tokens
<1> HIDE DEF t
<1>3. Genuine(t) BY <1>1, <1>2 DEF Genuine
<1> QED BY <1>3 DEF t

\* Steps that leave load, the secrets and the rotations alone.
LEMMA TokensKept ==
  ASSUME TokenInv, UNCHANGED <<load, cur, prev, rotations>>
  PROVE  load' \in Loads /\ TwoSecrets' /\ \A t : Genuine(t)' <=> Genuine(t)
BY DEF TokenInv, TwoSecrets, Genuine

\* The message of an operation carries its key, its version and its value.
LEMMA MessageShape ==
  ASSUME NEW c \in Clients, NEW cmd \in Commands, NEW o, OpShape(o), NEW t \in Tokens
  PROVE  Message(c, cmd, o, t) \in Messages /\ Message(c, cmd, o, t).token = t
BY DEF Message, Messages, OpShape

\* An operation that has not read anything yet.
Fresh(o) == OpShape(o) /\ o.tokens = {} /\ o.result = 0 /\ o.floor = 0

\* No operation, and each operation at its beginning, has read nothing.
LEMMA IdleFresh == Fresh(Idle)
<1> DEFINE r(k, v) == [kind |-> "none", phase |-> "idle", key |-> k, seq |-> 0, val |-> v, latest |-> TRUE,
                       asked |-> {}, lost |-> {}, tokens |-> {}, result |-> 0, floor |-> 0]
<1>0. ASSUME NEW k, NEW v PROVE HasFields(r(k, v), OpFields)
  <2>1. DOMAIN r(k, v) = OpFields BY DEF OpFields
  <2>2. r(k, v) = [f \in DOMAIN r(k, v) |-> r(k, v)[f]] OBVIOUS
  <2> QED BY <2>1, <2>2 DEF HasFields
<1>1. HasFields(Idle, OpFields)
  <2>1. Idle = r(CHOOSE k \in Keys : TRUE, CHOOSE v \in Values : TRUE) BY DEF Idle
  <2> HIDE DEF r
  <2> QED BY <1>0, <2>1
<1>2. Idle.key \in Keys /\ Idle.val \in Values BY StorageAssumption DEF Idle
<1>3. Idle.seq = 0 /\ Idle.result = 0 /\ Idle.floor = 0 /\ Idle.tokens = {} BY DEF Idle
<1> QED BY <1>1, <1>2, <1>3 DEF Fresh, OpShape

LEMMA OperationFresh ==
  ASSUME NEW kind, NEW key \in Keys
  PROVE  Fresh(Operation(kind, key)) /\ Operation(kind, key).kind = kind
<1> DEFINE o == Operation(kind, key)
<1>1. HasFields(Idle, OpFields) BY IdleFresh DEF Fresh, OpShape
<1>2. HasFields(o, OpFields) BY <1>1 DEF Operation, HasFields
<1>3. /\ o.kind = kind /\ o.key = key /\ o.seq = Idle.seq /\ o.val = Idle.val
      /\ o.tokens = Idle.tokens /\ o.result = Idle.result /\ o.floor = Idle.floor
  BY <1>1 DEF Operation, HasFields, OpFields
<1> HIDE DEF o
<1>4. Fresh(o) BY <1>2, <1>3, IdleFresh DEF Fresh, OpShape
<1> QED BY <1>3, <1>4 DEF o

LEMMA MutablePutFresh ==
  ASSUME NEW key \in Keys, NEW seq \in Nat, NEW val \in Values
  PROVE  Fresh(MutablePutOp(key, seq, val))
<1> DEFINE p == Operation("mutable_put", key)
           o == MutablePutOp(key, seq, val)
<1>1. Fresh(p) BY OperationFresh
<1>2. o = [p EXCEPT !.seq = seq, !.val = val] BY DEF MutablePutOp
<1>3. HasFields(p, OpFields) BY <1>1 DEF Fresh, OpShape
<1> HIDE DEF p, o
<1>4. HasFields(o, OpFields) BY <1>2, <1>3 DEF HasFields
<1>5. /\ o.key = p.key /\ o.seq = seq /\ o.val = val
      /\ o.tokens = p.tokens /\ o.result = p.result /\ o.floor = p.floor
  BY <1>2, <1>3 DEF HasFields, OpFields
<1>6. Fresh(o) BY <1>1, <1>4, <1>5 DEF Fresh, OpShape
<1> QED BY <1>6 DEF o

LEMMA MutableGetFresh ==
  ASSUME NEW key \in Keys, NEW seq \in Nat, NEW latest
  PROVE  Fresh(MutableGetOp(key, seq, latest))
<1> DEFINE p == Operation("mutable_get", key)
           o == MutableGetOp(key, seq, latest)
<1>1. Fresh(p) BY OperationFresh
<1>2. o = [p EXCEPT !.seq = seq, !.latest = latest] BY DEF MutableGetOp
<1>3. HasFields(p, OpFields) BY <1>1 DEF Fresh, OpShape
<1> HIDE DEF p, o
<1>4. HasFields(o, OpFields) BY <1>2, <1>3 DEF HasFields
<1>5. /\ o.key = p.key /\ o.seq = seq /\ o.val = p.val
      /\ o.tokens = p.tokens /\ o.result = p.result /\ o.floor = p.floor
  BY <1>2, <1>3 DEF HasFields, OpFields
<1>6. Fresh(o) BY <1>1, <1>4, <1>5 DEF Fresh, OpShape
<1> QED BY <1>6 DEF o

\* What the scenario offers is of the right kind.
LEMMA LoadShape ==
  ASSUME load \in Loads
  PROVE  /\ load.nodes \subseteq Nodes /\ load.clients \subseteq Clients /\ load.keys \subseteq Keys
         /\ load.seqs \subseteq Nat /\ load.values \subseteq Values
         /\ \A c \in Clients : load.target[c] \in Keys
BY StorageAssumption

\* The beginnings of operations.
Begins(c) ==
  \/ ImmutablePut(c) \/ ImmutableGet(c) \/ MutablePut(c) \/ MutableGet(c)
  \/ Lookup(c) \/ FindPeer(c) \/ Announce(c) \/ Unannounce(c) \/ AnnouncerUpdate(c)

\* Every beginning is the beginning of an operation that has read nothing.
LEMMA BeginsFresh ==
  ASSUME load \in Loads, NEW c \in load.clients, Begins(c)
  PROVE  c \in Clients /\ \E o : Fresh(o) /\ Begin(c, o)
<1>1. /\ c \in Clients /\ load.keys \subseteq Keys /\ load.seqs \subseteq Nat /\ load.values \subseteq Values
      /\ load.target[c] \in Keys
  BY LoadShape
<1>2. CASE ImmutablePut(c) BY <1>1, <1>2, OperationFresh DEF ImmutablePut, ImmutablePutOp
<1>3. CASE ImmutableGet(c) BY <1>1, <1>3, OperationFresh DEF ImmutableGet, ImmutableGetOp
<1>4. CASE MutablePut(c) BY <1>1, <1>4, MutablePutFresh DEF MutablePut
<1>5. CASE MutableGet(c)
  <2>1. PICK k \in load.keys, s \in load.seqs \cup {0}, l \in BOOLEAN : Begin(c, MutableGetOp(k, s, l))
    BY <1>5 DEF MutableGet
  <2>2. k \in Keys /\ s \in Nat BY <1>1
  <2>3. Fresh(MutableGetOp(k, s, l)) BY <2>2, MutableGetFresh
  <2> QED BY <1>1, <2>1, <2>3
<1>6. CASE Lookup(c) BY <1>1, <1>6, OperationFresh DEF Lookup, LookupOp
<1>7. CASE FindPeer(c) BY <1>1, <1>7, OperationFresh DEF FindPeer, FindPeerOp
<1>8. CASE Announce(c) BY <1>1, <1>8, OperationFresh DEF Announce, AnnounceOp
<1>9. CASE Unannounce(c) BY <1>1, <1>9, OperationFresh DEF Unannounce
<1>10. CASE AnnouncerUpdate(c) BY <1>1, <1>10, OperationFresh DEF AnnouncerUpdate
<1> QED BY <1>2, <1>3, <1>4, <1>5, <1>6, <1>7, <1>8, <1>9, <1>10 DEF Begins

\* A reply adds a token, and for a mutable_get a version to the operation.
LEMMA OnReplyShape ==
  ASSUME NEW o, OpShape(o), NEW n, acked[n][o.key] \in Nat, MutableReply(n, o.key, o.seq) \in Nat
  PROVE  LET p == OnReply(o, n) IN
         /\ OpShape(p) /\ p.kind = o.kind /\ p.latest = o.latest
         /\ p.tokens = o.tokens \cup {Create(n)}
         /\ o.kind = "mutable_get" /\ o.latest =>
              /\ p.result >= o.result /\ p.result >= MutableReply(n, o.key, o.seq)
              /\ p.floor = o.floor \/ (p.floor = acked[n][o.key] /\ acked[n][o.key] >= o.seq)
<1> DEFINE asked == [o EXCEPT !.asked = @ \cup {n}, !.tokens = @ \cup {Create(n)}]
           seq == MutableReply(n, o.key, o.seq)
           known == IF acked[n][o.key] >= o.seq THEN Max({o.floor, acked[n][o.key]}) ELSE o.floor
           a == [asked EXCEPT !.floor = known]
           k == Keep(a, seq)
           m == [k EXCEPT !.phase = IF seq > 0 /\ ~o.latest THEN "done" ELSE "walk"]
           i == [asked EXCEPT !.result = 1, !.phase = "done"]
           p == OnReply(o, n)
<1>1. p = CASE o.kind = "mutable_get" -> m
            [] o.kind = "immutable_get" /\ Has(immutables[n], o.key) -> i
            [] OTHER -> asked
  BY DEF OnReply
<1>2. HasFields(o, OpFields) /\ o.key \in Keys /\ o.seq \in Nat /\ o.val \in Values /\ o.result \in Nat /\ o.floor \in Nat
  BY DEF OpShape
<1>3. HasFields(asked, OpFields) BY <1>2 DEF HasFields
<1>4. /\ asked.kind = o.kind /\ asked.latest = o.latest /\ asked.key = o.key /\ asked.seq = o.seq /\ asked.val = o.val
      /\ asked.result = o.result /\ asked.floor = o.floor /\ asked.tokens = o.tokens \cup {Create(n)}
  BY <1>2 DEF HasFields, OpFields
<1>5. known \in Nat /\ (known = o.floor \/ (known = acked[n][o.key] /\ acked[n][o.key] >= o.seq))
  <2>1. Max({o.floor, acked[n][o.key]}) \in {o.floor, acked[n][o.key]}
    <3>1. \E x \in {o.floor, acked[n][o.key]} : \A y \in {o.floor, acked[n][o.key]} : x >= y BY <1>2
    <3> QED BY <3>1 DEF Max
  <2> QED BY <1>2, <2>1
<1> HIDE DEF asked, known, p
<1>6. HasFields(a, OpFields) BY <1>3 DEF HasFields
<1>7. /\ a.kind = o.kind /\ a.latest = o.latest /\ a.key = o.key /\ a.seq = o.seq /\ a.val = o.val
      /\ a.result = o.result /\ a.floor = known /\ a.tokens = o.tokens \cup {Create(n)}
  BY <1>3, <1>4 DEF HasFields, OpFields
<1> HIDE DEF a, seq
<1>8. HasFields(k, OpFields) BY <1>6 DEF HasFields, Keep
<1>9. /\ k.kind = o.kind /\ k.latest = o.latest /\ k.key = o.key /\ k.seq = o.seq /\ k.val = o.val
      /\ k.floor = known /\ k.tokens = o.tokens \cup {Create(n)}
      /\ k.result = IF seq > o.result /\ (o.latest \/ o.result = 0) THEN seq ELSE o.result
  BY <1>6, <1>7 DEF HasFields, OpFields, Keep
<1> HIDE DEF k
<1>10. HasFields(m, OpFields) BY <1>8 DEF HasFields
<1>11. /\ m.kind = o.kind /\ m.latest = o.latest /\ m.key = o.key /\ m.seq = o.seq /\ m.val = o.val
       /\ m.floor = known /\ m.tokens = o.tokens \cup {Create(n)} /\ m.result = k.result
  BY <1>8, <1>9 DEF HasFields, OpFields
<1>12. HasFields(i, OpFields) BY <1>3 DEF HasFields
<1>13. /\ i.kind = o.kind /\ i.latest = o.latest /\ i.key = o.key /\ i.seq = o.seq /\ i.val = o.val
       /\ i.floor = o.floor /\ i.tokens = o.tokens \cup {Create(n)} /\ i.result = 1
  BY <1>3, <1>4 DEF HasFields, OpFields
<1> HIDE DEF m, i
<1>14. seq \in Nat BY DEF seq
<1>15. CASE o.kind = "mutable_get"
  <2>1. p = m BY <1>1, <1>15
  <2>2. OpShape(p) BY <1>2, <1>5, <1>9, <1>10, <1>11, <1>14, <2>1 DEF OpShape
  <2>3. o.latest => p.result >= o.result /\ p.result >= seq BY <1>2, <1>9, <1>11, <1>14, <2>1
  <2> QED BY <1>5, <1>11, <2>1, <2>2, <2>3 DEF p, seq
<1>16. CASE o.kind # "mutable_get"
  <2>1. p = i \/ p = asked BY <1>1, <1>16
  <2>2. CASE p = i
    <3>1. OpShape(p) BY <1>2, <1>12, <1>13, <2>2 DEF OpShape
    <3> QED BY <1>13, <1>16, <2>2, <3>1 DEF p
  <2>3. CASE p = asked
    <3>1. OpShape(p) BY <1>2, <1>3, <1>4, <2>3 DEF OpShape
    <3> QED BY <1>4, <1>16, <2>3, <3>1 DEF p
  <2> QED BY <2>1, <2>2, <2>3
<1> QED BY <1>15, <1>16

-----------------------------------------------------------------------------
(* The tables.                                                             *)

Mutables == [key : Keys, seq : Nat, val : Values, age : Nat]
Immutables == [key : Keys, age : Nat]
PeerRecords == [from : Clients, age : Nat]

TableShape ==
  /\ mutables \in [Nodes -> Seq(Mutables)]
  /\ immutables \in [Nodes -> Seq(Immutables)]
  /\ store \in [Nodes -> [Keys -> Seq(PeerRecords)]]
  /\ acked \in [Nodes -> [Keys -> Nat]]

\* Between two collections an entry outlives its time by no more than the time
\* since the last one.
MutableAges == \A n \in Nodes : \A e \in Range(mutables[n]) : e.age <= Ttl + clock
ImmutableAges == \A n \in Nodes : \A e \in Range(immutables[n]) : e.age <= Ttl + clock
PeerAges == \A n \in Nodes, k \in Keys : \A e \in Range(store[n][k]) : e.age <= AnnTtl + clock

TableInv == clock \in 0 .. GcEvery - 1 /\ TableShape /\ MutableAges /\ ImmutableAges /\ PeerAges

\* A node holds each record it acknowledged in that version or a newer one; where
\* it holds none, none counts as acknowledged.
Holds(n) ==
  /\ Single(mutables[n])
  /\ \A e \in Range(mutables[n]) : acked[n][e.key] <= e.seq
  /\ \A k \in Keys : acked[n][k] > 0 => Has(mutables[n], k)

\* A get keeps up with what the nodes that answered it have acknowledged.
KeepsUp(o) == o.kind = "mutable_get" /\ o.latest => o.result >= o.floor

ReadInv == (\A n \in Nodes : Holds(n)) /\ (\A c \in Clients : KeepsUp(op[c]))

\* What a node answers is a version.
LEMMA ReplyIsVersion ==
  ASSUME TableInv, NEW n \in Nodes, NEW key \in Keys, NEW seq \in Nat
  PROVE  MutableReply(n, key, seq) \in Nat /\ acked[n][key] \in Nat
<1>1. mutables[n] \in Seq(Mutables) /\ acked[n][key] \in Nat BY DEF TableInv, TableShape
<1>2. Has(mutables[n], key) => Entry(mutables[n], key).seq \in Nat
  <2>1. \A e \in Range(mutables[n]) : e \in Mutables BY <1>1 DEF Range
  <2> QED BY <2>1, Entries DEF Mutables
<1> QED BY <1>1, <1>2 DEF MutableReply

-----------------------------------------------------------------------------
(* Steps and the tokens.                                                   *)

\* Steps that leave the secrets alone, and whose tokens are genuine.
LEMMA TokenStep ==
  ASSUME TokenInv, UNCHANGED <<load, cur, prev, rotations>>,
         DOMAIN op' = Clients, \A c \in Clients : OpOk(op'[c]),
         net' \subseteq Messages, \A m \in net' : Genuine(m.token),
         DOMAIN relays' = Clients, \A c \in Clients : \A t \in relays'[c] : Genuine(t)
  PROVE  TokenInv'
<1>1. load' \in Loads /\ TwoSecrets' /\ \A t : Genuine(t)' <=> Genuine(t) BY TokensKept
<1>2. Ops' BY <1>1 DEF Ops, OpOk
<1>3. Net' /\ Relays' BY <1>1 DEF Net, Relays
<1> QED BY <1>1, <1>2, <1>3 DEF TokenInv

\* One operation changes; it stays in order.
LEMMA OneOp ==
  ASSUME TokenInv, NEW c \in Clients, NEW o, OpOk(o), op' = [op EXCEPT ![c] = o]
  PROVE  DOMAIN op' = Clients /\ (\A d \in Clients : OpOk(op'[d])) /\ op'[c] = o /\ \A d \in Clients \ {c} : op'[d] = op[d]
<1>1. \A d \in Clients : op'[d] = (IF d = c THEN o ELSE op[d]) BY DEF TokenInv, Ops
<1>2. DOMAIN op' = Clients BY DEF TokenInv, Ops
<1>3. \A d \in Clients : OpOk(op'[d]) BY <1>1 DEF TokenInv, Ops
<1> QED BY <1>1, <1>2, <1>3

\* Parts of the invariant as TokenStep asks for them.
LEMMA TokenFacts ==
  ASSUME TokenInv
  PROVE  /\ load \in Loads
         /\ DOMAIN op = Clients /\ \A c \in Clients : OpOk(op[c])
         /\ net \subseteq Messages /\ \A m \in net : Genuine(m.token)
         /\ DOMAIN relays = Clients /\ \A c \in Clients : \A t \in relays[c] : Genuine(t)
BY DEF TokenInv, Ops, Net, Relays

\* What was asked and lost says nothing about tokens.
LEMMA UnansweredOk ==
  ASSUME NEW o, OpOk(o), NEW n, NEW lost
  PROVE  LET p == Unanswered(o, n, lost) IN OpOk(p) /\ p.kind = o.kind /\ p.latest = o.latest
                /\ p.result = o.result /\ p.floor = o.floor
<1> DEFINE p == Unanswered(o, n, lost)
<1>1. HasFields(o, OpFields) BY DEF OpOk, OpShape
<1>2. HasFields(p, OpFields) BY <1>1 DEF HasFields, Unanswered
<1>3. /\ p.kind = o.kind /\ p.latest = o.latest /\ p.key = o.key /\ p.seq = o.seq /\ p.val = o.val
      /\ p.floor = o.floor /\ p.tokens = o.tokens /\ p.result = o.result
  BY <1>1 DEF HasFields, OpFields, Unanswered
<1> HIDE DEF p
<1>4. OpOk(p) BY <1>2, <1>3 DEF OpOk, OpShape
<1> QED BY <1>3, <1>4 DEF p

LEMMA EndedOk ==
  ASSUME NEW o, OpOk(o)
  PROVE  LET p == Ended(o) IN OpOk(p) /\ p.kind = o.kind /\ p.latest = o.latest
                /\ p.result = o.result /\ p.floor = o.floor
<1> DEFINE p == Ended(o)
<1>1. HasFields(o, OpFields) BY DEF OpOk, OpShape
<1>2. HasFields(p, OpFields) BY <1>1 DEF HasFields, Ended
<1>3. /\ p.kind = o.kind /\ p.latest = o.latest /\ p.key = o.key /\ p.seq = o.seq /\ p.val = o.val
      /\ p.floor = o.floor /\ p.tokens = o.tokens /\ p.result = o.result
  BY <1>1 DEF HasFields, OpFields, Ended
<1> HIDE DEF p
<1>4. OpOk(p) BY <1>2, <1>3 DEF OpOk, OpShape
<1> QED BY <1>3, <1>4 DEF p

LEMMA FreshOk == ASSUME NEW o, Fresh(o) PROVE OpOk(o)
BY DEF Fresh, OpOk

LEMMA BeginTokens ==
  ASSUME TokenInv, NEW c \in Clients, NEW o, Fresh(o), Begin(c, o)
  PROVE  TokenInv'
<1>1. UNCHANGED <<load, cur, prev, rotations, net, relays>> /\ op' = [op EXCEPT ![c] = o] BY DEF Begin, nodeVars
<1>2. DOMAIN op' = Clients /\ \A d \in Clients : OpOk(op'[d]) BY <1>1, OneOp, FreshOk
<1> QED BY <1>1, <1>2, TokenStep, TokenFacts

LEMMA AnnouncerStopTokens ==
  ASSUME TokenInv, NEW c \in Clients, AnnouncerStop(c)
  PROVE  TokenInv'
<1> DEFINE o == Operation("announcer", load.target[c])
           sent == {Message(c, "UNANNOUNCE", o, t) : t \in relays[c]}
<1>1. /\ UNCHANGED <<load, cur, prev, rotations, op>> /\ net' = net \cup sent
      /\ relays' = [relays EXCEPT ![c] = {}]
  BY DEF AnnouncerStop, nodeVars
<1>2. OpShape(o) BY TokenFacts, LoadShape, OperationFresh DEF Fresh
<1> HIDE DEF o
<1>3. \A t \in relays[c] : Genuine(t) /\ t \in Tokens BY TokenFacts DEF Genuine
<1>4. \A m \in sent : m \in Messages /\ Genuine(m.token) BY <1>2, <1>3, MessageShape DEF Commands
<1> HIDE DEF sent
<1>5. net' \subseteq Messages /\ \A m \in net' : Genuine(m.token) BY <1>1, <1>4, TokenFacts
<1>6. DOMAIN relays' = Clients /\ \A d \in Clients : \A t \in relays'[d] : Genuine(t) BY <1>1, TokenFacts
<1> QED BY <1>1, <1>5, <1>6, TokenStep, TokenFacts

LEMMA VisitTokens ==
  ASSUME TokenInv, TableInv, NEW c \in Clients, NEW n \in Nodes, Visit(c, n)
  PROVE  TokenInv'
<1>1. OpOk(op[c]) /\ OpShape(op[c]) /\ op[c].key \in Keys /\ op[c].seq \in Nat BY TokenFacts DEF OpOk, OpShape
<1>2. UNCHANGED <<load, cur, prev, rotations, relays>> BY DEF Visit
<1>3. ASSUME op' = [op EXCEPT ![c] = OnReply(@, n)], net' = net \cup OnReplySends(c, n) PROVE TokenInv'
  <2> DEFINE p == OnReply(op[c], n)
             sends == OnReplySends(c, n)
  <2>1. OpShape(p) /\ p.tokens = op[c].tokens \cup {Create(n)} BY <1>1, ReplyIsVersion, OnReplyShape
  <2>2. Genuine(Create(n)) /\ Create(n) \in Tokens BY CreateGenuine DEF Genuine
  <2>3. op' = [op EXCEPT ![c] = p] BY <1>3
  <2> HIDE DEF p
  <2>4. OpOk(p) BY <1>1, <2>1, <2>2 DEF OpOk
  <2>5. DOMAIN op' = Clients /\ \A d \in Clients : OpOk(op'[d]) BY <2>3, <2>4, OneOp
  <2>6. \A m \in sends : m \in Messages /\ Genuine(m.token)
    <3> DEFINE m == Message(c, "ANNOUNCE", op[c], Create(n))
    <3>1. m \in Messages /\ m.token = Create(n) BY <1>1, <2>2, MessageShape DEF Commands
    <3>2. sends = {m} \/ sends = {} BY DEF OnReplySends
    <3> HIDE DEF m, sends
    <3> QED BY <2>2, <3>1, <3>2
  <2> HIDE DEF sends
  <2>7. net' \subseteq Messages /\ \A m \in net' : Genuine(m.token) BY <1>3, <2>6, TokenFacts DEF sends
  <2> QED BY <1>2, <2>5, <2>7, TokenStep, TokenFacts
<1>4. ASSUME NEW l, op' = [op EXCEPT ![c] = Unanswered(@, n, l)], net' = net PROVE TokenInv'
  <2>1. op' = [op EXCEPT ![c] = Unanswered(op[c], n, l)] BY <1>4
  <2>2. OpOk(Unanswered(op[c], n, l)) BY <1>1, UnansweredOk
  <2>3. DOMAIN op' = Clients /\ \A d \in Clients : OpOk(op'[d]) BY <2>1, <2>2, OneOp
  <2> QED BY <1>2, <1>4, <2>3, TokenStep, TokenFacts
<1> QED BY <1>3, <1>4 DEF Visit

LEMMA LoseQuestionTokens ==
  ASSUME TokenInv, NEW c \in Clients, NEW n, LoseQuestion(c, n)
  PROVE  TokenInv'
<1>1. UNCHANGED <<load, cur, prev, rotations, net, relays>> /\ op' = [op EXCEPT ![c] = Unanswered(op[c], n, {n})]
  BY DEF LoseQuestion, nodeVars
<1>2. OpOk(Unanswered(op[c], n, {n}))
  <2>1. OpOk(op[c]) BY TokenFacts
  <2> QED BY <2>1, UnansweredOk
<1>3. DOMAIN op' = Clients /\ \A d \in Clients : OpOk(op'[d]) BY <1>1, <1>2, OneOp
<1> QED BY <1>1, <1>3, TokenStep, TokenFacts

LEMMA WalkEndsTokens ==
  ASSUME TokenInv, NEW c \in Clients, WalkEnds(c)
  PROVE  TokenInv'
<1> DEFINE sent == Commits(c)
<1>1. /\ UNCHANGED <<load, cur, prev, rotations, relays>> /\ op' = [op EXCEPT ![c] = Ended(op[c])]
      /\ net' = net \cup sent
  BY DEF WalkEnds, nodeVars
<1>2. OpOk(op[c]) BY TokenFacts
<1>3. DOMAIN op' = Clients /\ \A d \in Clients : OpOk(op'[d]) BY <1>1, <1>2, EndedOk, OneOp
<1>4. CommitCommand(op[c].kind) \in Commands BY DEF CommitCommand, Commands
<1>5. \A t \in op[c].tokens : Genuine(t) /\ t \in Tokens BY <1>2 DEF OpOk, Genuine
<1>6. \A m \in sent : m \in Messages /\ Genuine(m.token) BY <1>2, <1>4, <1>5, MessageShape DEF Commits, OpOk
<1> HIDE DEF sent
<1>7. net' \subseteq Messages /\ \A m \in net' : Genuine(m.token) BY <1>1, <1>6, TokenFacts
<1> QED BY <1>1, <1>3, <1>7, TokenStep, TokenFacts

LEMMA DoneTokens ==
  ASSUME TokenInv, NEW c \in Clients, Done(c)
  PROVE  TokenInv'
<1>1. UNCHANGED <<load, cur, prev, rotations, net, relays>> /\ op' = [op EXCEPT ![c] = Idle] BY DEF Done, nodeVars
<1>2. DOMAIN op' = Clients /\ \A d \in Clients : OpOk(op'[d]) BY <1>1, IdleFresh, FreshOk, OneOp
<1> QED BY <1>1, <1>2, TokenStep, TokenFacts

LEMMA ReceiveTokens ==
  ASSUME TokenInv, NEW m \in net, Receive(m)
  PROVE  TokenInv'
<1>1. UNCHANGED <<load, cur, prev, rotations, op, net>> BY DEF Receive
<1>2. CASE relays' = relays BY <1>1, <1>2, TokenStep, TokenFacts
<1>3. CASE relays' = [relays EXCEPT ![m.from] = KeepRelay(m.from, m.token)]
  <2>1. m.from \in Clients /\ Genuine(m.token) BY TokenFacts DEF Messages
  <2>2. \A t \in KeepRelay(m.from, m.token) : t = m.token \/ t \in relays[m.from] BY DEF KeepRelay
  <2>3. DOMAIN relays' = Clients /\ \A d \in Clients : \A t \in relays'[d] : Genuine(t) BY <1>3, <2>1, <2>2, TokenFacts
  <2> QED BY <1>1, <2>3, TokenStep, TokenFacts
<1> QED BY <1>2, <1>3 DEF Receive

LEMMA DropTokens ==
  ASSUME TokenInv, NEW m, Drop(m)
  PROVE  TokenInv'
<1>1. UNCHANGED <<load, cur, prev, rotations, op, relays>> /\ net' \subseteq net BY DEF Drop, nodeVars
<1> QED BY <1>1, TokenStep, TokenFacts

\* A rotation moves both secrets one period on; tokens keep their period.
LEMMA RotateTokensTokens ==
  ASSUME TokenInv, NEW n \in Nodes, RotateTokens(n)
  PROVE  TokenInv'
<1>1. /\ UNCHANGED <<load, op, net, relays>>
      /\ cur' = [cur EXCEPT ![n] = Hash(prev[n])] /\ prev' = [prev EXCEPT ![n] = cur[n]]
      /\ rotations' = [rotations EXCEPT ![n] = rotations[n] + 1]
  BY DEF RotateTokens, Rotate
<1>2. /\ cur \in [Nodes -> Secrets] /\ prev \in [Nodes -> Secrets] /\ rotations \in [Nodes -> Nat]
      /\ \A k \in Nodes : Period(cur[k]) = rotations[k] /\ Period(prev[k]) = rotations[k] - 1
  BY DEF TokenInv, TwoSecrets
<1>3. Hash(prev[n]) \in Secrets /\ Period(Hash(prev[n])) = rotations[n] + 1
  <2> DEFINE s == prev[n]
  <2>1. s \in Secrets /\ Period(s) = rotations[n] - 1 /\ rotations[n] \in Nat BY <1>2
  <2> HIDE DEF s
  <2>2. s.root \in {1, 2} /\ s.hashed \in Nat BY <2>1 DEF Secrets
  <2>3. Hash(s) \in Secrets /\ Hash(s).root = s.root /\ Hash(s).hashed = s.hashed + 1 BY <2>1 DEF Hash, Secrets
  <2>4. Period(Hash(s)) = Period(s) + 2 BY <2>2, <2>3 DEF Period
  <2> QED BY <2>1, <2>3, <2>4 DEF s
<1>4. TwoSecrets'
  <2>1. cur' \in [Nodes -> Secrets] /\ prev' \in [Nodes -> Secrets] /\ rotations' \in [Nodes -> Nat]
    BY <1>1, <1>2, <1>3
  <2>2. ASSUME NEW k \in Nodes PROVE Period(cur'[k]) = rotations'[k] /\ Period(prev'[k]) = rotations'[k] - 1
    <3>1. CASE k = n
      <4>1. cur'[k] = Hash(prev[n]) /\ prev'[k] = cur[n] /\ rotations'[k] = rotations[n] + 1 BY <3>1, <1>1, <1>2
      <4>2. Period(cur[n]) = rotations[n] /\ rotations[n] \in Nat BY <1>2
      <4> QED BY <4>1, <4>2, <1>3
    <3>2. CASE k # n
      <4>1. cur'[k] = cur[k] /\ prev'[k] = prev[k] /\ rotations'[k] = rotations[k] BY <3>2, <1>1, <1>2
      <4> QED BY <4>1, <1>2
    <3> QED BY <3>1, <3>2
  <2> QED BY <2>1, <2>2 DEF TwoSecrets
<1>5. \A t : Genuine(t) => Genuine(t)'
  <2> SUFFICES ASSUME NEW t, Genuine(t) PROVE Genuine(t)' OBVIOUS
  <2>1. t \in Tokens /\ t.node \in Nodes /\ t.issued \in Nat /\ Period(t.secret) = t.issued
        /\ t.issued <= rotations[t.node]
    BY DEF Genuine, Tokens
  <2>2. rotations'[t.node] >= rotations[t.node] /\ rotations[t.node] \in Nat /\ rotations'[t.node] \in Nat BY <1>1, <1>2, <2>1
  <2>3. t.issued <= rotations'[t.node] BY <2>1, <2>2
  <2> QED BY <2>1, <2>3 DEF Genuine
<1>6. load' \in Loads /\ Ops' BY <1>1, <1>5 DEF TokenInv, Ops, OpOk
<1>7. Net' /\ Relays' BY <1>1, <1>5 DEF TokenInv, Net, Relays
<1> QED BY <1>4, <1>6, <1>7 DEF TokenInv

-----------------------------------------------------------------------------
(* Steps and the tables.                                                   *)

LEMMA Elements ==
  ASSUME NEW S, NEW list \in Seq(S), NEW e \in Range(list)
  PROVE  e \in S
BY DEF Range

LEMMA Clocks ==
  ASSUME TableInv
  PROVE  clock \in Nat /\ clock < GcEvery /\ GcEvery \in Nat \ {0} /\ Ttl \in Nat /\ AnnTtl \in Nat /\ CacheMax \in Nat \ {0}
<1>1. GcEvery \in Nat \ {0} /\ CacheMax \in Nat \ {0} /\ Ttl \in Nat /\ AnnTtl \in Nat BY StorageAssumption
<1> QED BY <1>1 DEF TableInv

LEMMA TableFacts ==
  ASSUME TableInv, NEW n \in Nodes
  PROVE  /\ mutables[n] \in Seq(Mutables) /\ \A e \in Range(mutables[n]) : e.age <= Ttl + clock
         /\ immutables[n] \in Seq(Immutables) /\ \A e \in Range(immutables[n]) : e.age <= Ttl + clock
         /\ \A k \in Keys : /\ store[n][k] \in Seq(PeerRecords)
                            /\ \A e \in Range(store[n][k]) : e.age <= AnnTtl + clock
         /\ acked[n] \in [Keys -> Nat]
BY DEF TableInv, TableShape, MutableAges, ImmutableAges, PeerAges

\* The new state of the cache of one node, and nothing else.
LEMMA MutableTable ==
  ASSUME TableInv, NEW n \in Nodes, NEW cache \in Seq(Mutables), \A e \in Range(cache) : e.age <= Ttl + clock,
         mutables' = [mutables EXCEPT ![n] = cache], acked' \in [Nodes -> [Keys -> Nat]],
         UNCHANGED <<clock, immutables, store>>
  PROVE  TableInv'
<1>1. mutables' \in [Nodes -> Seq(Mutables)] BY DEF TableInv, TableShape
<1>2. \A k \in Nodes : mutables'[k] = IF k = n THEN cache ELSE mutables[k] BY DEF TableInv, TableShape
<1>3. TableShape' BY <1>1 DEF TableInv, TableShape
<1>4. MutableAges' BY <1>2 DEF TableInv, MutableAges
<1>5. ImmutableAges' /\ PeerAges' BY DEF TableInv, ImmutableAges, PeerAges
<1> QED BY <1>3, <1>4, <1>5 DEF TableInv

LEMMA ImmutableTable ==
  ASSUME TableInv, NEW n \in Nodes, NEW cache \in Seq(Immutables), \A e \in Range(cache) : e.age <= Ttl + clock,
         immutables' = [immutables EXCEPT ![n] = cache],
         UNCHANGED <<clock, mutables, store, acked>>
  PROVE  TableInv'
<1>1. immutables' \in [Nodes -> Seq(Immutables)] BY DEF TableInv, TableShape
<1>2. \A k \in Nodes : immutables'[k] = IF k = n THEN cache ELSE immutables[k] BY DEF TableInv, TableShape
<1>3. TableShape' BY <1>1 DEF TableInv, TableShape
<1>4. ImmutableAges' BY <1>2 DEF TableInv, ImmutableAges
<1>5. MutableAges' /\ PeerAges' BY DEF TableInv, MutableAges, PeerAges
<1> QED BY <1>3, <1>4, <1>5 DEF TableInv

LEMMA PeerTable ==
  ASSUME TableInv, NEW n \in Nodes, NEW key \in Keys, NEW list \in Seq(PeerRecords),
         \A e \in Range(list) : e.age <= AnnTtl + clock,
         store' = [store EXCEPT ![n][key] = list], UNCHANGED <<clock, mutables, immutables, acked>>
  PROVE  TableInv'
<1>1. store' \in [Nodes -> [Keys -> Seq(PeerRecords)]] BY DEF TableInv, TableShape
<1>2. \A m \in Nodes, k \in Keys : store'[m][k] = IF m = n /\ k = key THEN list ELSE store[m][k]
  BY DEF TableInv, TableShape
<1>3. TableShape' BY <1>1 DEF TableInv, TableShape
<1>4. PeerAges' BY <1>2 DEF TableInv, PeerAges
<1>5. MutableAges' /\ ImmutableAges' BY DEF TableInv, MutableAges, ImmutableAges
<1> QED BY <1>3, <1>4, <1>5 DEF TableInv

LEMMA SameTables ==
  ASSUME TableInv, UNCHANGED <<clock, mutables, immutables, store, acked>>
  PROVE  TableInv'
BY DEF TableInv, TableShape, MutableAges, ImmutableAges, PeerAges

\* Nodes whose cache of mutable records did not change hold what they held.
LEMMA SameHolds ==
  ASSUME NEW n, Holds(n), mutables'[n] = mutables[n], acked'[n] = acked[n]
  PROVE  Holds(n)'
BY DEF Holds

\* The question of a walk reorders at most one cache.
LEMMA QuestionTables ==
  ASSUME TableInv, ReadInv, NEW n \in Nodes, NEW o, Question(n, o), UNCHANGED <<clock, store, acked>>
  PROVE  TableInv' /\ \A k \in Nodes : Holds(k)'
<1> DEFINE cmd == WalkCommand(o.kind)
<1>1. /\ mutables[n] \in Seq(Mutables) /\ \A e \in Range(mutables[n]) : e.age <= Ttl + clock
      /\ immutables[n] \in Seq(Immutables) /\ \A e \in Range(immutables[n]) : e.age <= Ttl + clock
      /\ acked \in [Nodes -> [Keys -> Nat]]
  BY TableFacts DEF TableInv, TableShape
<1>2. \A k \in Nodes : Holds(k) BY DEF ReadInv
<1>3. CASE Answers(n, cmd) /\ cmd = "MUTABLE_GET"
  <2> DEFINE got == LruGet(mutables[n], o.key)
  <2>1. mutables' = [mutables EXCEPT ![n] = got] /\ immutables' = immutables BY <1>3 DEF Question
  <2>2. got \in Seq(Mutables) /\ Range(got) = Range(mutables[n]) BY <1>1, <1>2, LruGetKeeps DEF Holds
  <2> HIDE DEF got
  <2>3. TableInv' BY <1>1, <2>1, <2>2, MutableTable
  <2>4. ASSUME NEW k \in Nodes PROVE Holds(k)'
    <3>1. Range(mutables'[k]) = Range(mutables[k]) BY <2>1, <2>2 DEF TableInv, TableShape
    <3>2. \A j : Has(mutables'[k], j) <=> Has(mutables[k], j) BY <3>1, Entries
    <3> QED BY <1>2, <3>1, <3>2 DEF Holds, Single
  <2> QED BY <2>3, <2>4
<1>4. CASE ~(Answers(n, cmd) /\ cmd = "MUTABLE_GET")
  <2>1. mutables' = mutables BY <1>4 DEF Question
  <2>2. \A k \in Nodes : Holds(k)' BY <1>2, <2>1, SameHolds
  <2>3. TableInv'
    <3> DEFINE got == LruGet(immutables[n], o.key)
    <3>1. CASE immutables' = immutables BY <2>1, <3>1, SameTables
    <3>2. CASE immutables' = [immutables EXCEPT ![n] = got]
      <4>1. got \in Seq(Immutables) /\ \A e \in Range(got) : e \in Range(immutables[n]) BY <1>1, LruGetKeeps
      <4> QED BY <1>1, <2>1, <3>2, <4>1, ImmutableTable
    <3> QED BY <3>1, <3>2 DEF Question
  <2> QED BY <2>2, <2>3
<1> QED BY <1>3, <1>4

\* A put: what the cache now holds of that key is what was put, and it is at
\* least as new as all that was acknowledged.
LEMMA PutTables ==
  ASSUME TableInv, ReadInv, NEW m \in Messages, m.token.node \in Nodes, UNCHANGED <<clock>>,
         HandleMutablePut(m.token.node, m)
  PROVE  TableInv' /\ \A k \in Nodes : Holds(k)'
<1> DEFINE n == m.token.node
           got == LruGet(mutables[n], m.key)
           entry == [key |-> m.key, seq |-> m.seq, val |-> m.val, age |-> 0]
           put == LruPut(got, entry, CacheMax)
           refused == Has(got, m.key) /\ Refused(Entry(got, m.key), m)
<1>1. /\ mutables[n] \in Seq(Mutables) /\ \A e \in Range(mutables[n]) : e.age <= Ttl + clock
      /\ acked \in [Nodes -> [Keys -> Nat]] /\ acked[n] \in [Keys -> Nat]
      /\ clock \in Nat /\ Ttl \in Nat /\ CacheMax \in Nat \ {0}
  BY TableFacts, Clocks DEF TableInv, TableShape
<1>2. \A k \in Nodes : Holds(k) BY DEF ReadInv
<1>3. got \in Seq(Mutables) /\ Range(got) = Range(mutables[n]) BY <1>1, <1>2, LruGetKeeps DEF Holds
<1>4. /\ mutables' = [mutables EXCEPT ![n] = IF refused THEN got ELSE put]
      /\ acked' = IF refused THEN acked
                  ELSE [acked EXCEPT ![n] = [Stored(n, put) EXCEPT ![m.key] = Max({@, m.seq})]]
      /\ UNCHANGED <<immutables, store>>
  BY DEF HandleMutablePut
<1>5. m.key \in Keys /\ m.seq \in Nat /\ m.val \in Values BY DEF Messages
<1>6. entry \in Mutables /\ entry.key = m.key /\ entry.seq = m.seq /\ entry.age = 0 BY <1>5 DEF Mutables
<1>7. n \in Nodes OBVIOUS
<1> HIDE DEF got, entry, n
<1>8. /\ put \in Seq(Mutables) /\ entry \in Range(put)
      /\ \A e \in Range(put) : e = entry \/ (e \in Range(got) /\ e.key # entry.key)
  BY <1>1, <1>3, <1>6, LruPutKeeps
<1> HIDE DEF put
<1>9. \A k \in Nodes \ {n} : mutables'[k] = mutables[k] /\ acked'[k] = acked[k]
  BY <1>1, <1>4 DEF TableInv, TableShape
<1>10. \A k \in Nodes \ {n} : Holds(k)' BY <1>2, <1>9, SameHolds
<1>11. CASE refused
  <2>1. mutables' = [mutables EXCEPT ![n] = got] /\ acked' = acked BY <1>4, <1>11
  <2>2. TableInv' BY <1>1, <1>3, <1>4, <1>7, <2>1, MutableTable
  <2>3. mutables'[n] = got BY <1>7, <2>1 DEF TableInv, TableShape
  <2>4. \A j : Has(got, j) <=> Has(mutables[n], j) BY <1>3, Entries
  <2>5. Holds(n)' BY <1>2, <1>3, <1>7, <2>1, <2>3, <2>4 DEF Holds, Single
  <2> QED BY <1>10, <2>2, <2>5
<1>12. CASE ~refused
  <2> DEFINE stored == Stored(n, put)
             ack == [stored EXCEPT ![m.key] = Max({stored[m.key], m.seq})]
  <2>1. mutables' = [mutables EXCEPT ![n] = put] /\ acked' = [acked EXCEPT ![n] = ack] BY <1>4, <1>12
  <2>2. /\ stored \in [Keys -> Nat]
        /\ \A k \in Keys : stored[k] = IF Has(put, k) THEN acked[n][k] ELSE 0
    BY <1>1 DEF Stored
  <2>3. acked[n][m.key] <= m.seq
    <3>1. CASE Has(got, m.key)
      <4>1. Entry(got, m.key) \in Range(mutables[n]) /\ Entry(got, m.key).key = m.key BY <1>3, <3>1, Entries
      <4>2. Entry(got, m.key) \in Mutables BY <1>1, <4>1, Elements
      <4>3. Entry(got, m.key).seq \in Nat BY <4>2 DEF Mutables
      <4>4. acked[n][m.key] <= Entry(got, m.key).seq BY <1>2, <1>7, <4>1 DEF Holds
      <4>5. ~(m.seq < Entry(got, m.key).seq) BY <1>12, <3>1 DEF Refused, SeqTooLow
      <4> QED BY <1>1, <1>5, <4>3, <4>4, <4>5
    <3>2. CASE ~Has(got, m.key)
      <4>1. ~Has(mutables[n], m.key) BY <1>3, <3>2, Entries
      <4>2. acked[n][m.key] = 0 BY <1>1, <1>2, <1>5, <1>7, <4>1 DEF Holds
      <4> QED BY <1>5, <4>2
    <3> QED BY <3>1, <3>2
  <2>4. Max({stored[m.key], m.seq}) = m.seq
    <3> HIDE DEF stored
    <3>1. stored[m.key] \in Nat /\ stored[m.key] <= m.seq BY <1>1, <1>5, <2>2, <2>3
    <3>2. \A x \in {stored[m.key], m.seq} : (\A y \in {stored[m.key], m.seq} : x >= y) => x = m.seq
      BY <1>5, <3>1
    <3>3. \E x \in {stored[m.key], m.seq} : \A y \in {stored[m.key], m.seq} : x >= y BY <1>5, <3>1
    <3> QED BY <3>2, <3>3 DEF Max
  <2>5. /\ ack \in [Keys -> Nat] /\ ack[m.key] = m.seq
        /\ \A k \in Keys \ {m.key} : ack[k] = IF Has(put, k) THEN acked[n][k] ELSE 0
    BY <1>5, <2>2, <2>4
  <2> HIDE DEF ack, stored
  <2>6. acked' \in [Nodes -> [Keys -> Nat]] /\ acked'[n] = ack BY <1>1, <1>7, <2>1, <2>5
  <2>7. mutables'[n] = put BY <1>7, <2>1 DEF TableInv, TableShape
  <2>8. \A e \in Range(put) : e.age <= Ttl + clock BY <1>1, <1>3, <1>6, <1>8
  <2>9. TableInv' BY <1>4, <1>7, <1>8, <2>1, <2>6, <2>8, MutableTable
  <2>10. Single(put) BY <1>2, <1>3, <1>7, <1>8 DEF Single, Holds
  <2>11. ASSUME NEW e \in Range(put) PROVE ack[e.key] <= e.seq
    <3>1. CASE e = entry BY <1>5, <1>6, <2>5, <3>1
    <3>2. CASE e # entry
      <4>1. e \in Range(mutables[n]) /\ e.key # m.key BY <1>3, <1>6, <1>8, <3>2
      <4>2. e \in Mutables BY <1>1, <4>1, Elements
      <4>3. e.key \in Keys BY <4>2 DEF Mutables
      <4>4. Has(put, e.key) BY Entries
      <4>5. ack[e.key] = acked[n][e.key] BY <2>5, <4>1, <4>3, <4>4
      <4> QED BY <1>2, <1>7, <4>1, <4>5 DEF Holds
    <3> QED BY <3>1, <3>2
  <2>12. \A k \in Keys : ack[k] > 0 => Has(put, k)
    <3>1. Has(put, m.key) BY <1>6, <1>8, Entries
    <3> QED BY <2>5, <3>1
  <2>13. Holds(n)' BY <2>6, <2>7, <2>10, <2>11, <2>12 DEF Holds
  <2> QED BY <1>10, <2>9, <2>13
<1> QED BY <1>11, <1>12

LEMMA ReceiveTables ==
  ASSUME TokenInv, TableInv, ReadInv, NEW m \in net, Receive(m)
  PROVE  TableInv' /\ \A k \in Nodes : Holds(k)'
<1> DEFINE n == m.token.node
<1>1. m \in Messages /\ n \in Nodes BY TokenFacts DEF Messages, Tokens
<1>2. m.key \in Keys /\ m.from \in Clients BY <1>1 DEF Messages
<1>3. /\ immutables[n] \in Seq(Immutables) /\ \A e \in Range(immutables[n]) : e.age <= Ttl + clock
      /\ store[n][m.key] \in Seq(PeerRecords) /\ \A e \in Range(store[n][m.key]) : e.age <= AnnTtl + clock
      /\ clock \in Nat /\ Ttl \in Nat /\ AnnTtl \in Nat /\ CacheMax \in Nat \ {0}
  BY <1>1, <1>2, TableFacts, Clocks
<1>4. clock' = clock BY DEF Receive
<1>5. CASE HandleMutablePut(n, m) BY <1>1, <1>4, <1>5, PutTables
<1>6. CASE HandleImmutablePut(n, m)
  <2> DEFINE entry == [key |-> m.key, age |-> 0]
             put == LruPut(immutables[n], entry, CacheMax)
  <2>1. immutables' = [immutables EXCEPT ![n] = put] /\ UNCHANGED <<mutables, acked, store>>
    BY <1>6 DEF HandleImmutablePut
  <2>2. entry \in Immutables /\ entry.age = 0 BY <1>2 DEF Immutables
  <2> HIDE DEF entry
  <2>3. put \in Seq(Immutables) /\ \A e \in Range(put) : e = entry \/ e \in Range(immutables[n])
    BY <1>3, <2>2, LruPutKeeps
  <2> HIDE DEF put
  <2>4. \A e \in Range(put) : e.age <= Ttl + clock BY <1>3, <2>2, <2>3
  <2>5. TableInv' BY <1>1, <1>4, <2>1, <2>3, <2>4, ImmutableTable
  <2> QED BY <2>1, <2>5, SameHolds DEF ReadInv
<1>7. CASE HandleAnnounce(n, m)
  <2> DEFINE ann == [from |-> m.from, age |-> 0]
             list == AnnPut(store[n][m.key], ann, PeersMax)
  <2>1. UNCHANGED <<mutables, acked, immutables>> BY <1>7 DEF HandleAnnounce
  <2>2. store' = store \/ store' = [store EXCEPT ![n][m.key] = list] BY <1>7 DEF HandleAnnounce
  <2>3. ann \in PeerRecords /\ ann.age = 0 BY <1>2 DEF PeerRecords
  <2> HIDE DEF ann
  <2>4. list \in Seq(PeerRecords) /\ Range(list) \subseteq Range(store[n][m.key]) \cup {ann} BY <1>3, <2>3, AnnPutKeeps
  <2> HIDE DEF list
  <2>5. \A e \in Range(list) : e.age <= AnnTtl + clock BY <1>3, <2>3, <2>4
  <2>6. CASE store' = store BY <1>4, <2>1, <2>6, SameTables, SameHolds DEF ReadInv
  <2>7. CASE store' = [store EXCEPT ![n][m.key] = list]
    <3>1. TableInv' BY <1>1, <1>2, <1>4, <2>1, <2>4, <2>5, <2>7, PeerTable
    <3> QED BY <2>1, <3>1, SameHolds DEF ReadInv
  <2> QED BY <2>2, <2>6, <2>7
<1>8. CASE HandleUnannounce(n, m)
  <2> DEFINE list == AnnRemove(store[n][m.key], m.from)
  <2>1. UNCHANGED <<mutables, acked, immutables>> /\ store' = [store EXCEPT ![n][m.key] = list]
    BY <1>8 DEF HandleUnannounce
  <2>2. list \in Seq(PeerRecords) /\ Range(list) \subseteq Range(store[n][m.key]) BY <1>3, AnnRemoveKeeps
  <2> HIDE DEF list
  <2>3. TableInv' BY <1>1, <1>2, <1>3, <1>4, <2>1, <2>2, PeerTable
  <2> QED BY <2>1, <2>3, SameHolds DEF ReadInv
<1> QED BY <1>5, <1>6, <1>7, <1>8 DEF Receive

LEMMA OlderEntries ==
  /\ \A e \in Mutables : Older(e) \in Mutables /\ Older(e).age = e.age + 1 /\ Older(e).key = e.key /\ Older(e).seq = e.seq
  /\ \A e \in Immutables : Older(e) \in Immutables /\ Older(e).age = e.age + 1
  /\ \A e \in PeerRecords : Older(e) \in PeerRecords /\ Older(e).age = e.age + 1
BY DEF Older, Mutables, Immutables, PeerRecords

\* One unit of time for one list, with a collection at its end or without.
Passed(list, T, t, every) == IF t + 1 = every THEN LruGc(Aged(list), T) ELSE Aged(list)
Later(t, every) == IF t + 1 = every THEN 0 ELSE t + 1
Aging(S) == \A e \in S : e.age \in Nat /\ Older(e) \in S /\ Older(e).age = e.age + 1
Young(list, age) == \A e \in Range(list) : e.age <= age

LEMMA TickList ==
  ASSUME NEW S, NEW list \in Seq(S), NEW T \in Nat, NEW t \in Nat, NEW every \in Nat, t < every,
         Aging(S), Young(list, T + t)
  PROVE  /\ Passed(list, T, t, every) \in Seq(S)
         /\ Young(Passed(list, T, t, every), T + Later(t, every))
         /\ \A e \in Range(Passed(list, T, t, every)) : \E d \in Range(list) : e = Older(d)
<1>1. Aged(list) \in Seq(S) /\ Range(Aged(list)) = {Older(e) : e \in Range(list)} BY AgedKeeps DEF Aging
<1>2. \A e \in Range(list) : e \in S BY Elements
<1>3. \A e \in Range(Aged(list)) : e.age \in Nat /\ e.age <= T + t + 1 /\ \E d \in Range(list) : e = Older(d)
  BY <1>1, <1>2 DEF Aging, Young
<1> DEFINE next == Passed(list, T, t, every)
<1>4. CASE t + 1 = every
  <2>1. next = LruGc(Aged(list), T) /\ Later(t, every) = 0 BY <1>4 DEF Passed, Later
  <2> HIDE DEF next
  <2>2. next \in Seq(S) /\ Range(next) = {e \in Range(Aged(list)) : e.age <= T} BY <1>1, <2>1, LruGcKeeps
  <2>3. Young(next, T + Later(t, every)) BY <1>3, <2>1, <2>2 DEF Young
  <2> QED BY <1>3, <2>2, <2>3 DEF next
<1>5. CASE t + 1 # every
  <2>1. next = Aged(list) /\ Later(t, every) = t + 1 BY <1>5 DEF Passed, Later
  <2> HIDE DEF next
  <2>2. Young(next, T + Later(t, every)) BY <1>3, <2>1 DEF Young
  <2> QED BY <1>1, <1>3, <2>1, <2>2 DEF next
<1> QED BY <1>4, <1>5

LEMMA TickTables ==
  ASSUME TableInv, ReadInv, Tick
  PROVE  TableInv' /\ \A k \in Nodes : Holds(k)'
<1> DEFINE Mut(n) == Passed(mutables[n], Ttl, clock, GcEvery)
           Imm(n) == Passed(immutables[n], Ttl, clock, GcEvery)
           Ann(n, k) == Passed(store[n][k], AnnTtl, clock, GcEvery)
           later == Later(clock, GcEvery)
<1>1. /\ clock' = later /\ mutables' = [n \in Nodes |-> Mut(n)] /\ immutables' = [n \in Nodes |-> Imm(n)]
      /\ store' = [n \in Nodes |-> [k \in Keys |-> Ann(n, k)]]
      /\ acked' = [n \in Nodes |-> Stored(n, Mut(n))]
  BY DEF Tick, AnnGc, LruGc, Passed, Later
<1>2. /\ clock \in Nat /\ clock < GcEvery /\ GcEvery \in Nat /\ Ttl \in Nat /\ AnnTtl \in Nat BY Clocks
<1>0. Aging(Mutables) /\ Aging(Immutables) /\ Aging(PeerRecords)
  <2>1. (\A e \in Mutables : e.age \in Nat) /\ (\A e \in Immutables : e.age \in Nat) /\ (\A e \in PeerRecords : e.age \in Nat)
    BY DEF Mutables, Immutables, PeerRecords
  <2> QED BY <2>1, OlderEntries DEF Aging
<1>3. ASSUME NEW n \in Nodes
      PROVE  /\ Mut(n) \in Seq(Mutables) /\ Young(Mut(n), Ttl + later)
             /\ \A e \in Range(Mut(n)) : \E d \in Range(mutables[n]) : e = Older(d)
  <2>1. mutables[n] \in Seq(Mutables) /\ Young(mutables[n], Ttl + clock) BY TableFacts DEF Young
  <2> QED BY <1>0, <1>2, <2>1, TickList
<1>4. ASSUME NEW n \in Nodes
      PROVE  Imm(n) \in Seq(Immutables) /\ Young(Imm(n), Ttl + later)
  <2>1. immutables[n] \in Seq(Immutables) /\ Young(immutables[n], Ttl + clock) BY TableFacts DEF Young
  <2> QED BY <1>0, <1>2, <2>1, TickList
<1>5. ASSUME NEW n \in Nodes, NEW k \in Keys
      PROVE  Ann(n, k) \in Seq(PeerRecords) /\ Young(Ann(n, k), AnnTtl + later)
  <2>1. store[n][k] \in Seq(PeerRecords) /\ Young(store[n][k], AnnTtl + clock) BY TableFacts DEF Young
  <2> QED BY <1>0, <1>2, <2>1, TickList
<1>6. later \in 0 .. GcEvery - 1 BY <1>2 DEF Later
<1>7. \A n \in Nodes : Stored(n, Mut(n)) \in [Keys -> Nat]
  <2> TAKE n \in Nodes
  <2>1. acked[n] \in [Keys -> Nat] BY TableFacts
  <2> QED BY <2>1 DEF Stored
<1> HIDE DEF Mut, Imm, Ann, later
<1>8. TableShape' BY <1>1, <1>3, <1>4, <1>5, <1>7 DEF TableShape
<1>9. MutableAges' BY <1>1, <1>3 DEF MutableAges, Young
<1>10. ImmutableAges' BY <1>1, <1>4 DEF ImmutableAges, Young
<1>11. PeerAges' BY <1>1, <1>5 DEF PeerAges, Young
<1>12. TableInv' BY <1>1, <1>6, <1>8, <1>9, <1>10, <1>11 DEF TableInv
<1>13. ASSUME NEW n \in Nodes PROVE Holds(n)'
  <2>1. mutables'[n] = Mut(n) /\ \A k \in Keys : acked'[n][k] = IF Has(Mut(n), k) THEN acked[n][k] ELSE 0
    BY <1>1 DEF Stored
  <2>2. Holds(n) /\ mutables[n] \in Seq(Mutables) BY TableFacts DEF ReadInv
  <2>3. \A e \in Range(Mut(n)) : \E d \in Range(mutables[n]) : e = Older(d) /\ e.key = d.key /\ e.seq = d.seq /\ d.key \in Keys
    <3> TAKE e \in Range(Mut(n))
    <3>1. PICK d \in Range(mutables[n]) : e = Older(d) BY <1>3
    <3>2. d \in Mutables BY <2>2, Elements
    <3>3. d.key \in Keys BY <3>2 DEF Mutables
    <3> QED BY <3>1, <3>2, <3>3, OlderEntries
  <2>4. Single(Mut(n)) BY <2>2, <2>3 DEF Single, Holds
  <2>5. ASSUME NEW e \in Range(Mut(n)) PROVE acked'[n][e.key] <= e.seq
    <3>1. Has(Mut(n), e.key) BY Entries
    <3> QED BY <2>1, <2>2, <2>3, <3>1 DEF Holds
  <2>6. \A k \in Keys : acked'[n][k] > 0 => Has(Mut(n), k) BY <2>1
  <2> QED BY <2>1, <2>4, <2>5, <2>6 DEF Holds
<1> QED BY <1>12, <1>13

LEMMA DestroyTables ==
  ASSUME TableInv, ReadInv, NEW n \in Nodes, Destroy(n)
  PROVE  TableInv' /\ \A k \in Nodes : Holds(k)'
<1>1. /\ mutables' = [mutables EXCEPT ![n] = <<>>] /\ immutables' = [immutables EXCEPT ![n] = <<>>]
      /\ store' = [store EXCEPT ![n] = [k \in Keys |-> <<>>]] /\ acked' = [acked EXCEPT ![n] = [k \in Keys |-> 0]]
      /\ clock' = clock
  BY DEF Destroy
<1>2. <<>> \in Seq(Mutables) /\ <<>> \in Seq(Immutables) /\ <<>> \in Seq(PeerRecords) OBVIOUS
<1>3. Range(<<>>) = {} BY DEF Range
<1>4. TableShape' BY <1>1, <1>2 DEF TableInv, TableShape
<1>5. \A k \in Nodes : /\ mutables'[k] = IF k = n THEN <<>> ELSE mutables[k]
                       /\ immutables'[k] = IF k = n THEN <<>> ELSE immutables[k]
                       /\ \A j \in Keys : store'[k][j] = IF k = n THEN <<>> ELSE store[k][j]
                       /\ \A j \in Keys : acked'[k][j] = IF k = n THEN 0 ELSE acked[k][j]
                       /\ k # n => acked'[k] = acked[k]
  BY <1>1 DEF TableInv, TableShape
<1>6. MutableAges' BY <1>1, <1>3, <1>5 DEF TableInv, MutableAges
<1>7. ImmutableAges' BY <1>1, <1>3, <1>5 DEF TableInv, ImmutableAges
<1>8. PeerAges' BY <1>1, <1>3, <1>5 DEF TableInv, PeerAges
<1>9. TableInv' BY <1>1, <1>4, <1>6, <1>7, <1>8 DEF TableInv
<1>10. ASSUME NEW k \in Nodes PROVE Holds(k)'
  <2>1. CASE k = n BY <1>3, <1>5, <2>1 DEF Holds, Single
  <2>2. CASE k # n
    <3>1. mutables'[k] = mutables[k] /\ acked'[k] = acked[k] BY <1>5, <2>2
    <3> QED BY <3>1, SameHolds DEF ReadInv
  <2> QED BY <2>1, <2>2
<1> QED BY <1>9, <1>10

-----------------------------------------------------------------------------
(* The inductive invariant.                                                *)

StorageInv == TokenInv /\ TableInv /\ ReadInv

\* A reply keeps a get up with the node that answers: what the node acknowledged
\* it holds, in that version or a newer one.
LEMMA ReplyKeepsUp ==
  ASSUME StorageInv, NEW c \in Clients, NEW n \in Nodes
  PROVE  KeepsUp(OnReply(op[c], n))
<1> DEFINE o == op[c]
           p == OnReply(o, n)
           seq == MutableReply(n, o.key, o.seq)
           ack == acked[n][o.key]
<1>1. OpShape(o) /\ o.key \in Keys /\ o.seq \in Nat /\ o.result \in Nat /\ o.floor \in Nat
  BY TokenFacts DEF StorageInv, OpOk, OpShape
<1>2. seq \in Nat /\ ack \in Nat BY <1>1, ReplyIsVersion DEF StorageInv
<1>3. KeepsUp(o) /\ Holds(n) BY DEF StorageInv, ReadInv
<1>4. /\ OpShape(p) /\ p.kind = o.kind /\ p.latest = o.latest
      /\ o.kind = "mutable_get" /\ o.latest =>
           /\ p.result >= o.result /\ p.result >= seq
           /\ p.floor = o.floor \/ (p.floor = ack /\ ack >= o.seq)
  BY <1>1, <1>2, OnReplyShape
<1>5. ASSUME ack > 0, ack >= o.seq PROVE seq >= ack
  <2>1. Has(mutables[n], o.key) BY <1>1, <1>3, <1>5 DEF Holds
  <2>2. Entry(mutables[n], o.key) \in Range(mutables[n]) /\ Entry(mutables[n], o.key).key = o.key BY <2>1, Entries
  <2>3. mutables[n] \in Seq(Mutables) BY TableFacts DEF StorageInv
  <2>4. Entry(mutables[n], o.key) \in Mutables BY <2>2, <2>3, Elements
  <2>5. Entry(mutables[n], o.key).seq \in Nat BY <2>4 DEF Mutables
  <2>6. ack <= Entry(mutables[n], o.key).seq BY <1>3, <2>2 DEF Holds
  <2>7. Entry(mutables[n], o.key).seq >= o.seq BY <1>1, <1>2, <1>5, <2>5, <2>6
  <2>8. seq = Entry(mutables[n], o.key).seq BY <2>1, <2>7 DEF MutableReply
  <2> QED BY <1>2, <2>5, <2>6, <2>8
<1>6. p.result \in Nat /\ p.floor \in Nat BY <1>4 DEF OpShape
<1> HIDE DEF o, p, seq, ack
<1>7. KeepsUp(p) BY <1>1, <1>2, <1>3, <1>4, <1>5, <1>6 DEF KeepsUp
<1> QED BY <1>7 DEF o, p

\* One operation changes and keeps up.
LEMMA OneOpKeepsUp ==
  ASSUME StorageInv, NEW c \in Clients, NEW o, OpOk(o), KeepsUp(o), op' = [op EXCEPT ![c] = o]
  PROVE  \A d \in Clients : KeepsUp(op'[d])
<1>1. op'[c] = o /\ \A d \in Clients \ {c} : op'[d] = op[d] BY OneOp DEF StorageInv
<1> QED BY <1>1 DEF StorageInv, ReadInv

\* Operations and tables together.
LEMMA ReadStep ==
  ASSUME \A n \in Nodes : Holds(n)', \A c \in Clients : KeepsUp(op'[c])
  PROVE  ReadInv'
BY DEF ReadInv, KeepsUp

LEMMA SameOps ==
  ASSUME StorageInv, op' = op
  PROVE  \A c \in Clients : KeepsUp(op'[c])
BY DEF StorageInv, ReadInv

\* Steps that leave the tables alone.
LEMMA SameTablesRead ==
  ASSUME StorageInv, UNCHANGED <<clock, mutables, immutables, store, acked>>
  PROVE  TableInv' /\ \A n \in Nodes : Holds(n)'
BY SameTables, SameHolds DEF StorageInv, ReadInv

LEMMA InitInv == Init => StorageInv
<1> SUFFICES ASSUME Init PROVE StorageInv OBVIOUS
<1>1. load \in Loads BY DEF Init
<1>2. TwoSecrets
  <2>1. [root |-> 1, hashed |-> 0] \in Secrets /\ [root |-> 2, hashed |-> 0] \in Secrets BY DEF Secrets
  <2>2. \A n \in Nodes : Period(cur[n]) = 0 /\ Period(prev[n]) = -1 /\ rotations[n] = 0 BY DEF Init, Period
  <2>3. cur \in [Nodes -> Secrets] /\ prev \in [Nodes -> Secrets] /\ rotations \in [Nodes -> Nat] BY <2>1 DEF Init
  <2> QED BY <2>2, <2>3 DEF TwoSecrets
<1>3. Ops /\ Net /\ Relays BY IdleFresh, FreshOk DEF Init, Ops, Net, Relays
<1>4. TableShape BY DEF Init, TableShape
<1>5. Range(<<>>) = {} BY DEF Range
<1>6. MutableAges /\ ImmutableAges /\ PeerAges BY <1>5 DEF Init, MutableAges, ImmutableAges, PeerAges
<1>7. clock \in 0 .. GcEvery - 1 BY StorageAssumption DEF Init
<1>8. \A n \in Nodes : Holds(n) BY <1>5 DEF Init, Holds, Single
<1>9. \A c \in Clients : KeepsUp(op[c]) BY IdleFresh DEF Init, KeepsUp, Fresh
<1>10. TokenInv BY <1>1, <1>2, <1>3 DEF TokenInv
<1>11. TableInv BY <1>4, <1>6, <1>7 DEF TableInv
<1> QED BY <1>8, <1>9, <1>10, <1>11 DEF StorageInv, ReadInv

\* Clients.
LEMMA OperateInv ==
  ASSUME StorageInv, NEW c \in load.clients, Operate(c)
  PROVE  StorageInv'
<1>0. TokenInv /\ c \in Clients BY TokenFacts, LoadShape DEF StorageInv
<1>1. UNCHANGED nodeVars
  BY DEF Operate, ImmutablePut, ImmutableGet, MutablePut, MutableGet, Lookup, FindPeer, Announce, Unannounce,
         AnnouncerUpdate, AnnouncerStop, WalkEnds, Done, Begin
<1>2. TableInv' /\ \A n \in Nodes : Holds(n)' BY <1>1, SameTablesRead DEF nodeVars
<1>3. CASE Begins(c)
  <2>1. PICK o : Fresh(o) /\ Begin(c, o) BY <1>0, <1>3, BeginsFresh, TokenFacts
  <2>2. TokenInv' BY <1>0, <2>1, BeginTokens
  <2>3. OpOk(o) /\ KeepsUp(o) BY <2>1, FreshOk DEF Fresh, KeepsUp
  <2>4. op' = [op EXCEPT ![c] = o] BY <2>1 DEF Begin
  <2>5. \A d \in Clients : KeepsUp(op'[d]) BY <1>0, <2>3, <2>4, OneOpKeepsUp
  <2> QED BY <1>2, <2>2, <2>5, ReadStep DEF StorageInv
<1>4. CASE AnnouncerStop(c)
  <2>1. TokenInv' /\ op' = op BY <1>0, <1>4, AnnouncerStopTokens DEF AnnouncerStop
  <2> QED BY <1>2, <2>1, SameOps, ReadStep DEF StorageInv
<1>5. CASE WalkEnds(c)
  <2>1. TokenInv' BY <1>0, <1>5, WalkEndsTokens
  <2>2. op' = [op EXCEPT ![c] = Ended(op[c])] BY <1>5 DEF WalkEnds
  <2>3. OpOk(op[c]) /\ KeepsUp(op[c]) BY <1>0, TokenFacts DEF StorageInv, ReadInv
  <2>4. OpOk(Ended(op[c])) /\ KeepsUp(Ended(op[c])) BY <2>3, EndedOk DEF KeepsUp
  <2>5. \A d \in Clients : KeepsUp(op'[d]) BY <1>0, <2>2, <2>4, OneOpKeepsUp
  <2> QED BY <1>2, <2>1, <2>5, ReadStep DEF StorageInv
<1>6. CASE Done(c)
  <2>1. TokenInv' BY <1>0, <1>6, DoneTokens
  <2>2. op' = [op EXCEPT ![c] = Idle] BY <1>6 DEF Done
  <2>3. OpOk(Idle) /\ KeepsUp(Idle) BY IdleFresh, FreshOk DEF Fresh, KeepsUp
  <2>4. \A d \in Clients : KeepsUp(op'[d]) BY <1>0, <2>2, <2>3, OneOpKeepsUp
  <2> QED BY <1>2, <2>1, <2>4, ReadStep DEF StorageInv
<1> QED BY <1>3, <1>4, <1>5, <1>6 DEF Operate, Begins

\* Nodes.
LEMMA VisitInv ==
  ASSUME StorageInv, NEW c \in Clients, NEW n \in Nodes, Visit(c, n)
  PROVE  StorageInv'
<1>1. TokenInv' BY VisitTokens DEF StorageInv
<1>2. Question(n, op[c]) /\ UNCHANGED <<clock, store, acked>> BY DEF Visit
<1>3. TableInv' /\ \A k \in Nodes : Holds(k)' BY <1>2, QuestionTables DEF StorageInv
<1>4. OpOk(op[c]) /\ KeepsUp(op[c]) BY TokenFacts DEF StorageInv, ReadInv
<1>5. ASSUME op' = [op EXCEPT ![c] = OnReply(@, n)] PROVE \A d \in Clients : KeepsUp(op'[d])
  <2>1. op' = [op EXCEPT ![c] = OnReply(op[c], n)] BY <1>5
  <2>2. KeepsUp(OnReply(op[c], n)) BY ReplyKeepsUp
  <2>3. op'[c] = OnReply(op[c], n) /\ \A d \in Clients \ {c} : op'[d] = op[d] BY <2>1, TokenFacts DEF StorageInv
  <2> QED BY <2>2, <2>3 DEF StorageInv, ReadInv
<1>6. ASSUME NEW l, op' = [op EXCEPT ![c] = Unanswered(@, n, l)] PROVE \A d \in Clients : KeepsUp(op'[d])
  <2>1. op' = [op EXCEPT ![c] = Unanswered(op[c], n, l)] BY <1>6
  <2>2. OpOk(Unanswered(op[c], n, l)) /\ KeepsUp(Unanswered(op[c], n, l)) BY <1>4, UnansweredOk DEF KeepsUp
  <2> QED BY <2>1, <2>2, OneOpKeepsUp
<1>7. \A d \in Clients : KeepsUp(op'[d]) BY <1>5, <1>6 DEF Visit
<1> QED BY <1>1, <1>3, <1>7, ReadStep DEF StorageInv

LEMMA LoseQuestionInv ==
  ASSUME StorageInv, NEW c \in Clients, NEW n, LoseQuestion(c, n)
  PROVE  StorageInv'
<1>1. TokenInv' BY LoseQuestionTokens DEF StorageInv
<1>2. op' = [op EXCEPT ![c] = Unanswered(op[c], n, {n})] /\ UNCHANGED nodeVars BY DEF LoseQuestion
<1>3. TableInv' /\ \A k \in Nodes : Holds(k)' BY <1>2, SameTablesRead DEF nodeVars
<1>4. OpOk(op[c]) /\ KeepsUp(op[c]) BY TokenFacts DEF StorageInv, ReadInv
<1>5. OpOk(Unanswered(op[c], n, {n})) /\ KeepsUp(Unanswered(op[c], n, {n})) BY <1>4, UnansweredOk DEF KeepsUp
<1>6. \A d \in Clients : KeepsUp(op'[d]) BY <1>2, <1>5, OneOpKeepsUp
<1> QED BY <1>1, <1>3, <1>6, ReadStep DEF StorageInv

LEMMA ServeInv ==
  ASSUME StorageInv, NEW n \in load.nodes, Serve(n)
  PROVE  StorageInv'
<1>0. TokenInv /\ n \in Nodes /\ load.clients \subseteq Clients BY TokenFacts, LoadShape DEF StorageInv
<1>1. ASSUME UNCHANGED <<load, cur, prev, rotations, op, net, relays>> PROVE TokenInv'
  BY <1>0, <1>1, TokenStep, TokenFacts
<1>2. CASE RotateTokens(n)
  <2>1. TokenInv' BY <1>0, <1>2, RotateTokensTokens
  <2>2. UNCHANGED <<op, clock, mutables, immutables, store, acked>> BY <1>2 DEF RotateTokens
  <2> QED BY <2>1, <2>2, SameTablesRead, SameOps, ReadStep DEF StorageInv
<1>3. CASE Destroy(n)
  <2>1. TokenInv' /\ op' = op BY <1>1, <1>3 DEF Destroy
  <2>2. TableInv' /\ \A k \in Nodes : Holds(k)' BY <1>0, <1>3, DestroyTables DEF StorageInv
  <2> QED BY <2>1, <2>2, SameOps, ReadStep DEF StorageInv
<1>4. ASSUME UNCHANGED <<load, cur, prev, rotations, op, net, relays, clock, mutables, immutables, store, acked>>
      PROVE  StorageInv'
  BY <1>1, <1>4, SameTablesRead, SameOps, ReadStep DEF StorageInv
<1>5. CASE Persist(n) BY <1>4, <1>5 DEF Persist
<1>6. CASE DelayedFires(n) BY <1>4, <1>6 DEF DelayedFires
<1>7. ASSUME NEW c \in load.clients, FindNode(c, n) \/ SecondPasses(c, n) \/ DelayedPing(c, n) PROVE StorageInv'
  BY <1>4, <1>7 DEF FindNode, SecondPasses, DelayedPing
<1>8. ASSUME NEW c \in load.clients, Visit(c, n) \/ LoseQuestion(c, n) PROVE StorageInv'
  BY <1>0, <1>8, VisitInv, LoseQuestionInv
<1> QED BY <1>2, <1>3, <1>5, <1>6, <1>7, <1>8 DEF Serve

\* Messages, time, and all of it.
LEMMA NextInv == StorageInv /\ [Next]_vars => StorageInv'
<1> SUFFICES ASSUME StorageInv, [Next]_vars PROVE StorageInv' OBVIOUS
<1>1. ASSUME NEW c \in load.clients, Operate(c) PROVE StorageInv' BY <1>1, OperateInv
<1>2. ASSUME NEW n \in load.nodes, Serve(n) PROVE StorageInv' BY <1>2, ServeInv
<1>3. ASSUME NEW m \in net, Receive(m) PROVE StorageInv'
  <2>1. TokenInv' /\ op' = op BY <1>3, ReceiveTokens DEF StorageInv, Receive
  <2>2. TableInv' /\ \A k \in Nodes : Holds(k)' BY <1>3, ReceiveTables DEF StorageInv
  <2> QED BY <2>1, <2>2, SameOps, ReadStep DEF StorageInv
<1>4. ASSUME NEW m \in net, Drop(m) PROVE StorageInv'
  <2>1. TokenInv' /\ op' = op BY <1>4, DropTokens DEF StorageInv, Drop
  <2>2. TableInv' /\ \A k \in Nodes : Holds(k)' BY <1>4, SameTablesRead DEF Drop, nodeVars
  <2> QED BY <2>1, <2>2, SameOps, ReadStep DEF StorageInv
<1>5. CASE Tick
  <2>1. UNCHANGED <<load, cur, prev, rotations, op, net, relays>> BY <1>5 DEF Tick
  <2>2. TokenInv' BY <2>1, TokenStep, TokenFacts DEF StorageInv
  <2>3. TableInv' /\ \A k \in Nodes : Holds(k)' BY <1>5, TickTables DEF StorageInv
  <2> QED BY <2>1, <2>2, <2>3, SameOps, ReadStep DEF StorageInv
<1>6. CASE UNCHANGED vars
  <2>1. UNCHANGED <<load, cur, prev, rotations, op, net, relays, clock, mutables, immutables, store, acked>>
    BY <1>6 DEF vars, nodeVars
  <2>2. TokenInv' BY <2>1, TokenStep, TokenFacts DEF StorageInv
  <2> QED BY <2>1, <2>2, SameTablesRead, SameOps, ReadStep DEF StorageInv
<1> QED BY <1>1, <1>2, <1>3, <1>4, <1>5, <1>6 DEF Next

-----------------------------------------------------------------------------
(* What is promised.                                                       *)

\* Secrets, tokens, tables and reads stay in order in every reachable state, for
\* every set of nodes, clients, keys and values and every scenario.
THEOREM StorageTheorem == Spec => []StorageInv
<1>1. Init => StorageInv BY InitInv
<1>2. StorageInv /\ [Next]_vars => StorageInv' BY NextInv
<1> QED BY <1>1, <1>2, PTL DEF Spec

\* A token is good in the rotation period in which it was issued and the next, in
\* no other, however often the secrets are hashed and swapped (TokenStore).
THEOREM TokenWindowTheorem == Spec => []TokenWindow
<1>1. StorageInv => TokenWindow BY TokenInvImpliesWindow DEF StorageInv
<1> QED BY <1>1, StorageTheorem, PTL

\* No stored record outlives its time to live by more than one collection
\* interval, however gets reorder the lists (LruCache::gc, AnnounceStore::gc).
THEOREM ExpiresTheorem == Spec => []Expires
<1>1. StorageInv => Expires
  <2> SUFFICES ASSUME StorageInv, NEW n \in Nodes
               PROVE  /\ \A i \in DOMAIN mutables[n] : mutables[n][i].age < Ttl + GcEvery
                      /\ \A i \in DOMAIN immutables[n] : immutables[n][i].age < Ttl + GcEvery
                      /\ \A k \in Keys : \A i \in DOMAIN store[n][k] : store[n][k][i].age < AnnTtl + GcEvery
    BY DEF Expires
  <2>1. /\ clock \in Nat /\ clock < GcEvery /\ GcEvery \in Nat /\ Ttl \in Nat /\ AnnTtl \in Nat
    BY Clocks DEF StorageInv
  <2>2. ASSUME NEW i \in DOMAIN mutables[n] PROVE mutables[n][i].age < Ttl + GcEvery
    <3>1. mutables[n][i] \in Range(mutables[n]) BY DEF Range
    <3>2. mutables[n][i].age <= Ttl + clock /\ mutables[n][i] \in Mutables BY <3>1, TableFacts, Elements DEF StorageInv
    <3> QED BY <2>1, <3>2 DEF Mutables
  <2>3. ASSUME NEW i \in DOMAIN immutables[n] PROVE immutables[n][i].age < Ttl + GcEvery
    <3>1. immutables[n][i] \in Range(immutables[n]) BY DEF Range
    <3>2. immutables[n][i].age <= Ttl + clock /\ immutables[n][i] \in Immutables
      BY <3>1, TableFacts, Elements DEF StorageInv
    <3> QED BY <2>1, <3>2 DEF Immutables
  <2>4. ASSUME NEW k \in Keys, NEW i \in DOMAIN store[n][k] PROVE store[n][k][i].age < AnnTtl + GcEvery
    <3>1. store[n][k][i] \in Range(store[n][k]) BY DEF Range
    <3>2. store[n][k][i].age <= AnnTtl + clock /\ store[n][k][i] \in PeerRecords
      BY <3>1, TableFacts, Elements DEF StorageInv
    <3> QED BY <2>1, <3>2 DEF PeerRecords
  <2> QED BY <2>2, <2>3, <2>4
<1> QED BY <1>1, StorageTheorem, PTL

\* A get for the latest version returns one at least as new as any that a node
\* which answered it had acknowledged and still holds (handle_mutable_put,
\* HyperDHT::mutable_get).
THEOREM ReadsNewestTheorem == Spec => []ReadsNewest
<1>1. StorageInv => ReadsNewest BY DEF StorageInv, ReadInv, KeepsUp, ReadsNewest
<1> QED BY <1>1, StorageTheorem, PTL

-----------------------------------------------------------------------------
(* The walk of a query.  A callback computes a record step by step; the    *)
(* invariant is stated of that record.                                     *)

Fields == {"pending", "seen", "inflight", "flight", "successes", "errors", "fromTable", "slowdown",
           "closest", "tokens", "committing", "toCommit", "commits", "done", "fired"}
WalkRecord(q) == DOMAIN q = Fields /\ q = [f \in Fields |-> q[f]]

\* The fields have their types.
Shape(q) ==
  /\ q.pending \in Seq(Peers) /\ q.closest \in Seq(Peers)
  /\ q.seen \in [Peers -> {"no", "pending", "done", "down"}]
  /\ q.inflight \in 0 .. MostVisits /\ q.successes \in Nat /\ q.errors \in Nat
  /\ q.flight \in SUBSET Peers /\ q.tokens \in SUBSET Peers
  /\ q.fromTable \in BOOLEAN /\ q.slowdown \in BOOLEAN

\* VisitedOnce of a record.
Apart(q) ==
  /\ \A p \in q.flight : q.seen[p] = "pending" /\ p \notin Range(q.pending)
  /\ \A i, j \in DOMAIN q.pending : q.pending[i] = q.pending[j] => i = j
  /\ \A p \in Range(q.pending) : q.seen[p] = "pending"
  /\ Cardinality(q.flight) <= q.inflight

\* The result is sorted, within its capacity and made of nodes that answered.
Rising(s) == \A i, j \in DOMAIN s : i < j => s[i] < s[j]
Ranked(q) ==
  /\ Len(q.closest) <= K /\ Rising(q.closest)
  /\ \A p \in Range(q.closest) : q.seen[p] = "done"

\* A node that is farther than the K-th entry of a full result is not needed.
Unneeded(q, p) == Len(q.closest) = K /\ q.closest[K] < p

\* Unless a visit was lost, every node that was learned of and is not resolved is on
\* the stack, is being visited or is not needed.
Covered(q) ==
  \/ Cardinality(q.flight) < q.inflight
  \/ \A p \in Peers : q.seen[p] = "pending" =>
       p \in Range(q.pending) \/ p \in q.flight \/ Unneeded(q, p)

Walking(q) == Shape(q) /\ Apart(q) /\ Ranked(q) /\ Covered(q)
Open(q) == q.done = FALSE /\ q.committing = FALSE /\ q.fired = 0 /\ q.toCommit = 0 /\ q.commits = {}

\* The walk goes on.
Live(q) == WalkRecord(q) /\ Walking(q) /\ Open(q)

CommitsFit(q) ==
  /\ q.commits \subseteq Range(q.closest) \cap q.tokens
  /\ q.toCommit \in Nat /\ Cardinality(q.commits) <= q.toCommit

\* The walk ran to its end; its commits are under way or were answered.
Over(q) ==
  /\ WalkRecord(q) /\ Walking(q) /\ CommitsFit(q)
  /\ q.pending = <<>> /\ q.inflight = 0 /\ q.flight = {}
  /\ \/ q.done = TRUE /\ q.committing \in BOOLEAN /\ q.fired = 1 /\ q.toCommit = 0 /\ q.commits = {}
     \/ q.done = FALSE /\ q.committing = TRUE /\ q.fired = 0

\* destroy() ended the query; visits and commits may still be under way.
Dead(q) ==
  /\ WalkRecord(q) /\ Shape(q) /\ Apart(q) /\ Ranked(q) /\ CommitsFit(q)
  /\ q.done = TRUE /\ q.committing = TRUE /\ q.fired = 1

\* A query before start(), while it walks or commits, and after destroy().
QueryInv ==
  /\ boot \in SUBSET Peers /\ hasCommit \in BOOLEAN /\ seeds \in Seq(Peers)
  /\ \/ started = FALSE /\ destroyed = FALSE /\ flight = {} /\ Live(Now)
     \/ started = TRUE /\ destroyed = FALSE /\ (Live(Now) \/ Over(Now))
     \/ started = TRUE /\ destroyed = TRUE /\ Dead(Now)

Distinct(s) == \A i, j \in DOMAIN s : s[i] = s[j] => i = j

\* Only keeps distinct elements distinct.
LEMMA OnlyDistinct ==
  ASSUME NEW S, NEW list \in Seq(S), NEW I \in SUBSET DOMAIN list,
         \A i, j \in I : list[i] = list[j] => i = j
  PROVE  Distinct(Only(list, I))
<1>1. Len(list) \in Nat /\ DOMAIN list = 1 .. Len(list) OBVIOUS
<1>2. /\ \A r \in 1 .. Cardinality(I) : Position(I, r) \in I
      /\ \A r, t \in 1 .. Cardinality(I) : Position(I, r) = Position(I, t) => r = t
  BY <1>1, Ranks
<1> QED BY <1>2 DEF Only, Distinct

\* The elements of two lists, one after the other.
LEMMA Joined ==
  ASSUME NEW S, NEW s \in Seq(S), NEW t \in Seq(S)
  PROVE  /\ s \o t \in Seq(S) /\ Range(s \o t) = Range(s) \cup Range(t)
         /\ Distinct(s) /\ Distinct(t) /\ Range(s) \cap Range(t) = {} => Distinct(s \o t)
<1> DEFINE u == s \o t
           m == Len(s)
           n == Len(t)
<1>1. /\ u \in Seq(S) /\ Len(u) = m + n /\ m \in Nat /\ n \in Nat
      /\ DOMAIN u = 1 .. m + n /\ DOMAIN s = 1 .. m /\ DOMAIN t = 1 .. n
      /\ \A i \in 1 .. m + n : u[i] = IF i <= m THEN s[i] ELSE t[i - m]
  OBVIOUS
<1> HIDE DEF u, m, n
<1>2. \A i \in 1 .. m + n : IF i <= m THEN i \in DOMAIN s ELSE i - m \in DOMAIN t BY <1>1
<1>3. \A i \in DOMAIN u : u[i] \in Range(s) \cup Range(t) BY <1>1, <1>2 DEF Range
<1>4. Range(s) \subseteq Range(u)
  <2> SUFFICES ASSUME NEW i \in DOMAIN s PROVE s[i] \in Range(u) BY DEF Range
  <2>1. i \in DOMAIN u /\ u[i] = s[i] BY <1>1
  <2> QED BY <2>1 DEF Range
<1>5. Range(t) \subseteq Range(u)
  <2> SUFFICES ASSUME NEW i \in DOMAIN t PROVE t[i] \in Range(u) BY DEF Range
  <2>1. m + i \in DOMAIN u /\ u[m + i] = t[i] BY <1>1
  <2> QED BY <2>1 DEF Range
<1>6. Range(u) = Range(s) \cup Range(t)
  <2>1. Range(u) \subseteq Range(s) \cup Range(t) BY <1>3 DEF Range
  <2> QED BY <2>1, <1>4, <1>5
<1>7. ASSUME Distinct(s), Distinct(t), Range(s) \cap Range(t) = {} PROVE Distinct(u)
  <2> SUFFICES ASSUME NEW i \in DOMAIN u, NEW j \in DOMAIN u, u[i] = u[j] PROVE i = j BY DEF Distinct
  <2>0. \A k \in DOMAIN s, l \in DOMAIN t : s[k] # t[l] BY <1>7 DEF Range
  <2>1. CASE i <= m /\ j <= m BY <2>1, <1>1, <1>2, <1>7 DEF Distinct
  <2>2. CASE ~(i <= m) /\ ~(j <= m)
    <3>1. t[i - m] = t[j - m] /\ i - m \in DOMAIN t /\ j - m \in DOMAIN t BY <2>2, <1>1, <1>2
    <3>2. i - m = j - m BY <3>1, <1>7 DEF Distinct
    <3> QED BY <3>2, <1>1
  <2>3. CASE i <= m /\ ~(j <= m)
    <3>1. s[i] = t[j - m] /\ i \in DOMAIN s /\ j - m \in DOMAIN t BY <2>3, <1>1, <1>2
    <3> QED BY <3>1, <2>0
  <2>4. CASE ~(i <= m) /\ j <= m
    <3>1. s[j] = t[i - m] /\ j \in DOMAIN s /\ i - m \in DOMAIN t BY <2>4, <1>1, <1>2
    <3> QED BY <3>1, <2>0
  <2> QED BY <2>1, <2>2, <2>3, <2>4
<1> QED BY <1>1, <1>6, <1>7 DEF u

\* AddPending field by field.
LEMMA AddPendingFields ==
  ASSUME NEW q, WalkRecord(q), NEW list
  PROVE  /\ WalkRecord(AddPending(q, list))
         /\ AddPending(q, list).pending = q.pending \o Only(list, Added(q, list))
         /\ AddPending(q, list).seen =
              [p \in Peers |-> IF \E i \in Added(q, list) : list[i] = p THEN "pending" ELSE q.seen[p]]
         /\ \A f \in Fields : f # "pending" /\ f # "seen" => AddPending(q, list)[f] = q[f]
<1> DEFINE x == q.pending \o Only(list, Added(q, list))
           y == [p \in Peers |-> IF \E i \in Added(q, list) : list[i] = p THEN "pending" ELSE q.seen[p]]
           r == [q EXCEPT !.pending = x, !.seen = y]
<1>1. AddPending(q, list) = r BY DEF AddPending
<1>2. "pending" \in Fields /\ "seen" \in Fields BY DEF Fields
<1> HIDE DEF x, y
<1>3. DOMAIN r = Fields /\ r = [f \in Fields |-> r[f]] BY DEF WalkRecord
<1>4. r.pending = x /\ r.seen = y /\ \A f \in Fields : f # "pending" /\ f # "seen" => r[f] = q[f]
  BY <1>2 DEF WalkRecord
<1> QED BY <1>1, <1>3, <1>4 DEF x, y, WalkRecord

\* What add_pending takes was not seen and is taken once.
LEMMA AddedFresh ==
  ASSUME NEW q, NEW list \in Seq(Peers)
  PROVE  /\ Added(q, list) \in SUBSET DOMAIN list
         /\ \A i \in Added(q, list) : q.seen[list[i]] = "no"
         /\ \A i, j \in Added(q, list) : list[i] = list[j] => i = j
<1>1. DOMAIN list = 1 .. Len(list) /\ Len(list) \in Nat OBVIOUS
<1>2. ASSUME NEW i \in Added(q, list)
      PROVE  i \in DOMAIN list /\ q.seen[list[i]] = "no" /\ \A j \in 1 .. i - 1 : list[j] # list[i]
  BY DEF Added
<1>3. ASSUME NEW i \in Added(q, list), NEW j \in Added(q, list), i < j PROVE list[i] # list[j]
  <2>1. i \in 1 .. j - 1 BY <1>1, <1>2, <1>3
  <2> QED BY <2>1, <1>2
<1>4. \A i, j \in Added(q, list) : list[i] = list[j] => i = j
  <2> TAKE i, j \in Added(q, list)
  <2>1. i < j \/ j < i \/ i = j BY <1>1, <1>2
  <2> QED BY <2>1, <1>3
<1> QED BY <1>2, <1>4

\* A walk that takes up nodes stays consistent.
LEMMA AddPendingLive ==
  ASSUME NEW q, Live(q), NEW list \in Seq(Peers)
  PROVE  Live(AddPending(q, list))
<1> DEFINE r == AddPending(q, list)
           A == Added(q, list)
           o == Only(list, A)
<1>1. /\ A \in SUBSET DOMAIN list
      /\ \A i \in A : q.seen[list[i]] = "no"
      /\ \A i, j \in A : list[i] = list[j] => i = j
  BY AddedFresh
<1>2. o \in Seq(Peers) /\ Range(o) = {list[i] : i \in A} BY <1>1, OnlyKeeps
<1>3. Distinct(o) BY <1>1, OnlyDistinct
<1>4. /\ WalkRecord(r) /\ r.pending = q.pending \o o
      /\ r.seen = [p \in Peers |-> IF \E i \in A : list[i] = p THEN "pending" ELSE q.seen[p]]
      /\ \A f \in Fields : f # "pending" /\ f # "seen" => r[f] = q[f]
  BY AddPendingFields DEF Live
<1> HIDE DEF A, o, r
<1>5. /\ r.inflight = q.inflight /\ r.flight = q.flight /\ r.successes = q.successes
      /\ r.errors = q.errors /\ r.fromTable = q.fromTable /\ r.slowdown = q.slowdown
      /\ r.closest = q.closest /\ r.tokens = q.tokens /\ r.committing = q.committing
      /\ r.toCommit = q.toCommit /\ r.commits = q.commits /\ r.done = q.done /\ r.fired = q.fired
  BY <1>4 DEF Fields
<1>6. \A p \in Peers : r.seen[p] = IF p \in Range(o) THEN "pending" ELSE q.seen[p]
  BY <1>2, <1>4
<1>7. \A p \in Range(o) : p \in Peers /\ q.seen[p] = "no"
  <2>1. Range(o) \subseteq Peers BY <1>2 DEF Range
  <2> QED BY <2>1, <1>1, <1>2
<1>8. Shape(q) /\ Apart(q) /\ Ranked(q) /\ Covered(q) /\ Open(q) BY DEF Live, Walking
<1>9. Range(q.pending) \subseteq Peers BY <1>8 DEF Shape, Range
<1>10. Range(q.pending) \cap Range(o) = {} BY <1>7, <1>8 DEF Apart
<1>11. Distinct(q.pending) BY <1>8 DEF Apart, Distinct
<1>12. /\ r.pending \in Seq(Peers) /\ Range(r.pending) = Range(q.pending) \cup Range(o)
       /\ Distinct(r.pending)
  BY <1>2, <1>3, <1>4, <1>8, <1>10, <1>11, Joined DEF Shape
<1>13. r.seen \in [Peers -> {"no", "pending", "done", "down"}]
  BY <1>4, <1>8 DEF Shape
<1>14. Shape(r) BY <1>5, <1>8, <1>12, <1>13 DEF Shape
<1>15. Apart(r)
  <2>1. \A p \in r.flight : p \in Peers /\ r.seen[p] = "pending" /\ p \notin Range(r.pending)
    BY <1>5, <1>6, <1>7, <1>8, <1>12 DEF Apart, Shape
  <2>2. \A p \in Range(r.pending) : r.seen[p] = "pending"
    BY <1>6, <1>7, <1>8, <1>9, <1>12 DEF Apart
  <2> QED BY <2>1, <2>2, <1>5, <1>8, <1>12 DEF Apart, Distinct
<1>16. Ranked(r)
  <2>1. Range(q.closest) \subseteq Peers BY <1>8 DEF Shape, Range
  <2>2. \A p \in Range(q.closest) : r.seen[p] = "done" BY <2>1, <1>6, <1>7, <1>8 DEF Ranked
  <2> QED BY <2>2, <1>5, <1>8 DEF Ranked
<1>17. Covered(r) BY <1>5, <1>6, <1>8, <1>12 DEF Covered, Unneeded
<1>18. Open(r) BY <1>5, <1>8 DEF Open
<1> QED BY <1>4, <1>14, <1>15, <1>16, <1>17, <1>18 DEF Live, Walking, r

\* A set of positions that is not empty has a first one.
LEMMA FirstOf ==
  ASSUME NEW n \in Nat, NEW I \in SUBSET (1 .. n), I # {}
  PROVE  \E m \in I : \A i \in I : m <= i
<1> DEFINE m == Position(I, 1)
           B == Below(I, m)
<1>1. IsFiniteSet(I)
  <2>1. IsFiniteSet(1 .. n) BY FS_Interval
  <2> QED BY <2>1, FS_Subset
<1>2. Cardinality(I) \in Nat /\ Cardinality(I) # 0 BY <1>1, FS_CardinalityType, FS_EmptySet
<1>3. 1 \in 1 .. Cardinality(I) BY <1>2
<1>4. m \in I /\ Cardinality(B) = 1 BY <1>3, Ranks
<1> HIDE DEF m
<1>0. I \subseteq Int OBVIOUS
<1>5. m \in B /\ B \in SUBSET I
  <2>1. m \in Int BY <1>0, <1>4
  <2> QED BY <1>4, <2>1 DEF Below
<1>6. IsFiniteSet(B) BY <1>1, <1>5, FS_Subset
<1>7. IsFiniteSet(B \ {m}) /\ Cardinality(B \ {m}) = 0 BY <1>4, <1>5, <1>6, FS_RemoveElement
<1>8. B \ {m} = {} BY <1>7, FS_EmptySet
<1>9. \A i \in I : m <= i
  <2> TAKE i \in I
  <2>1. CASE i \in B
    <3>1. i = m /\ m \in Int BY <2>1, <1>0, <1>4, <1>8
    <3> QED BY <3>1
  <2>2. CASE i \notin B
    <3>1. ~(i <= m) /\ i \in Int /\ m \in Int BY <2>2, <1>0, <1>4 DEF Below
    <3> QED BY <3>1
  <2> QED BY <2>1, <2>2
<1> QED BY <1>4, <1>9

\* Of the positions in W, at most m have fewer than m others above them.
LEMMA FewAbove ==
  ASSUME NEW n \in Nat, NEW W \in SUBSET (1 .. n), NEW V \in SUBSET W, NEW m \in Int,
         \A i \in V : Cardinality(Above(W, i)) < m
  PROVE  V = {} \/ Cardinality(V) <= m
<1> SUFFICES ASSUME V # {} PROVE Cardinality(V) <= m OBVIOUS
<1>0. V \in SUBSET (1 .. n) OBVIOUS
<1>1. IsFiniteSet(W)
  <2>1. IsFiniteSet(1 .. n) BY FS_Interval
  <2> QED BY <2>1, FS_Subset
<1>2. IsFiniteSet(V) BY <1>1, FS_Subset
<1>3. PICK k \in V : \A i \in V : k <= i BY <1>0, FirstOf
<1>4. V \ {k} \subseteq Above(W, k)
  <2> SUFFICES ASSUME NEW i \in V, i # k PROVE i \in W /\ i > k BY DEF Above
  <2>1. i \in Int /\ k \in Int /\ k <= i BY <1>0, <1>3
  <2> QED BY <2>1
<1>5. IsFiniteSet(Above(W, k)) BY <1>1, FS_Subset DEF Above
<1>6. Cardinality(V \ {k}) <= Cardinality(Above(W, k)) BY <1>4, <1>5, FS_Subset
<1>7. Cardinality(V \ {k}) = Cardinality(V) - 1 BY <1>2, <1>3, FS_RemoveElement
<1>8. Cardinality(V) \in Nat /\ Cardinality(Above(W, k)) \in Nat BY <1>2, <1>5, FS_CardinalityType
<1>9. Cardinality(Above(W, k)) < m OBVIOUS
<1> QED BY <1>6, <1>7, <1>8, <1>9

\* Pump field by field.
LEMMA PumpFields ==
  ASSUME NEW q, WalkRecord(q), NEW a
  PROVE  /\ WalkRecord(Pump(q, a))
         /\ Pump(q, a).pending = Only(q.pending, DOMAIN q.pending \ Popped(q))
         /\ Pump(q, a).inflight = q.inflight + Cardinality(Visited(q))
         /\ Pump(q, a).flight = q.flight \cup {q.pending[i] : i \in Sent(q, a)}
         /\ Pump(q, a).slowdown = (q.slowdown \/ (~q.fromTable /\ q.successes = 0 /\ q.errors = 0))
         /\ \A f \in Fields : f \notin {"pending", "inflight", "flight", "slowdown"} => Pump(q, a)[f] = q[f]
<1> DEFINE x == Only(q.pending, DOMAIN q.pending \ Popped(q))
           y == q.inflight + Cardinality(Visited(q))
           z == q.flight \cup {q.pending[i] : i \in Sent(q, a)}
           u == (q.slowdown \/ (~q.fromTable /\ q.successes = 0 /\ q.errors = 0))
           r == [q EXCEPT !.pending = x, !.inflight = y, !.flight = z, !.slowdown = u]
<1>1. Pump(q, a) = r BY DEF Pump
<1>2. "pending" \in Fields /\ "inflight" \in Fields /\ "flight" \in Fields /\ "slowdown" \in Fields BY DEF Fields
<1> HIDE DEF x, y, z, u
<1>3. DOMAIN r = Fields /\ r = [f \in Fields |-> r[f]] BY DEF WalkRecord
<1>4. r.pending = x /\ r.inflight = y /\ r.flight = z /\ r.slowdown = u BY <1>2 DEF WalkRecord
<1>5. \A f \in Fields : f \notin {"pending", "inflight", "flight", "slowdown"} => r[f] = q[f]
  BY <1>2 DEF WalkRecord
<1> QED BY <1>1, <1>3, <1>4, <1>5 DEF x, y, z, u, WalkRecord

\* An entry that read_more pops and skips is farther than the K-th of a full result.
LEMMA SkippedUnneeded ==
  ASSUME NEW q, Live(q), NEW p \in Peers, ~Worth(q, p), q.seen[p] = "pending"
  PROVE  Unneeded(q, p)
<1>1. ~(Len(q.closest) < K) /\ ~(p < q.closest[Len(q.closest)]) BY DEF Worth, IsCloser
<1>2. /\ q.closest \in Seq(Peers) /\ Len(q.closest) <= K
      /\ \A x \in Range(q.closest) : q.seen[x] = "done"
  BY DEF Live, Walking, Shape, Ranked
<1>3. K \in Nat \ {0} /\ Peers \subseteq Nat BY QueryAssumption
<1>4. Len(q.closest) \in Nat /\ DOMAIN q.closest = 1 .. Len(q.closest) BY <1>2
<1>5. Len(q.closest) = K /\ K \in DOMAIN q.closest BY <1>1, <1>2, <1>3, <1>4
<1>6. q.closest[K] \in Peers /\ q.closest[K] \in Range(q.closest) BY <1>2, <1>5 DEF Range
<1>7. q.closest[K] # p BY <1>2, <1>6
<1>8. p \in Nat /\ q.closest[K] \in Nat BY <1>3, <1>6
<1> QED BY <1>1, <1>5, <1>7, <1>8 DEF Unneeded

\* A walk that starts visits stays consistent, also if request() refuses some.
LEMMA PumpLive ==
  ASSUME NEW q, Live(q), NEW a
  PROVE  Live(Pump(q, a))
<1> DEFINE r == Pump(q, a)
           D == DOMAIN q.pending
           P == Popped(q)
           W == Worthwhile(q)
           V == Visited(q)
           T == Sent(q, a)
           X == {q.pending[i] : i \in T}
<1>1. Shape(q) /\ Apart(q) /\ Ranked(q) /\ Covered(q) /\ Open(q) BY DEF Live, Walking
<1>2. q.pending \in Seq(Peers) /\ D = 1 .. Len(q.pending) /\ Len(q.pending) \in Nat
  BY <1>1 DEF Shape
<1>3. /\ P \in SUBSET D /\ W \in SUBSET D /\ V = P \cap W /\ T \in SUBSET V /\ V \in SUBSET W
      /\ \A i \in P : Cardinality(Above(W, i)) < Limit(q) - q.inflight
      /\ \A i \in D \ W : ~Worth(q, q.pending[i])
  BY DEF Popped, Worthwhile, Visited, Sent
<1>4. /\ WalkRecord(r) /\ r.pending = Only(q.pending, D \ P)
      /\ r.inflight = q.inflight + Cardinality(V) /\ r.flight = q.flight \cup X
      /\ r.slowdown = (q.slowdown \/ (~q.fromTable /\ q.successes = 0 /\ q.errors = 0))
      /\ \A f \in Fields : f \notin {"pending", "inflight", "flight", "slowdown"} => r[f] = q[f]
  BY PumpFields DEF Live
<1>5. r.slowdown \in BOOLEAN BY <1>4
<1> HIDE DEF r, P, W, V, T
<1>6. /\ r.seen = q.seen /\ r.successes = q.successes
      /\ r.errors = q.errors /\ r.fromTable = q.fromTable
      /\ r.closest = q.closest /\ r.tokens = q.tokens /\ r.committing = q.committing
      /\ r.toCommit = q.toCommit /\ r.commits = q.commits /\ r.done = q.done /\ r.fired = q.fired
  BY <1>4 DEF Fields
<1>7. \A i, j \in D : q.pending[i] = q.pending[j] => i = j BY <1>1 DEF Apart
<1>8. r.pending \in Seq(Peers) /\ Range(r.pending) = {q.pending[i] : i \in D \ P}
  BY <1>2, <1>3, <1>4, OnlyKeeps
<1>9. Distinct(r.pending) BY <1>2, <1>3, <1>4, <1>7, OnlyDistinct
<1>10. \A i \in D : q.pending[i] \in Peers /\ q.seen[q.pending[i]] = "pending" /\ q.pending[i] \notin q.flight
  <2> TAKE i \in D
  <2>1. q.pending[i] \in Range(q.pending) BY DEF Range
  <2> QED BY <2>1, <1>1, <1>2 DEF Apart
<1>11. X \in SUBSET Peers /\ \A p \in X : q.seen[p] = "pending" /\ p \notin Range(r.pending)
  <2> SUFFICES ASSUME NEW i \in T
               PROVE  q.pending[i] \in Peers /\ q.seen[q.pending[i]] = "pending" /\ q.pending[i] \notin Range(r.pending)
    OBVIOUS
  <2>1. i \in D /\ i \in P BY <1>3
  <2>2. \A j \in D \ P : q.pending[j] # q.pending[i] BY <2>1, <1>7
  <2> QED BY <2>1, <2>2, <1>8, <1>10
<1>12. IsFiniteSet(Peers) /\ K \in Nat /\ Concurrency \in Nat /\ SlowConcurrency \in Nat BY QueryAssumption
<1>13. /\ IsFiniteSet(q.flight) /\ IsFiniteSet(X) /\ IsFiniteSet(q.flight \cup X)
       /\ IsFiniteSet(V) /\ IsFiniteSet(T)
  <2>1. IsFiniteSet(D)
    <3>1. Len(q.pending) \in Int /\ 1 \in Int BY <1>2
    <3>2. IsFiniteSet(1 .. Len(q.pending)) BY <3>1, FS_Interval
    <3> QED BY <3>2, <1>2
  <2>2. V \in SUBSET D /\ T \in SUBSET D BY <1>3
  <2>3. q.flight \in SUBSET Peers /\ q.flight \cup X \in SUBSET Peers BY <1>1, <1>11 DEF Shape
  <2> QED BY <2>1, <2>2, <2>3, <1>11, <1>12, FS_Subset
<1>14. Cardinality(X) <= Cardinality(T)
  <2> DEFINE g == [i \in T |-> q.pending[i]]
  <2>1. g \in Surjection(T, X) BY DEF Surjection
  <2> QED BY <2>1, <1>13, FS_Surjection
<1>15. Cardinality(T) <= Cardinality(V) /\ (Cardinality(T) = Cardinality(V) => T = V)
  BY <1>3, <1>13, FS_Subset
<1>16. /\ Cardinality(X) \in Nat /\ Cardinality(T) \in Nat /\ Cardinality(V) \in Nat
       /\ Cardinality(q.flight) \in Nat /\ Cardinality(q.flight \cup X) \in Nat
       /\ Cardinality(q.flight \cap X) \in Nat
  <2>1. IsFiniteSet(q.flight \cap X) BY <1>13, FS_Intersection
  <2> QED BY <2>1, <1>13, FS_CardinalityType
<1>17. Cardinality(q.flight \cup X) = Cardinality(q.flight) + Cardinality(X) - Cardinality(q.flight \cap X)
  BY <1>13, FS_Union
<1>18. Cardinality(r.flight) <= Cardinality(q.flight) + Cardinality(T)
  <2> DEFINE c == Cardinality(q.flight \cap X)
             d == Cardinality(q.flight \cup X)
  <2>1. r.flight = q.flight \cup X BY <1>4
  <2> QED BY <2>1, <1>14, <1>16, <1>17
<1>19. q.inflight \in Nat /\ q.inflight <= MostVisits /\ MostVisits \in Nat
       /\ Limit(q) <= MostVisits /\ Limit(q) \in Nat
  BY <1>1, <1>12 DEF Shape, MostVisits, Limit
<1>20. V = {} \/ Cardinality(V) <= Limit(q) - q.inflight
  <2>1. \A i \in V : Cardinality(Above(W, i)) < Limit(q) - q.inflight BY <1>3
  <2>2. Limit(q) - q.inflight \in Int BY <1>19
  <2> QED BY <2>1, <2>2, <1>2, <1>3, FewAbove
<1>21. r.inflight \in 0 .. MostVisits
  <2>1. CASE V = {}
    <3>1. Cardinality(V) = 0 BY <2>1, FS_EmptySet
    <3> QED BY <3>1, <1>4, <1>19
  <2>2. CASE Cardinality(V) <= Limit(q) - q.inflight BY <2>2, <1>4, <1>16, <1>19
  <2> QED BY <2>1, <2>2, <1>20
<1>22. r.flight \in SUBSET Peers BY <1>1, <1>4, <1>11 DEF Shape
<1>23. Shape(r) BY <1>1, <1>5, <1>6, <1>8, <1>21, <1>22 DEF Shape
<1>24. Range(r.pending) \subseteq Range(q.pending) BY <1>8 DEF Range
<1>25. Apart(r)
  <2>1. \A p \in r.flight : r.seen[p] = "pending" /\ p \notin Range(r.pending)
    BY <1>1, <1>4, <1>6, <1>11, <1>24 DEF Apart
  <2>2. \A p \in Range(r.pending) : r.seen[p] = "pending" BY <1>1, <1>6, <1>24 DEF Apart
  <2>3. Cardinality(r.flight) <= r.inflight
    <3>1. Cardinality(r.flight) \in Nat BY <1>4, <1>16
    <3>2. Cardinality(q.flight) <= q.inflight BY <1>1 DEF Apart
    <3> QED BY <3>1, <3>2, <1>4, <1>15, <1>16, <1>18, <1>19
  <2> QED BY <2>1, <2>2, <2>3, <1>9 DEF Apart, Distinct
<1>26. Ranked(r) BY <1>1, <1>6 DEF Ranked
<1>27. Covered(r)
  <2>0. Cardinality(r.flight) \in Nat /\ Cardinality(q.flight) <= q.inflight BY <1>1, <1>4, <1>16 DEF Apart
  <2>1. CASE Cardinality(q.flight) < q.inflight
    <3>1. Cardinality(r.flight) < r.inflight BY <2>0, <2>1, <1>4, <1>15, <1>16, <1>18, <1>19
    <3> QED BY <3>1 DEF Covered
  <2>2. CASE T # V
    <3>1. Cardinality(T) < Cardinality(V) BY <2>2, <1>15, <1>16
    <3>2. Cardinality(r.flight) < r.inflight BY <2>0, <3>1, <1>4, <1>16, <1>18, <1>19
    <3> QED BY <3>2 DEF Covered
  <2>3. CASE ~(Cardinality(q.flight) < q.inflight) /\ T = V
    <3> SUFFICES ASSUME NEW p \in Peers, r.seen[p] = "pending"
                 PROVE  p \in Range(r.pending) \/ p \in r.flight \/ Unneeded(r, p)
      BY DEF Covered
    <3>1. p \in Range(q.pending) \/ p \in q.flight \/ Unneeded(q, p) BY <2>3, <1>1, <1>6 DEF Covered
    <3>2. CASE p \in q.flight BY <3>2, <1>4
    <3>3. CASE Unneeded(q, p) BY <3>3, <1>6 DEF Unneeded
    <3>4. CASE p \in Range(q.pending)
      <4>1. PICK i \in D : p = q.pending[i] BY <3>4 DEF Range
      <4>2. CASE i \notin P BY <4>1, <4>2, <1>8
      <4>3. CASE i \in P /\ i \in W
        <5>1. i \in T BY <4>3, <2>3, <1>3
        <5> QED BY <5>1, <4>1, <1>4
      <4>4. CASE i \notin W
        <5>1. ~Worth(q, p) BY <4>1, <4>4, <1>3
        <5>2. Unneeded(q, p) BY <5>1, <1>6, SkippedUnneeded
        <5> QED BY <5>2, <1>6 DEF Unneeded
      <4> QED BY <4>2, <4>3, <4>4
    <3> QED BY <3>1, <3>2, <3>3, <3>4
  <2> QED BY <2>1, <2>2, <2>3
<1>28. Open(r) BY <1>1, <1>6 DEF Open
<1> QED BY <1>4, <1>23, <1>25, <1>26, <1>27, <1>28 DEF Live, Walking, r

\* A set of positions that holds what is below its members is an initial segment.
LEMMA InitialSegment ==
  ASSUME NEW n \in Nat, NEW I \in SUBSET (1 .. n), \A i \in I : \A j \in 1 .. i : j \in I
  PROVE  I = 1 .. Cardinality(I) /\ Cardinality(I) \in 0 .. n
<1> DEFINE R == (1 .. n) \ I
<1>1. CASE R = {}
  <2>1. I = 1 .. n BY <1>1
  <2>2. Cardinality(1 .. n) = n BY FS_Interval
  <2> QED BY <2>1, <2>2
<1>2. CASE R # {}
  <2>1. PICK m \in R : \A i \in R : m <= i BY <1>2, FirstOf
  <2>2. m \in 1 .. n /\ m \notin I BY <2>1
  <2>3. \A i \in I : i \in 1 .. m - 1
    <3> TAKE i \in I
    <3>1. i \in 1 .. n /\ m \notin 1 .. i BY <2>2
    <3> QED BY <3>1, <2>2
  <2>4. \A i \in 1 .. m - 1 : i \in I
    <3> TAKE i \in 1 .. m - 1
    <3>1. i \in 1 .. n /\ ~(m <= i) BY <2>2
    <3> QED BY <3>1, <2>1
  <2>5. I = 1 .. m - 1 BY <2>3, <2>4
  <2>6. Cardinality(1 .. m - 1) = m - 1 BY <2>2, FS_Interval
  <2> QED BY <2>2, <2>5, <2>6
<1> QED BY <1>1, <1>2

\* Insertion into a result that is sorted and does not hold the node.
Inserted(c, p) ==
  LET nearer == Cardinality({i \in DOMAIN c : c[i] < p})
      length == IF Len(c) < K THEN Len(c) + 1 ELSE Len(c)
  IN  [i \in 1 .. length |-> IF i <= nearer THEN c[i] ELSE IF i = nearer + 1 THEN p ELSE c[i - 1]]

LEMMA InsertedSorted ==
  ASSUME NEW c \in Seq(Peers), Len(c) <= K, Rising(c), NEW p \in Peers, p \notin Range(c)
  PROVE  /\ Inserted(c, p) \in Seq(Peers) /\ Len(Inserted(c, p)) <= K /\ Rising(Inserted(c, p))
         /\ Range(Inserted(c, p)) \subseteq Range(c) \cup {p}
         /\ Len(c) = K => Len(Inserted(c, p)) = K /\ Inserted(c, p)[K] <= c[K]
<1> DEFINE n == Len(c)
           N == {i \in DOMAIN c : c[i] < p}
           k == Cardinality(N)
           m == IF n < K THEN n + 1 ELSE n
           s == [i \in 1 .. m |-> IF i <= k THEN c[i] ELSE IF i = k + 1 THEN p ELSE c[i - 1]]
<1>1. Inserted(c, p) = s BY DEF Inserted
<1>2. n \in Nat /\ DOMAIN c = 1 .. n /\ K \in Nat \ {0} /\ n <= K /\ Peers \subseteq Nat BY QueryAssumption
<1>3. \A i \in 1 .. n : c[i] \in Peers /\ c[i] \in Nat /\ c[i] # p
  <2> TAKE i \in 1 .. n
  <2>1. c[i] \in Peers BY <1>2
  <2>2. c[i] \in Range(c) BY <1>2 DEF Range
  <2> QED BY <2>1, <2>2, <1>2
<1>4. p \in Nat /\ n \in Nat BY <1>2
<1>5. N = 1 .. k /\ k \in 0 .. n
  <2>1. N \in SUBSET (1 .. n) BY <1>2
  <2>2. ASSUME NEW i \in N, NEW j \in 1 .. i PROVE j \in N
    <3>1. i \in 1 .. n /\ c[i] < p /\ j \in 1 .. n BY <2>1
    <3>2. c[j] <= c[i]
      <4>1. CASE j = i BY <4>1, <3>1, <1>3
      <4>2. CASE j # i
        <5>1. j < i BY <4>2, <3>1
        <5> QED BY <5>1, <3>1, <1>2, <1>3 DEF Rising
      <4> QED BY <4>1, <4>2
    <3>3. c[j] < p BY <3>1, <3>2, <1>3, <1>4
    <3> QED BY <3>1, <3>3, <1>2
  <2>3. \A i \in N : \A j \in 1 .. i : j \in N BY <2>2
  <2> HIDE DEF N
  <2> QED BY <2>1, <2>3, <1>2, InitialSegment
<1>50. \A i \in 1 .. n : i \in N <=> c[i] < p BY <1>2
<1> HIDE DEF N, k, n
<1>6. \A i \in 1 .. n : (i <= k => c[i] < p) /\ (k < i => p < c[i])
  <2> TAKE i \in 1 .. n
  <2>0. i \in Int /\ k \in Int BY <1>4, <1>5
  <2>1. i <= k => i \in N BY <2>0, <1>5
  <2>2. k < i => i \notin N BY <2>0, <1>5
  <2>3. c[i] \in Nat /\ c[i] # p BY <1>3
  <2>4. i <= k => c[i] < p BY <2>1, <1>50
  <2>5. k < i => ~(c[i] < p) BY <2>2, <1>50
  <2> QED BY <2>3, <2>4, <2>5, <1>4
<1>7. \A i, j \in 1 .. n : i < j => c[i] < c[j] BY <1>2 DEF Rising
<1>8. m \in Nat /\ m <= K /\ n <= m /\ m <= n + 1 /\ (n = K => m = K) BY <1>2
<1> HIDE DEF m
<1>9. \A i \in 1 .. m : s[i] = IF i <= k THEN c[i] ELSE IF i = k + 1 THEN p ELSE c[i - 1] OBVIOUS
<1>10. DOMAIN s = 1 .. m OBVIOUS
<1>11. \A i \in 1 .. m : /\ i <= k => i \in 1 .. n
                         /\ ~(i <= k) /\ i # k + 1 => i - 1 \in 1 .. n
  BY <1>2, <1>5, <1>8
<1>12. \A i \in 1 .. m : s[i] \in Peers /\ (s[i] \in Range(c) \/ s[i] = p)
  <2> TAKE i \in 1 .. m
  <2>1. CASE i <= k
    <3>1. s[i] = c[i] /\ i \in 1 .. n BY <2>1, <1>9, <1>11
    <3> QED BY <3>1, <1>2, <1>3 DEF Range
  <2>2. CASE i = k + 1
    <3>1. ~(i <= k) BY <2>2, <1>5
    <3> QED BY <3>1, <2>2, <1>9
  <2>3. CASE ~(i <= k) /\ i # k + 1
    <3>1. s[i] = c[i - 1] /\ i - 1 \in 1 .. n BY <2>3, <1>9, <1>11
    <3> QED BY <3>1, <1>2, <1>3 DEF Range
  <2> QED BY <2>1, <2>2, <2>3
<1>13. s \in Seq(Peers) /\ Len(s) = m BY <1>8, <1>12
<1> HIDE DEF s
<1>14. ASSUME NEW i \in 1 .. m, NEW j \in 1 .. m, i < j PROVE s[i] < s[j]
  <2>0. i \in Nat /\ j \in Nat /\ k \in Nat BY <1>5
  <2>1. CASE j <= k
    <3>1. i <= k /\ i \in 1 .. n /\ j \in 1 .. n BY <2>0, <2>1, <1>11, <1>14
    <3> QED BY <3>1, <2>1, <1>7, <1>9, <1>14
  <2>2. CASE j = k + 1
    <3>1. i <= k /\ i \in 1 .. n /\ ~(j <= k) BY <2>0, <2>2, <1>11, <1>14
    <3>2. s[i] = c[i] /\ s[j] = p BY <3>1, <2>2, <1>9
    <3> QED BY <3>1, <3>2, <1>6
  <2>3. CASE k + 1 < j
    <3>1. ~(j <= k) /\ j # k + 1 /\ j - 1 \in 1 .. n BY <2>0, <2>3, <1>11
    <3>2. s[j] = c[j - 1] BY <3>1, <1>9
    <3>3. CASE i <= k
      <4>1. i \in 1 .. n /\ i < j - 1 BY <3>3, <2>0, <2>3, <1>11
      <4>2. s[i] = c[i] BY <3>3, <1>9
      <4> QED BY <4>1, <4>2, <3>1, <3>2, <1>7
    <3>4. CASE i = k + 1
      <4>1. ~(i <= k) /\ k < j - 1 BY <3>4, <2>0, <2>3
      <4>2. s[i] = p BY <3>4, <4>1, <1>9
      <4> QED BY <4>1, <4>2, <3>1, <3>2, <1>6
    <3>5. CASE k + 1 < i
      <4>1. ~(i <= k) /\ i # k + 1 /\ i - 1 < j - 1 BY <3>5, <2>0, <1>14
      <4>2. i - 1 \in 1 .. n /\ s[i] = c[i - 1] BY <4>1, <1>9, <1>11
      <4> QED BY <4>1, <4>2, <3>1, <3>2, <1>7
    <3> QED BY <3>3, <3>4, <3>5, <2>0
  <2> QED BY <2>0, <2>1, <2>2, <2>3
<1>15. Rising(s) BY <1>10, <1>14 DEF Rising, s
<1>16. ASSUME n = K PROVE s[K] <= c[K]
  <2>0. K \in 1 .. m /\ K \in 1 .. n /\ k \in Nat /\ c[K] \in Nat BY <1>2, <1>3, <1>5, <1>8, <1>16
  <2>1. CASE K <= k BY <2>0, <2>1, <1>9
  <2>2. CASE K = k + 1
    <3>1. s[K] = p /\ p < c[K] BY <2>0, <2>2, <1>2, <1>6, <1>9
    <3> QED BY <3>1, <2>0, <1>4
  <2>3. CASE k + 1 < K
    <3>1. ~(K <= k) /\ K # k + 1 /\ K - 1 \in 1 .. n /\ K - 1 < K BY <2>0, <2>3, <1>2, <1>11
    <3>2. s[K] = c[K - 1] /\ c[K - 1] < c[K] /\ c[K - 1] \in Nat BY <3>1, <2>0, <1>3, <1>7, <1>9
    <3> QED BY <3>2, <2>0
  <2> QED BY <2>0, <2>1, <2>2, <2>3, <1>2
<1>17. Range(s) \subseteq Range(c) \cup {p}
  <2>1. DOMAIN s = 1 .. m BY <1>10
  <2> QED BY <2>1, <1>12 DEF Range
<1> QED BY <1>1, <1>8, <1>13, <1>15, <1>16, <1>17 DEF n

LEMMA PushClosestFields ==
  ASSUME NEW q, WalkRecord(q), NEW p
  PROVE  /\ WalkRecord(PushClosest(q, p))
         /\ PushClosest(q, p).closest = IF p \in Range(q.closest) THEN q.closest ELSE Inserted(q.closest, p)
         /\ \A f \in Fields : f # "closest" => PushClosest(q, p)[f] = q[f]
<1> DEFINE x == Inserted(q.closest, p)
           r == [q EXCEPT !.closest = x]
<1>1. PushClosest(q, p) = IF p \in Range(q.closest) THEN q ELSE r BY DEF PushClosest, Inserted
<1>2. "closest" \in Fields BY DEF Fields
<1> HIDE DEF x
<1>3. DOMAIN r = Fields /\ r = [f \in Fields |-> r[f]] BY DEF WalkRecord
<1>4. r.closest = x /\ \A f \in Fields : f # "closest" => r[f] = q[f] BY <1>2 DEF WalkRecord
<1> QED BY <1>1, <1>3, <1>4 DEF x, WalkRecord

\* A new entry in the result keeps it sorted and needs no node that was not needed before.
LEMMA PushClosestLive ==
  ASSUME NEW q, Live(q), NEW p \in Peers, q.seen[p] = "done"
  PROVE  Live(PushClosest(q, p))
<1> DEFINE r == PushClosest(q, p)
           x == Inserted(q.closest, p)
<1>1. Shape(q) /\ Apart(q) /\ Ranked(q) /\ Covered(q) /\ Open(q) BY DEF Live, Walking
<1>2. /\ WalkRecord(r) /\ r.closest = IF p \in Range(q.closest) THEN q.closest ELSE x
      /\ \A f \in Fields : f # "closest" => r[f] = q[f]
  BY PushClosestFields DEF Live
<1> HIDE DEF r, x
<1>3. /\ r.pending = q.pending /\ r.seen = q.seen /\ r.successes = q.successes
      /\ r.errors = q.errors /\ r.fromTable = q.fromTable /\ r.inflight = q.inflight
      /\ r.flight = q.flight /\ r.slowdown = q.slowdown /\ r.tokens = q.tokens
      /\ r.committing = q.committing
      /\ r.toCommit = q.toCommit /\ r.commits = q.commits /\ r.done = q.done /\ r.fired = q.fired
  BY <1>2 DEF Fields
<1>4. q.closest \in Seq(Peers) /\ Len(q.closest) <= K /\ Rising(q.closest) BY <1>1 DEF Shape, Ranked
<1>5. /\ r.closest \in Seq(Peers) /\ Len(r.closest) <= K /\ Rising(r.closest)
      /\ Range(r.closest) \subseteq Range(q.closest) \cup {p}
      /\ Len(q.closest) = K => Len(r.closest) = K /\ r.closest[K] <= q.closest[K]
  <2>1. CASE p \in Range(q.closest)
    <3>1. r.closest = q.closest BY <2>1, <1>2
    <3>2. Len(q.closest) = K => q.closest[K] \in Nat
      <4>1. K \in Nat \ {0} /\ Peers \subseteq Nat BY QueryAssumption
      <4>2. ASSUME Len(q.closest) = K PROVE q.closest[K] \in Peers
        <5>1. K \in 1 .. Len(q.closest) BY <4>1, <4>2
        <5> QED BY <5>1, <1>4
      <4> QED BY <4>1, <4>2
    <3>3. Len(q.closest) = K => q.closest[K] <= q.closest[K] BY <3>2
    <3> QED BY <3>1, <3>3, <1>4
  <2>2. CASE p \notin Range(q.closest)
    <3>1. r.closest = x BY <2>2, <1>2
    <3> QED BY <3>1, <2>2, <1>4, InsertedSorted DEF x
  <2> QED BY <2>1, <2>2
<1>6. \A y \in Peers : Unneeded(q, y) => Unneeded(r, y)
  <2> SUFFICES ASSUME NEW y \in Peers, Unneeded(q, y) PROVE Unneeded(r, y) OBVIOUS
  <2>1. Len(q.closest) = K /\ q.closest[K] < y BY DEF Unneeded
  <2>2. K \in Nat \ {0} /\ Peers \subseteq Nat BY QueryAssumption
  <2>3. q.closest[K] \in Peers BY <2>1, <2>2, <1>4
  <2>4. r.closest[K] \in Peers BY <2>1, <2>2, <1>5
  <2> QED BY <2>1, <2>2, <2>3, <2>4, <1>5 DEF Unneeded
<1>7. Shape(r) BY <1>1, <1>3, <1>5 DEF Shape
<1>8. Apart(r) BY <1>1, <1>3 DEF Apart
<1>9. Ranked(r) BY <1>1, <1>3, <1>5 DEF Ranked
<1>10. Covered(r) BY <1>1, <1>3, <1>6 DEF Covered
<1>11. Open(r) BY <1>1, <1>3 DEF Open
<1> QED BY <1>2, <1>7, <1>8, <1>9, <1>10, <1>11 DEF Live, Walking, r

\* The two flags, the two counters and the tokens do not matter to the walk.
LEMMA DetailsLive ==
  ASSUME NEW q, Live(q), NEW r, WalkRecord(r),
         r.fromTable \in BOOLEAN, r.slowdown \in BOOLEAN,
         r.successes \in Nat, r.errors \in Nat, r.tokens \in SUBSET Peers,
         \A f \in Fields : f \notin {"fromTable", "slowdown", "successes", "errors", "tokens"} => r[f] = q[f]
  PROVE  Live(r)
<1>1. Shape(q) /\ Apart(q) /\ Ranked(q) /\ Covered(q) /\ Open(q) BY DEF Live, Walking
<1>2. /\ r.pending = q.pending /\ r.seen = q.seen /\ r.inflight = q.inflight
      /\ r.flight = q.flight /\ r.closest = q.closest /\ r.committing = q.committing
      /\ r.toCommit = q.toCommit /\ r.commits = q.commits /\ r.done = q.done /\ r.fired = q.fired
  BY DEF Fields
<1>3. Shape(r) BY <1>1, <1>2 DEF Shape
<1>4. Apart(r) BY <1>1, <1>2 DEF Apart
<1>5. Ranked(r) BY <1>1, <1>2 DEF Ranked
<1>6. Covered(r) BY <1>1, <1>2 DEF Covered, Unneeded
<1>7. Open(r) BY <1>1, <1>2 DEF Open
<1> QED BY <1>3, <1>4, <1>5, <1>6, <1>7 DEF Live, Walking

LEMMA SeedFromTableLive ==
  ASSUME NEW q, Live(q)
  PROVE  Live(SeedFromTable(q))
<1> DEFINE n == IF K - Len(q.pending) < Len(Table) THEN K - Len(q.pending) ELSE Len(Table)
           t == SubSeq(Table, 1, n)
           r == [q EXCEPT !.fromTable = TRUE]
<1>1. CASE K - Len(q.pending) <= 0
  <2>1. SeedFromTable(q) = q BY <1>1 DEF SeedFromTable
  <2> QED BY <2>1
<1>2. CASE ~(K - Len(q.pending) <= 0)
  <2>1. SeedFromTable(q) = AddPending(r, Reverse(t)) BY <1>2 DEF SeedFromTable
  <2>2. Table \in Seq(Peers) /\ K \in Nat BY QueryAssumption
  <2>3. q.pending \in Seq(Peers) /\ Len(q.pending) \in Nat BY DEF Live, Walking, Shape
  <2>4. n \in 0 .. Len(Table) /\ Len(Table) \in Nat BY <2>2, <2>3, <1>2
  <2> HIDE DEF n
  <2>5. t \in Seq(Peers) /\ Len(t) = n BY <2>2, <2>4
  <2> HIDE DEF t
  <2>6. Reverse(t) \in Seq(Peers)
    <3>1. Len(t) \in Nat BY <2>5
    <3>2. \A i \in 1 .. Len(t) : t[(Len(t) - i) + 1] \in Peers
      <4> TAKE i \in 1 .. Len(t)
      <4>1. (Len(t) - i) + 1 \in 1 .. Len(t) BY <3>1
      <4> QED BY <4>1, <2>5
    <3> QED BY <3>1, <3>2 DEF Reverse
  <2>7. Live(r)
    <3>1. WalkRecord(q) /\ q.slowdown \in BOOLEAN /\ q.successes \in Nat /\ q.errors \in Nat
          /\ q.tokens \in SUBSET Peers
      BY DEF Live, Walking, Shape
    <3>2. "fromTable" \in Fields BY DEF Fields
    <3>3. WalkRecord(r) BY <3>1 DEF WalkRecord
    <3>4. r.fromTable = TRUE /\ \A f \in Fields : f # "fromTable" => r[f] = q[f] BY <3>1, <3>2 DEF WalkRecord
    <3> HIDE DEF r
    <3>5. r.slowdown = q.slowdown /\ r.successes = q.successes /\ r.errors = q.errors /\ r.tokens = q.tokens
      BY <3>4 DEF Fields
    <3>6. r.fromTable \in BOOLEAN BY <3>4
    <3> QED BY <3>1, <3>3, <3>4, <3>5, <3>6, DetailsLive
  <2> QED BY <2>1, <2>6, <2>7, AddPendingLive
<1> QED BY <1>1, <1>2

LEMMA FinishedFields ==
  ASSUME NEW q, WalkRecord(q)
  PROVE  /\ WalkRecord(Finished(q)) /\ Finished(q).done = TRUE
         /\ Finished(q).fired = IF q.fired = 0 THEN 1 ELSE q.fired
         /\ \A f \in Fields : f \notin {"done", "fired"} => Finished(q)[f] = q[f]
<1> DEFINE s == [q EXCEPT !.done = TRUE]
           t == [s EXCEPT !.fired = 1]
<1>1. Finished(q) = IF s.fired = 0 THEN t ELSE s BY DEF Finished, FireDoneOnce
<1>2. "done" \in Fields /\ "fired" \in Fields BY DEF Fields
<1>3. WalkRecord(s) BY DEF WalkRecord
<1>4. s.done = TRUE /\ \A f \in Fields : f # "done" => s[f] = q[f] BY <1>2 DEF WalkRecord
<1>5. s.fired = q.fired BY <1>2, <1>4
<1> HIDE DEF s
<1>6. WalkRecord(t) BY <1>3 DEF WalkRecord
<1>7. t.fired = 1 /\ \A f \in Fields : f # "fired" => t[f] = s[f] BY <1>2, <1>3 DEF WalkRecord
<1>8. t.done = TRUE BY <1>2, <1>4, <1>7
<1> HIDE DEF t
<1> QED BY <1>1, <1>2, <1>3, <1>4, <1>5, <1>6, <1>7, <1>8

LEMMA DestroyedFields ==
  ASSUME NEW q, WalkRecord(q)
  PROVE  /\ WalkRecord(Destroyed(q)) /\ Destroyed(q).done = TRUE /\ Destroyed(q).committing = TRUE
         /\ Destroyed(q).pending = <<>>
         /\ Destroyed(q).fired = IF q.fired = 0 THEN 1 ELSE q.fired
         /\ \A f \in Fields : f \notin {"done", "fired", "pending", "committing"} => Destroyed(q)[f] = q[f]
<1> DEFINE s == [q EXCEPT !.done = TRUE, !.pending = <<>>, !.committing = TRUE]
           t == [s EXCEPT !.fired = 1]
<1>1. Destroyed(q) = IF s.fired = 0 THEN t ELSE s BY DEF Destroyed, FireDoneOnce
<1>2. "done" \in Fields /\ "fired" \in Fields /\ "pending" \in Fields /\ "committing" \in Fields BY DEF Fields
<1>3. WalkRecord(s) BY DEF WalkRecord
<1>4. s.done = TRUE /\ s.pending = <<>> /\ s.committing = TRUE
      /\ \A f \in Fields : f \notin {"done", "pending", "committing"} => s[f] = q[f]
  BY <1>2 DEF WalkRecord
<1>5. s.fired = q.fired BY <1>2, <1>4
<1> HIDE DEF s
<1>6. WalkRecord(t) BY <1>3 DEF WalkRecord
<1>7. t.fired = 1 /\ \A f \in Fields : f # "fired" => t[f] = s[f] BY <1>2, <1>3 DEF WalkRecord
<1>8. t.done = TRUE /\ t.pending = <<>> /\ t.committing = TRUE BY <1>2, <1>4, <1>7
<1> HIDE DEF t
<1> QED BY <1>1, <1>2, <1>3, <1>4, <1>5, <1>6, <1>7, <1>8

\* The walk itself is the same in two records.
SameWalk(q, r) ==
  /\ r.pending = q.pending /\ r.seen = q.seen /\ r.inflight = q.inflight /\ r.flight = q.flight
  /\ r.successes = q.successes /\ r.errors = q.errors /\ r.fromTable = q.fromTable
  /\ r.slowdown = q.slowdown /\ r.closest = q.closest /\ r.tokens = q.tokens

LEMMA SameWalking ==
  ASSUME NEW q, NEW r, SameWalk(q, r), Walking(q)
  PROVE  Walking(r)
<1>1. Shape(r) BY DEF Walking, SameWalk, Shape
<1>2. Apart(r) BY DEF Walking, SameWalk, Apart
<1>3. Ranked(r) BY DEF Walking, SameWalk, Ranked
<1>4. Covered(r) BY DEF Walking, SameWalk, Covered, Unneeded
<1> QED BY <1>1, <1>2, <1>3, <1>4 DEF Walking

\* A walk with nothing left ends: at once, or with its commits.
LEMMA MaybeFinishOver ==
  ASSUME NEW q, Live(q), WalkIdle(q), NEW a
  PROVE  Over(MaybeFinish(q, a))
<1>1. WalkRecord(q) /\ Walking(q) /\ Open(q) BY DEF Live
<1>2. q.pending = <<>> /\ q.inflight = 0 BY DEF WalkIdle
<1>3. IsFiniteSet(Peers) BY QueryAssumption
<1>4. q.flight = {}
  <2>1. q.flight \in SUBSET Peers /\ Cardinality(q.flight) <= 0 BY <1>1, <1>2 DEF Walking, Shape, Apart
  <2>2. IsFiniteSet(q.flight) BY <2>1, <1>3, FS_Subset
  <2>3. Cardinality(q.flight) = 0 BY <2>1, <2>2, FS_CardinalityType
  <2> QED BY <2>2, <2>3, FS_EmptySet
<1>5. Cardinality({}) = 0 BY FS_EmptySet
<1> DEFINE targets == {p \in Range(q.closest) : p \in q.tokens}
           sent == {p \in targets : Cardinality({t \in targets : t < p}) < a}
           n == Cardinality(targets)
           r == [q EXCEPT !.committing = TRUE, !.toCommit = n, !.commits = sent]
           m == MaybeFinish(q, a)
<1>6. m = IF hasCommit THEN (IF targets = {} THEN Finished(r) ELSE r) ELSE Finished(q)
  BY <1>1 DEF MaybeFinish, DoCommit, Open
<1>7. /\ targets \subseteq Range(q.closest) \cap q.tokens /\ sent \in SUBSET targets
      /\ IsFiniteSet(targets) /\ n \in Nat /\ Cardinality(sent) <= n
  <2>1. q.closest \in Seq(Peers) BY <1>1 DEF Walking, Shape
  <2>2. Range(q.closest) \subseteq Peers BY <2>1 DEF Range
  <2>3. targets \in SUBSET Peers BY <2>2
  <2>4. IsFiniteSet(targets) BY <2>3, <1>3, FS_Subset
  <2> QED BY <2>4, FS_Subset, FS_CardinalityType
<1>8. "committing" \in Fields /\ "toCommit" \in Fields /\ "commits" \in Fields BY DEF Fields
<1> HIDE DEF targets, sent, n
<1>9. WalkRecord(r) BY <1>1 DEF WalkRecord
<1>10. /\ r.committing = TRUE /\ r.toCommit = n /\ r.commits = sent
       /\ \A f \in Fields : f \notin {"committing", "toCommit", "commits"} => r[f] = q[f]
  BY <1>1, <1>8 DEF WalkRecord
<1> HIDE DEF r
<1>11. SameWalk(q, r) /\ r.done = q.done /\ r.fired = q.fired BY <1>10 DEF Fields, SameWalk
<1>12. q.done = FALSE /\ q.committing = FALSE /\ q.fired = 0 /\ q.toCommit = 0 /\ q.commits = {} BY <1>1 DEF Open
<1>13. CASE ~hasCommit
  <2>1. m = Finished(q) BY <1>13, <1>6
  <2> HIDE DEF m
  <2>2. /\ WalkRecord(m) /\ m.done = TRUE /\ m.fired = 1
        /\ \A f \in Fields : f \notin {"done", "fired"} => m[f] = q[f]
    BY <2>1, <1>1, <1>12, FinishedFields
  <2>3. SameWalk(q, m) /\ m.committing = q.committing /\ m.toCommit = q.toCommit /\ m.commits = q.commits
    BY <2>2 DEF Fields, SameWalk
  <2>4. Walking(m) BY <2>3, <1>1, SameWalking
  <2>5. CommitsFit(m) BY <2>3, <1>5, <1>12 DEF CommitsFit
  <2>6. m.pending = <<>> /\ m.inflight = 0 /\ m.flight = {} BY <2>3, <1>2, <1>4 DEF SameWalk
  <2>7. m.committing \in BOOLEAN BY <2>3, <1>12
  <2> QED BY <2>2, <2>3, <2>4, <2>5, <2>6, <2>7, <1>12 DEF Over, m
<1>14. CASE hasCommit /\ targets = {}
  <2>1. m = Finished(r) BY <1>14, <1>6
  <2> HIDE DEF m
  <2>2. /\ WalkRecord(m) /\ m.done = TRUE /\ m.fired = 1
        /\ \A f \in Fields : f \notin {"done", "fired"} => m[f] = r[f]
    BY <2>1, <1>9, <1>11, <1>12, FinishedFields
  <2>3. SameWalk(r, m) /\ m.committing = TRUE /\ m.toCommit = n /\ m.commits = sent
    BY <2>2, <1>10 DEF Fields, SameWalk
  <2>4. Walking(m) BY <2>3, <1>1, <1>11, SameWalking
  <2>5. n = 0 /\ sent = {} BY <1>5, <1>7, <1>14 DEF n
  <2>6. CommitsFit(m) BY <2>3, <2>5, <1>5 DEF CommitsFit
  <2>7. m.pending = <<>> /\ m.inflight = 0 /\ m.flight = {} BY <2>3, <1>2, <1>4, <1>11 DEF SameWalk
  <2>8. m.committing \in BOOLEAN BY <2>3
  <2> QED BY <2>2, <2>3, <2>4, <2>5, <2>6, <2>7, <2>8 DEF Over, m
<1>15. CASE hasCommit /\ targets # {}
  <2>1. m = r BY <1>15, <1>6
  <2>2. Walking(r) BY <1>1, <1>11, SameWalking
  <2>3. CommitsFit(r)
    <3>1. r.closest = q.closest /\ r.tokens = q.tokens BY <1>11 DEF SameWalk
    <3>2. sent \subseteq Range(q.closest) \cap q.tokens BY <1>7
    <3> QED BY <3>1, <3>2, <1>7, <1>10 DEF CommitsFit
  <2>4. r.pending = <<>> /\ r.inflight = 0 /\ r.flight = {} BY <1>2, <1>4, <1>11 DEF SameWalk
  <2>5. Over(r) BY <2>2, <2>3, <2>4, <1>9, <1>10, <1>11, <1>12 DEF Over
  <2> QED BY <2>1, <2>5
<1> QED BY <1>13, <1>14, <1>15

LEMMA ReadMoreKeeps ==
  ASSUME NEW q, Live(q), NEW a
  PROVE  Live(ReadMore(q, a)) \/ Over(ReadMore(q, a))
<1> DEFINE r == Pump(q, a)
           t == Pump(SeedFromTable(r), a)
<1>1. Live(r) BY PumpLive
<1>2. Live(t) BY <1>1, SeedFromTableLive, PumpLive
<1>3. q.done = FALSE BY DEF Live, Open
<1>4. ReadMore(q, a) = IF ~WalkIdle(r) THEN r
                       ELSE IF ~r.fromTable /\ r.successes < FewSuccesses
                            THEN IF WalkIdle(t) THEN MaybeFinish(t, a) ELSE t
                            ELSE MaybeFinish(r, a)
  BY <1>3 DEF ReadMore
<1> HIDE DEF r, t
<1>5. WalkIdle(t) => Over(MaybeFinish(t, a)) BY <1>2, MaybeFinishOver
<1>6. WalkIdle(r) => Over(MaybeFinish(r, a)) BY <1>1, MaybeFinishOver
<1> QED BY <1>1, <1>2, <1>4, <1>5, <1>6

LEMMA VisitEndedFields ==
  ASSUME NEW q, WalkRecord(q), NEW p
  PROVE  /\ WalkRecord(VisitEnded(q, p))
         /\ VisitEnded(q, p).flight = q.flight \ {p} /\ VisitEnded(q, p).inflight = q.inflight - 1
         /\ \A f \in Fields : f \notin {"flight", "inflight"} => VisitEnded(q, p)[f] = q[f]
<1> DEFINE r == [q EXCEPT !.flight = q.flight \ {p}, !.inflight = q.inflight - 1]
<1>1. VisitEnded(q, p) = r BY DEF VisitEnded
<1>2. "flight" \in Fields /\ "inflight" \in Fields BY DEF Fields
<1>3. WalkRecord(r) BY DEF WalkRecord
<1>4. /\ r.flight = q.flight \ {p} /\ r.inflight = q.inflight - 1
      /\ \A f \in Fields : f \notin {"flight", "inflight"} => r[f] = q[f]
  BY <1>2 DEF WalkRecord
<1> QED BY <1>1, <1>3, <1>4

\* A visit that ends gives back its unit of inflight_.
LEMMA UnitBack ==
  ASSUME NEW q, Shape(q), Apart(q), NEW p \in q.flight
  PROVE  /\ Cardinality(q.flight \ {p}) = Cardinality(q.flight) - 1
         /\ Cardinality(q.flight) \in Nat \ {0} /\ q.inflight \in Nat \ {0}
         /\ q.inflight - 1 \in 0 .. MostVisits
<1>1. IsFiniteSet(Peers) BY QueryAssumption
<1>2. q.flight \in SUBSET Peers /\ q.inflight \in 0 .. MostVisits /\ Cardinality(q.flight) <= q.inflight
  BY DEF Shape, Apart
<1>3. IsFiniteSet(q.flight) BY <1>1, <1>2, FS_Subset
<1>4. Cardinality(q.flight) \in Nat /\ Cardinality(q.flight) # 0 BY <1>3, FS_CardinalityType, FS_EmptySet
<1>5. Cardinality(q.flight \ {p}) = Cardinality(q.flight) - 1 BY <1>3, FS_RemoveElement
<1>6. MostVisits \in Nat BY QueryAssumption DEF MostVisits
<1> QED BY <1>2, <1>4, <1>5, <1>6

\* A late callback of a destroyed query only gives back its unit.
LEMMA VisitEndedDead ==
  ASSUME NEW q, Dead(q), NEW p \in q.flight
  PROVE  Dead(VisitEnded(q, p))
<1> DEFINE r == VisitEnded(q, p)
<1>1. /\ WalkRecord(r) /\ r.flight = q.flight \ {p} /\ r.inflight = q.inflight - 1
      /\ \A f \in Fields : f \notin {"flight", "inflight"} => r[f] = q[f]
  BY VisitEndedFields DEF Dead
<1> HIDE DEF r
<1>2. /\ r.pending = q.pending /\ r.seen = q.seen /\ r.successes = q.successes
      /\ r.errors = q.errors /\ r.fromTable = q.fromTable /\ r.slowdown = q.slowdown
      /\ r.closest = q.closest /\ r.tokens = q.tokens /\ r.committing = q.committing
      /\ r.toCommit = q.toCommit /\ r.commits = q.commits /\ r.done = q.done /\ r.fired = q.fired
  BY <1>1 DEF Fields
<1>3. Shape(q) /\ Apart(q) /\ Ranked(q) /\ CommitsFit(q) BY DEF Dead
<1>4. /\ Cardinality(q.flight \ {p}) = Cardinality(q.flight) - 1
      /\ Cardinality(q.flight) \in Nat \ {0} /\ q.inflight \in Nat \ {0}
      /\ q.inflight - 1 \in 0 .. MostVisits
  BY <1>3, UnitBack
<1>5. Shape(r)
  <2>1. q.flight \ {p} \in SUBSET Peers BY <1>3 DEF Shape
  <2> QED BY <2>1, <1>1, <1>2, <1>3, <1>4 DEF Shape
<1>6. Apart(r)
  <2>1. Cardinality(r.flight) <= r.inflight
    <3>1. Cardinality(q.flight) <= q.inflight BY <1>3 DEF Apart
    <3> QED BY <3>1, <1>1, <1>4
  <2>2. \A x \in r.flight : r.seen[x] = "pending" /\ x \notin Range(r.pending) BY <1>1, <1>2, <1>3 DEF Apart
  <2> QED BY <2>1, <2>2, <1>2, <1>3 DEF Apart
<1>7. Ranked(r) BY <1>2, <1>3 DEF Ranked
<1>8. CommitsFit(r) BY <1>2, <1>3 DEF CommitsFit
<1> QED BY <1>1, <1>2, <1>5, <1>6, <1>7, <1>8 DEF Dead, r

\* A visit that was answered or expired: the node is resolved.
Resolved(q, r, p, s) ==
  /\ WalkRecord(r) /\ r.flight = q.flight \ {p} /\ r.inflight = q.inflight - 1
  /\ r.seen = [q.seen EXCEPT ![p] = s]
  /\ r.successes \in Nat /\ r.errors \in Nat
  /\ \A f \in Fields : f \notin {"flight", "inflight", "seen", "successes", "errors"} => r[f] = q[f]

LEMMA ResolvedLive ==
  ASSUME NEW q, Live(q), NEW p \in q.flight, NEW s \in {"done", "down"}, NEW r, Resolved(q, r, p, s)
  PROVE  Live(r) /\ r.seen[p] = s
<1>1. Shape(q) /\ Apart(q) /\ Ranked(q) /\ Covered(q) /\ Open(q) BY DEF Live, Walking
<1>2. /\ WalkRecord(r) /\ r.flight = q.flight \ {p} /\ r.inflight = q.inflight - 1
      /\ r.seen = [q.seen EXCEPT ![p] = s] /\ r.successes \in Nat /\ r.errors \in Nat
  BY DEF Resolved
<1>3. /\ r.pending = q.pending /\ r.fromTable = q.fromTable /\ r.slowdown = q.slowdown
      /\ r.closest = q.closest /\ r.tokens = q.tokens /\ r.committing = q.committing
      /\ r.toCommit = q.toCommit /\ r.commits = q.commits /\ r.done = q.done /\ r.fired = q.fired
  BY DEF Resolved, Fields
<1>4. /\ Cardinality(q.flight \ {p}) = Cardinality(q.flight) - 1
      /\ Cardinality(q.flight) \in Nat \ {0} /\ q.inflight \in Nat \ {0}
      /\ q.inflight - 1 \in 0 .. MostVisits
  BY <1>1, UnitBack
<1>5. /\ p \in Peers /\ q.flight \in SUBSET Peers /\ q.flight \ {p} \in SUBSET Peers
      /\ q.seen \in [Peers -> {"no", "pending", "done", "down"}]
  BY <1>1 DEF Shape
<1>6. /\ r.seen \in [Peers -> {"no", "pending", "done", "down"}]
      /\ r.seen[p] = s /\ \A x \in Peers : x # p => r.seen[x] = q.seen[x]
  BY <1>2, <1>5
<1>7. q.seen[p] = "pending" /\ p \notin Range(q.pending) BY <1>1 DEF Apart
<1>8. Shape(r) BY <1>1, <1>2, <1>3, <1>4, <1>5, <1>6 DEF Shape
<1>9. Apart(r)
  <2>1. Cardinality(r.flight) <= r.inflight
    <3>1. Cardinality(q.flight) <= q.inflight BY <1>1 DEF Apart
    <3> QED BY <3>1, <1>2, <1>4
  <2>2. \A x \in r.flight : r.seen[x] = "pending" /\ x \notin Range(r.pending)
    <3> TAKE x \in r.flight
    <3>1. x \in q.flight /\ x # p /\ x \in Peers BY <1>2, <1>5
    <3> QED BY <3>1, <1>1, <1>3, <1>6 DEF Apart
  <2>3. \A x \in Range(r.pending) : r.seen[x] = "pending"
    <3> TAKE x \in Range(r.pending)
    <3>1. x # p /\ x \in Range(q.pending) /\ q.seen[x] = "pending" BY <1>1, <1>3, <1>7 DEF Apart
    <3>2. Range(q.pending) \subseteq Peers BY <1>1 DEF Shape, Range
    <3> QED BY <3>1, <3>2, <1>6
  <2> QED BY <2>1, <2>2, <2>3, <1>1, <1>3 DEF Apart
<1>10. Ranked(r)
  <2>1. \A x \in Range(q.closest) : r.seen[x] = "done"
    <3> TAKE x \in Range(q.closest)
    <3>1. q.seen[x] = "done" /\ x # p BY <1>1, <1>7 DEF Ranked
    <3>2. Range(q.closest) \subseteq Peers BY <1>1 DEF Shape, Range
    <3> QED BY <3>1, <3>2, <1>6
  <2> QED BY <2>1, <1>1, <1>3 DEF Ranked
<1>11. Covered(r)
  <2>1. CASE Cardinality(q.flight) < q.inflight
    <3>1. Cardinality(r.flight) < r.inflight BY <2>1, <1>2, <1>4
    <3> QED BY <3>1 DEF Covered
  <2>2. CASE ~(Cardinality(q.flight) < q.inflight)
    <3> SUFFICES ASSUME NEW x \in Peers, r.seen[x] = "pending"
                 PROVE  x \in Range(r.pending) \/ x \in r.flight \/ Unneeded(r, x)
      BY DEF Covered
    <3>1. x # p /\ q.seen[x] = "pending" BY <1>6
    <3>2. x \in Range(q.pending) \/ x \in q.flight \/ Unneeded(q, x) BY <3>1, <2>2, <1>1 DEF Covered
    <3> QED BY <3>1, <3>2, <1>2, <1>3 DEF Unneeded
  <2> QED BY <2>1, <2>2
<1>12. Open(r) BY <1>1, <1>3 DEF Open
<1> QED BY <1>2, <1>6, <1>8, <1>9, <1>10, <1>11, <1>12 DEF Live, Walking

\* destroy() on a query that is not done.
LEMMA DestroyedDead ==
  ASSUME NEW q, Live(q) \/ (Over(q) /\ q.done = FALSE)
  PROVE  Dead(Destroyed(q))
<1> DEFINE r == Destroyed(q)
<1>1. WalkRecord(q) /\ Shape(q) /\ Apart(q) /\ Ranked(q) /\ q.fired = 0
  BY DEF Live, Over, Walking, Open
<1>2. CommitsFit(q)
  <2>1. CASE Live(q)
    <3>1. q.commits = {} /\ q.toCommit = 0 BY <2>1 DEF Live, Open
    <3> QED BY <3>1, FS_EmptySet DEF CommitsFit
  <2>2. CASE Over(q) BY <2>2 DEF Over
  <2> QED BY <2>1, <2>2
<1>3. /\ WalkRecord(r) /\ r.done = TRUE /\ r.committing = TRUE /\ r.pending = <<>> /\ r.fired = 1
      /\ \A f \in Fields : f \notin {"done", "fired", "pending", "committing"} => r[f] = q[f]
  BY <1>1, DestroyedFields
<1> HIDE DEF r
<1>4. /\ r.seen = q.seen /\ r.successes = q.successes /\ r.inflight = q.inflight /\ r.flight = q.flight
      /\ r.errors = q.errors /\ r.fromTable = q.fromTable /\ r.slowdown = q.slowdown
      /\ r.closest = q.closest /\ r.tokens = q.tokens
      /\ r.toCommit = q.toCommit /\ r.commits = q.commits
  BY <1>3 DEF Fields
<1>5. r.pending \in Seq(Peers) /\ DOMAIN r.pending = {} /\ Range(r.pending) = {} BY <1>3 DEF Range
<1>6. Shape(r) BY <1>1, <1>4, <1>5 DEF Shape
<1>7. Apart(r) BY <1>1, <1>4, <1>5 DEF Apart
<1>8. Ranked(r) BY <1>1, <1>4 DEF Ranked
<1>9. CommitsFit(r) BY <1>2, <1>4 DEF CommitsFit
<1> QED BY <1>3, <1>6, <1>7, <1>8, <1>9 DEF Dead, r

LEMMA NowFields ==
  /\ WalkRecord(Now)
  /\ Now.pending = pending /\ Now.seen = seen /\ Now.inflight = inflight /\ Now.flight = flight
  /\ Now.successes = successes /\ Now.errors = errors /\ Now.fromTable = fromTable
  /\ Now.slowdown = slowdown /\ Now.closest = closest /\ Now.tokens = tokens
  /\ Now.committing = committing /\ Now.toCommit = toCommit /\ Now.commits = commits
  /\ Now.done = done /\ Now.fired = fired
BY DEF Now, WalkRecord, Fields

LEMMA BecomesNow ==
  ASSUME NEW r, WalkRecord(r), Becomes(r)
  PROVE  Now' = r
<1>1. /\ WalkRecord(Now')
      /\ Now'.pending = pending' /\ Now'.seen = seen' /\ Now'.inflight = inflight' /\ Now'.flight = flight'
      /\ Now'.successes = successes' /\ Now'.errors = errors' /\ Now'.fromTable = fromTable'
      /\ Now'.slowdown = slowdown' /\ Now'.closest = closest' /\ Now'.tokens = tokens'
      /\ Now'.committing = committing' /\ Now'.toCommit = toCommit' /\ Now'.commits = commits'
      /\ Now'.done = done' /\ Now'.fired = fired'
  BY DEF Now, WalkRecord, Fields
<1>2. \A f \in Fields : Now'[f] = r[f] BY <1>1 DEF Becomes, Fields
<1> QED BY <1>1, <1>2 DEF WalkRecord

\* A callback that leaves a consistent record leaves a consistent query.
Kept(r, gone) == (gone = FALSE /\ (Live(r) \/ Over(r))) \/ (gone = TRUE /\ Dead(r))

LEMMA Became ==
  ASSUME QueryInv, NEW r, Becomes(r), UNCHANGED setup, started' = TRUE,
         seeds' \in Seq(Peers), Kept(r, destroyed')
  PROVE  QueryInv'
<1>1. WalkRecord(r) BY DEF Kept, Live, Over, Dead
<1>2. Now' = r BY <1>1, BecomesNow
<1>3. boot' \in SUBSET Peers /\ hasCommit' \in BOOLEAN BY DEF QueryInv, setup
<1>4. Live(Now)' <=> Live(r) BY <1>2
<1>5. Over(Now)' <=> Over(r) BY <1>2
<1>6. Dead(Now)' <=> Dead(r) BY <1>2
<1> QED BY <1>3, <1>4, <1>5, <1>6 DEF QueryInv, Kept

LEMMA StartStep ==
  ASSUME QueryInv, NEW a, Start(a)
  PROVE  QueryInv'
<1> DEFINE q == AddPending(Now, Reverse(seeds))
           s == IF Len(q.pending) < K THEN SeedFromTable(q) ELSE q
           r == ReadMore(s, a)
<1>1. Live(Now) /\ destroyed = FALSE /\ seeds \in Seq(Peers) BY DEF QueryInv, Start
<1>2. Reverse(seeds) \in Seq(Peers)
  <2>1. Len(seeds) \in Nat BY <1>1
  <2>2. \A i \in 1 .. Len(seeds) : seeds[(Len(seeds) - i) + 1] \in Peers
    <3> TAKE i \in 1 .. Len(seeds)
    <3>1. (Len(seeds) - i) + 1 \in 1 .. Len(seeds) BY <2>1
    <3> QED BY <3>1, <1>1
  <2> QED BY <2>1, <2>2 DEF Reverse
<1>3. Live(q) BY <1>1, <1>2, AddPendingLive
<1> HIDE DEF q
<1>4. Live(s) BY <1>3, SeedFromTableLive
<1> HIDE DEF s
<1>5. Live(r) \/ Over(r) BY <1>4, ReadMoreKeeps
<1> HIDE DEF r
<1>6. Becomes(r) /\ UNCHANGED setup /\ started' = TRUE /\ seeds' = <<>> /\ destroyed' = destroyed
  BY DEF Start, r, s, q
<1>7. seeds' \in Seq(Peers) BY <1>6
<1> QED BY <1>1, <1>5, <1>6, <1>7, Became DEF Kept

LEMMA TimeoutStep ==
  ASSUME QueryInv, NEW p, NEW a, Timeout(p, a)
  PROVE  QueryInv'
<1> DEFINE q0 == VisitEnded(Now, p)
           q1 == [q0 EXCEPT !.seen[p] = "down", !.errors = @ + 1]
           r == IF done THEN q0 ELSE ReadMore(q1, a)
<1>1. p \in flight /\ Becomes(r) /\ UNCHANGED <<setup, seeds, started, destroyed>> BY DEF Timeout
<1>2. started = TRUE /\ p \in Now.flight BY <1>1, NowFields DEF QueryInv
<1>3. seeds' \in Seq(Peers) /\ started' = TRUE /\ UNCHANGED setup /\ destroyed' = destroyed
  BY <1>1, <1>2 DEF QueryInv
<1>4. /\ WalkRecord(q0) /\ q0.flight = Now.flight \ {p} /\ q0.inflight = Now.inflight - 1
      /\ \A f \in Fields : f \notin {"flight", "inflight"} => q0[f] = Now[f]
  BY NowFields, VisitEndedFields
<1>5. CASE destroyed = TRUE
  <2>1. Dead(Now) /\ done BY <1>5, NowFields DEF QueryInv, Dead
  <2>2. r = q0 BY <2>1
  <2>3. Dead(q0) BY <2>1, <1>2, VisitEndedDead
  <2> QED BY <2>2, <2>3, <1>1, <1>3, <1>5, Became DEF Kept
<1>6. CASE destroyed = FALSE
  <2>1. Live(Now)
    <3>1. Now.flight # {} BY <1>2
    <3> QED BY <3>1, <1>6 DEF QueryInv, Over
  <2>2. done = FALSE /\ Now.errors \in Nat /\ Now.successes \in Nat
    BY <2>1, NowFields DEF Live, Open, Walking, Shape
  <2>3. r = ReadMore(q1, a) BY <2>2
  <2>4. "seen" \in Fields /\ "errors" \in Fields /\ "successes" \in Fields BY DEF Fields
  <2>5. q0.seen = Now.seen /\ q0.errors = Now.errors /\ q0.successes = Now.successes BY <2>4, <1>4
  <2> HIDE DEF q0
  <2>6. WalkRecord(q1) BY <1>4 DEF WalkRecord
  <2>7. /\ q1.seen = [q0.seen EXCEPT ![p] = "down"] /\ q1.errors = q0.errors + 1
        /\ \A f \in Fields : f \notin {"seen", "errors"} => q1[f] = q0[f]
    BY <2>4, <1>4 DEF WalkRecord
  <2> HIDE DEF q1
  <2>8. "flight" \in Fields /\ "inflight" \in Fields BY DEF Fields
  <2>9. Resolved(Now, q1, p, "down")
    <3>1. q1.flight = Now.flight \ {p} /\ q1.inflight = Now.inflight - 1 BY <2>7, <2>8, <1>4
    <3>2. q1.seen = [Now.seen EXCEPT ![p] = "down"] BY <2>5, <2>7
    <3>3. q1.successes \in Nat /\ q1.errors \in Nat BY <2>2, <2>4, <2>5, <2>7
    <3>4. \A f \in Fields : f \notin {"flight", "inflight", "seen", "successes", "errors"} => q1[f] = Now[f]
      BY <2>7, <1>4
    <3> QED BY <3>1, <3>2, <3>3, <3>4, <2>6 DEF Resolved
  <2>10. Live(q1) BY <2>1, <2>9, <1>2, ResolvedLive
  <2>11. Live(r) \/ Over(r) BY <2>3, <2>10, ReadMoreKeeps
  <2> HIDE DEF r
  <2> QED BY <2>11, <1>1, <1>3, <1>6, Became DEF Kept
<1>7. destroyed \in BOOLEAN BY DEF QueryInv
<1> QED BY <1>5, <1>6, <1>7

\* What an answer of p makes of a walk before it goes on.
LEMMA AnswerLive ==
  ASSUME NEW q, Live(q), NEW p \in q.flight, NEW named \in BOOLEAN, NEW ok \in BOOLEAN, NEW token \in BOOLEAN,
         NEW closer \in Seq(Peers)
  PROVE  Live(Answered(q, p, named, ok, token, closer))
<1> DEFINE q0 == VisitEnded(q, p)
           q1 == [q0 EXCEPT !.seen[p] = "done",
                            !.successes = IF ok THEN @ + 1 ELSE @,
                            !.errors = IF ok THEN @ ELSE @ + 1]
           c == PushClosest(q1, p)
           d == [c EXCEPT !.tokens = IF token THEN @ \cup {p} ELSE @]
           q2 == IF ok /\ named THEN d ELSE q1
           q3 == AddPending(q2, closer)
           e == [q3 EXCEPT !.slowdown = FALSE]
           q4 == IF ~q3.fromTable /\ q3.successes + q3.errors >= Concurrency THEN e ELSE q3
<1>0. /\ "seen" \in Fields /\ "errors" \in Fields /\ "successes" \in Fields /\ "flight" \in Fields
      /\ "inflight" \in Fields /\ "tokens" \in Fields /\ "slowdown" \in Fields /\ "fromTable" \in Fields
  BY DEF Fields
<1>1. WalkRecord(q) /\ q.errors \in Nat /\ q.successes \in Nat /\ p \in Peers BY DEF Live, Walking, Shape
<1>2. /\ WalkRecord(q0) /\ q0.flight = q.flight \ {p} /\ q0.inflight = q.inflight - 1
      /\ \A f \in Fields : f \notin {"flight", "inflight"} => q0[f] = q[f]
  BY <1>1, VisitEndedFields
<1> HIDE DEF q0
<1>3. WalkRecord(q1) BY <1>2 DEF WalkRecord
<1>4. /\ q1.seen = [q0.seen EXCEPT ![p] = "done"]
      /\ q1.successes = (IF ok THEN q0.successes + 1 ELSE q0.successes)
      /\ q1.errors = (IF ok THEN q0.errors ELSE q0.errors + 1)
      /\ \A f \in Fields : f \notin {"seen", "successes", "errors"} => q1[f] = q0[f]
  BY <1>0, <1>2 DEF WalkRecord
<1> HIDE DEF q1
<1>5. Resolved(q, q1, p, "done")
  <2>1. q1.flight = q.flight \ {p} /\ q1.inflight = q.inflight - 1 BY <1>0, <1>2, <1>4
  <2>2. q0.seen = q.seen /\ q0.errors = q.errors /\ q0.successes = q.successes BY <1>0, <1>2
  <2>3. q1.seen = [q.seen EXCEPT ![p] = "done"] BY <2>2, <1>4
  <2>4. q1.successes \in Nat /\ q1.errors \in Nat BY <2>2, <1>1, <1>4
  <2>5. \A f \in Fields : f \notin {"flight", "inflight", "seen", "successes", "errors"} => q1[f] = q[f]
    BY <1>2, <1>4
  <2> QED BY <2>1, <2>3, <2>4, <2>5, <1>3 DEF Resolved
<1>6. Live(q1) /\ q1.seen[p] = "done" BY <1>5, ResolvedLive
<1>7. Live(c) BY <1>1, <1>6, PushClosestLive
<1> HIDE DEF c
<1>8. /\ WalkRecord(c) /\ c.fromTable \in BOOLEAN /\ c.slowdown \in BOOLEAN /\ c.successes \in Nat
      /\ c.errors \in Nat /\ c.tokens \in SUBSET Peers
  BY <1>7 DEF Live, Walking, Shape
<1>9. Live(d)
  <2> DEFINE x == IF token THEN c.tokens \cup {p} ELSE c.tokens
  <2>1. x \in SUBSET Peers BY <1>1, <1>8
  <2>2. d = [c EXCEPT !.tokens = x] OBVIOUS
  <2> HIDE DEF x, d
  <2>3. WalkRecord(d) BY <2>2, <1>8 DEF WalkRecord
  <2>4. d.tokens = x /\ \A f \in Fields : f # "tokens" => d[f] = c[f] BY <2>2, <1>0, <1>8 DEF WalkRecord
  <2>5. d.fromTable = c.fromTable /\ d.slowdown = c.slowdown /\ d.successes = c.successes /\ d.errors = c.errors
    BY <2>4, <1>0
  <2> QED BY <2>1, <2>3, <2>4, <2>5, <1>7, <1>8, DetailsLive
<1> HIDE DEF d
<1>10. Live(q2) BY <1>6, <1>9
<1> HIDE DEF q2
<1>11. Live(q3) BY <1>10, AddPendingLive
<1> HIDE DEF q3
<1>12. /\ WalkRecord(q3) /\ q3.fromTable \in BOOLEAN /\ q3.successes \in Nat
       /\ q3.errors \in Nat /\ q3.tokens \in SUBSET Peers
  BY <1>11 DEF Live, Walking, Shape
<1>13. Live(e)
  <2>1. WalkRecord(e) BY <1>12 DEF WalkRecord
  <2>2. e.slowdown = FALSE /\ \A f \in Fields : f # "slowdown" => e[f] = q3[f] BY <1>0, <1>12 DEF WalkRecord
  <2> HIDE DEF e
  <2>3. e.fromTable = q3.fromTable /\ e.successes = q3.successes /\ e.errors = q3.errors /\ e.tokens = q3.tokens
    BY <2>2, <1>0
  <2>4. e.slowdown \in BOOLEAN BY <2>2
  <2> QED BY <2>1, <2>2, <2>3, <2>4, <1>11, <1>12, DetailsLive
<1> HIDE DEF e
<1>14. Live(q4) BY <1>11, <1>13
<1>15. Answered(q, p, named, ok, token, closer) = q4 BY DEF Answered, q4, e, q3, q2, d, c, q1, q0
<1> QED BY <1>14, <1>15

LEMMA ResponseStep ==
  ASSUME QueryInv, NEW p, NEW named \in BOOLEAN, NEW ok \in BOOLEAN, NEW token \in BOOLEAN, NEW stop \in BOOLEAN,
         NEW closer \in Seq(Peers), NEW a, Response(p, named, ok, token, closer, stop, a)
  PROVE  QueryInv'
<1> DEFINE q0 == VisitEnded(Now, p)
           q4 == Answered(Now, p, named, ok, token, closer)
           q5 == IF stop THEN Destroyed(q4) ELSE ReadMore(q4, a)
           r == IF done THEN q0 ELSE q5
<1>1. /\ p \in flight /\ Becomes(r) /\ destroyed' = (destroyed \/ (stop /\ ~done))
      /\ UNCHANGED <<setup, seeds, started>>
  BY DEF Response
<1>2. started = TRUE /\ p \in Now.flight BY <1>1, NowFields DEF QueryInv
<1>3. seeds' \in Seq(Peers) /\ started' = TRUE /\ UNCHANGED setup
  BY <1>1, <1>2 DEF QueryInv
<1>4. CASE destroyed = TRUE
  <2>1. Dead(Now) /\ done BY <1>4, NowFields DEF QueryInv, Dead
  <2>2. r = q0 BY <2>1
  <2>3. Dead(q0) BY <2>1, <1>2, VisitEndedDead
  <2>4. destroyed' = TRUE BY <1>1, <1>4
  <2> QED BY <2>2, <2>3, <2>4, <1>1, <1>3, Became DEF Kept
<1>5. CASE destroyed = FALSE
  <2>1. Live(Now)
    <3>1. Now.flight # {} BY <1>2
    <3> QED BY <3>1, <1>5 DEF QueryInv, Over
  <2>2. done = FALSE BY <2>1, NowFields DEF Live, Open
  <2>3. r = q5 BY <2>2
  <2>4. Live(q4) BY <2>1, <1>2, AnswerLive
  <2> HIDE DEF q4
  <2>5. CASE stop = TRUE
    <3>1. r = Destroyed(q4) BY <2>3, <2>5
    <3>2. Dead(r) BY <3>1, <2>4, DestroyedDead
    <3>3. destroyed' = TRUE BY <2>2, <2>5, <1>1
    <3> HIDE DEF r
    <3> QED BY <3>2, <3>3, <1>1, <1>3, Became DEF Kept
  <2>6. CASE stop = FALSE
    <3>1. r = ReadMore(q4, a) BY <2>3, <2>6
    <3>2. Live(r) \/ Over(r) BY <3>1, <2>4, ReadMoreKeeps
    <3>3. destroyed' = FALSE BY <2>6, <1>1, <1>5
    <3> HIDE DEF r
    <3> QED BY <3>2, <3>3, <1>1, <1>3, Became DEF Kept
  <2> QED BY <2>5, <2>6
<1>6. destroyed \in BOOLEAN BY DEF QueryInv
<1> QED BY <1>4, <1>5, <1>6

LEMMA DestroyStep ==
  ASSUME QueryInv, DestroyQuery
  PROVE  QueryInv'
<1> DEFINE r == Destroyed(Now)
<1>1. started /\ ~done /\ Becomes(r) /\ destroyed' = TRUE /\ UNCHANGED <<setup, seeds, started>>
  BY DEF DestroyQuery
<1>2. started = TRUE BY <1>1 DEF QueryInv
<1>3. Live(Now) \/ (Over(Now) /\ Now.done = FALSE) BY <1>1, NowFields DEF QueryInv, Over, Dead
<1>4. Dead(r) BY <1>3, DestroyedDead
<1>5. seeds' \in Seq(Peers) /\ started' = TRUE /\ UNCHANGED setup BY <1>1, <1>2 DEF QueryInv
<1> HIDE DEF r
<1> QED BY <1>1, <1>4, <1>5, Became DEF Kept

\* One commit less: its continuation may have run or not.
LEMMA OneCommitLess ==
  ASSUME NEW q, CommitsFit(q), q.commits \in SUBSET Peers, NEW p \in q.commits
  PROVE  /\ Cardinality(q.commits \ {p}) <= q.toCommit - 1 /\ q.toCommit - 1 \in Nat
         /\ Cardinality(q.commits \ {p}) \in Nat
         /\ q.toCommit - 1 = 0 => q.commits \ {p} = {}
<1>1. IsFiniteSet(Peers) BY QueryAssumption
<1>2. IsFiniteSet(q.commits) /\ IsFiniteSet(q.commits \ {p}) BY <1>1, FS_Subset
<1>3. Cardinality(q.commits) \in Nat /\ Cardinality(q.commits \ {p}) \in Nat BY <1>2, FS_CardinalityType
<1>4. Cardinality(q.commits \ {p}) = Cardinality(q.commits) - 1 BY <1>2, FS_RemoveElement
<1>5. q.toCommit \in Nat /\ Cardinality(q.commits) <= q.toCommit BY DEF CommitsFit
<1>6. Cardinality(q.commits \ {p}) = 0 => q.commits \ {p} = {} BY <1>2, FS_EmptySet
<1> QED BY <1>3, <1>4, <1>5, <1>6

\* The query goes on with another number of commits.
Recounted(q, r, S, n) ==
  /\ WalkRecord(r) /\ r.commits = S /\ r.toCommit = n
  /\ \A f \in Fields : f \notin {"commits", "toCommit"} => r[f] = q[f]

LEMMA RecountedFields ==
  ASSUME NEW q, NEW S, NEW n, NEW r, Recounted(q, r, S, n)
  PROVE  /\ SameWalk(q, r) /\ r.committing = q.committing /\ r.done = q.done /\ r.fired = q.fired
         /\ r.commits = S /\ r.toCommit = n /\ WalkRecord(r)
BY DEF Recounted, SameWalk, Fields

LEMMA RecountedOver ==
  ASSUME NEW q, Over(q), q.done = FALSE, NEW S, S \subseteq q.commits, NEW n \in Nat, Cardinality(S) <= n,
         NEW r, Recounted(q, r, S, n)
  PROVE  Over(r) /\ r.done = FALSE
<1>1. /\ SameWalk(q, r) /\ r.committing = q.committing /\ r.done = q.done /\ r.fired = q.fired
      /\ r.commits = S /\ r.toCommit = n /\ WalkRecord(r)
  BY RecountedFields
<1>2. Walking(q) /\ CommitsFit(q) /\ q.committing = TRUE /\ q.fired = 0 BY DEF Over
<1>3. Walking(r) BY <1>1, <1>2, SameWalking
<1>4. CommitsFit(r) BY <1>1, <1>2 DEF CommitsFit, SameWalk
<1>5. r.pending = <<>> /\ r.inflight = 0 /\ r.flight = {} BY <1>1 DEF Over, SameWalk
<1> QED BY <1>1, <1>2, <1>3, <1>4, <1>5 DEF Over

LEMMA SameDead ==
  ASSUME NEW q, Dead(q), NEW r, WalkRecord(r), SameWalk(q, r), CommitsFit(r),
         r.done = TRUE, r.committing = TRUE, r.fired = 1
  PROVE  Dead(r)
<1>1. Shape(r) BY DEF Dead, SameWalk, Shape
<1>2. Apart(r) BY DEF Dead, SameWalk, Apart
<1>3. Ranked(r) BY DEF Dead, SameWalk, Ranked
<1> QED BY <1>1, <1>2, <1>3 DEF Dead

LEMMA RecountedDead ==
  ASSUME NEW q, Dead(q), NEW S, S \subseteq q.commits, NEW n \in Nat, Cardinality(S) <= n,
         NEW r, Recounted(q, r, S, n)
  PROVE  Dead(r)
<1>1. /\ SameWalk(q, r) /\ r.committing = q.committing /\ r.done = q.done /\ r.fired = q.fired
      /\ r.commits = S /\ r.toCommit = n /\ WalkRecord(r)
  BY RecountedFields
<1>2. CommitsFit(r) BY <1>1 DEF CommitsFit, SameWalk, Dead
<1> QED BY <1>1, <1>2, SameDead DEF Dead

\* The last awaited commit ends the query; a destroyed one has ended already.
LEMMA FinishedOver ==
  ASSUME NEW q, Over(q), q.done = FALSE, q.toCommit = 0, q.commits = {}
  PROVE  Over(Finished(q))
<1> DEFINE r == Finished(q)
<1>1. WalkRecord(q) /\ Walking(q) /\ CommitsFit(q) /\ q.committing = TRUE /\ q.fired = 0 BY DEF Over
<1>2. /\ WalkRecord(r) /\ r.done = TRUE /\ r.fired = 1
      /\ \A f \in Fields : f \notin {"done", "fired"} => r[f] = q[f]
  BY <1>1, FinishedFields
<1> HIDE DEF r
<1>3. SameWalk(q, r) /\ r.committing = TRUE /\ r.toCommit = 0 /\ r.commits = {}
  BY <1>1, <1>2 DEF Fields, SameWalk
<1>4. Walking(r) BY <1>1, <1>3, SameWalking
<1>5. CommitsFit(r) BY <1>3, FS_EmptySet DEF CommitsFit
<1>6. r.pending = <<>> /\ r.inflight = 0 /\ r.flight = {} BY <1>3 DEF Over, SameWalk
<1>7. r.committing \in BOOLEAN BY <1>3
<1> QED BY <1>2, <1>3, <1>4, <1>5, <1>6, <1>7 DEF Over, r

LEMMA FinishedDead ==
  ASSUME NEW q, Dead(q)
  PROVE  Dead(Finished(q))
<1> DEFINE r == Finished(q)
<1>1. WalkRecord(q) /\ CommitsFit(q) /\ q.committing = TRUE /\ q.fired = 1 BY DEF Dead
<1>2. /\ WalkRecord(r) /\ r.done = TRUE /\ r.fired = 1
      /\ \A f \in Fields : f \notin {"done", "fired"} => r[f] = q[f]
  BY <1>1, FinishedFields
<1> HIDE DEF r
<1>3. SameWalk(q, r) /\ r.committing = TRUE /\ r.toCommit = q.toCommit /\ r.commits = q.commits
  BY <1>1, <1>2 DEF Fields, SameWalk
<1>4. CommitsFit(r) BY <1>1, <1>3 DEF CommitsFit, SameWalk
<1>5. Dead(r) BY <1>2, <1>3, <1>4, SameDead
<1> QED BY <1>5 DEF r

\* While commits are under way the query is past its walk.
LEMMA CommitPhase ==
  ASSUME QueryInv, NEW p \in commits
  PROVE  /\ started = TRUE /\ p \in Now.commits /\ CommitsFit(Now) /\ Now.commits \in SUBSET Peers
         /\ \/ destroyed = FALSE /\ Over(Now) /\ Now.done = FALSE
            \/ destroyed = TRUE /\ Dead(Now)
<1>1. p \in Now.commits BY NowFields
<1>2. ~Live(Now) BY <1>1 DEF Live, Open
<1>3. \/ destroyed = FALSE /\ Over(Now) /\ Now.done = FALSE
      \/ destroyed = TRUE /\ Dead(Now)
  BY <1>1, <1>2 DEF QueryInv, Over
<1>4. started = TRUE BY <1>2 DEF QueryInv
<1>5. CommitsFit(Now) /\ Now.closest \in Seq(Peers) BY <1>3 DEF Over, Dead, Walking, Shape
<1>6. Range(Now.closest) \subseteq Peers BY <1>5 DEF Range
<1> QED BY <1>1, <1>3, <1>4, <1>5, <1>6 DEF CommitsFit

LEMMA CommitAnswerStep ==
  ASSUME QueryInv, NEW p, CommitAnswer(p)
  PROVE  QueryInv'
<1> DEFINE S == commits \ {p}
           n == toCommit - 1
           q == [Now EXCEPT !.commits = S, !.toCommit = n]
           r == IF AllCommitted(q) THEN Finished(q) ELSE q
<1>1. Now.commits = commits /\ Now.toCommit = toCommit BY NowFields
<1>2. p \in commits /\ Becomes(r) /\ UNCHANGED <<setup, seeds, started, destroyed>>
  BY <1>1 DEF CommitAnswer
<1>3. /\ started = TRUE /\ p \in Now.commits /\ CommitsFit(Now) /\ Now.commits \in SUBSET Peers
      /\ \/ destroyed = FALSE /\ Over(Now) /\ Now.done = FALSE
         \/ destroyed = TRUE /\ Dead(Now)
  BY <1>2, CommitPhase
<1>4. seeds' \in Seq(Peers) /\ started' = TRUE /\ UNCHANGED setup /\ destroyed' = destroyed
  BY <1>2, <1>3 DEF QueryInv
<1>5. Cardinality(S) <= n /\ n \in Nat /\ (n = 0 => S = {}) /\ S \subseteq Now.commits
  BY <1>1, <1>3, OneCommitLess
<1>6. Recounted(Now, q, S, n)
  <2>1. "commits" \in Fields /\ "toCommit" \in Fields BY DEF Fields
  <2> HIDE DEF S, n
  <2>2. WalkRecord(q) BY NowFields DEF WalkRecord
  <2>3. /\ q.commits = S /\ q.toCommit = n
        /\ \A f \in Fields : f \notin {"commits", "toCommit"} => q[f] = Now[f]
    BY <2>1, NowFields DEF WalkRecord
  <2> QED BY <2>2, <2>3 DEF Recounted
<1> HIDE DEF q, S, n
<1>7. q.commits = S /\ q.toCommit = n BY <1>6 DEF Recounted
<1>8. CASE destroyed = FALSE /\ Over(Now) /\ Now.done = FALSE
  <2>1. Over(q) /\ q.done = FALSE BY <1>5, <1>6, <1>8, RecountedOver
  <2>2. AllCommitted(q) => Over(Finished(q))
    <3>1. AllCommitted(q) => q.toCommit = 0 /\ q.commits = {} BY <1>5, <1>7 DEF AllCommitted
    <3> QED BY <3>1, <2>1, FinishedOver
  <2>3. Over(r) BY <2>1, <2>2
  <2> HIDE DEF r
  <2> QED BY <2>3, <1>2, <1>4, <1>8, Became DEF Kept
<1>9. CASE destroyed = TRUE /\ Dead(Now)
  <2>1. Dead(q) BY <1>5, <1>6, <1>9, RecountedDead
  <2>2. Dead(r) BY <2>1, FinishedDead
  <2> HIDE DEF r
  <2> QED BY <2>2, <1>2, <1>4, <1>9, Became DEF Kept
<1> QED BY <1>3, <1>8, <1>9

LEMMA CommitTimeoutStep ==
  ASSUME QueryInv, NEW p, CommitTimeout(p)
  PROVE  QueryInv'
<1> DEFINE S == commits \ {p}
           q == [Now EXCEPT !.commits = S]
<1>1. Now.commits = commits /\ Now.toCommit = toCommit BY NowFields
<1>2. /\ p \in commits /\ commits' = S /\ UNCHANGED <<setup, seeds, started, destroyed>>
      /\ UNCHANGED <<pending, seen, inflight, flight, successes, errors, fromTable,
                     slowdown, closest, tokens, committing, toCommit, done, fired>>
  BY DEF CommitTimeout
<1>3. /\ started = TRUE /\ p \in Now.commits /\ CommitsFit(Now) /\ Now.commits \in SUBSET Peers
      /\ \/ destroyed = FALSE /\ Over(Now) /\ Now.done = FALSE
         \/ destroyed = TRUE /\ Dead(Now)
  BY <1>2, CommitPhase
<1>4. seeds' \in Seq(Peers) /\ started' = TRUE /\ UNCHANGED setup /\ destroyed' = destroyed
  BY <1>2, <1>3 DEF QueryInv
<1>5. Cardinality(S) <= toCommit /\ toCommit \in Nat /\ S \subseteq Now.commits
  <2>1. /\ Cardinality(S) <= toCommit - 1 /\ toCommit - 1 \in Nat /\ Cardinality(S) \in Nat /\ toCommit \in Nat
    BY <1>1, <1>3, OneCommitLess DEF CommitsFit
  <2> HIDE DEF S
  <2>2. Cardinality(S) <= toCommit BY <2>1
  <2> QED BY <2>1, <2>2, <1>1 DEF S
<1>6. Recounted(Now, q, S, toCommit)
  <2>1. "commits" \in Fields /\ "toCommit" \in Fields BY DEF Fields
  <2> HIDE DEF S
  <2>2. WalkRecord(q) BY NowFields DEF WalkRecord
  <2>3. q.commits = S /\ \A f \in Fields : f # "commits" => q[f] = Now[f]
    BY <2>1, NowFields DEF WalkRecord
  <2>4. q.toCommit = toCommit BY <2>1, <2>3, <1>1
  <2> QED BY <2>2, <2>3, <2>4 DEF Recounted
<1> HIDE DEF q
<1>7. Becomes(q)
  <2>1. /\ SameWalk(Now, q) /\ q.committing = Now.committing /\ q.done = Now.done /\ q.fired = Now.fired
        /\ q.commits = S /\ q.toCommit = toCommit
    BY <1>6, RecountedFields
  <2> HIDE DEF S
  <2> QED BY <2>1, <1>2, NowFields DEF Becomes, SameWalk
<1>8. CASE destroyed = FALSE /\ Over(Now) /\ Now.done = FALSE
  <2>1. Over(q) BY <1>5, <1>6, <1>8, RecountedOver
  <2> QED BY <2>1, <1>4, <1>7, <1>8, Became DEF Kept
<1>9. CASE destroyed = TRUE /\ Dead(Now)
  <2>1. Dead(q) BY <1>5, <1>6, <1>9, RecountedDead
  <2> QED BY <2>1, <1>4, <1>7, <1>9, Became DEF Kept
<1> QED BY <1>3, <1>8, <1>9

LEMMA QueryInit == WalkInit => QueryInv
<1> SUFFICES ASSUME WalkInit PROVE QueryInv OBVIOUS
<1>1. PICK list \in BootChoices : /\ boot = Range(AddPending(Nothing, list).pending)
                                  /\ pending = AddPending(Nothing, list).pending
                                  /\ seen = AddPending(Nothing, list).seen
  BY DEF WalkInit
<1> DEFINE q == AddPending(Nothing, list)
<1>2. list \in Seq(Peers) /\ seeds \in Seq(Peers) /\ hasCommit \in BOOLEAN BY QueryAssumption DEF WalkInit
<1>3. WalkRecord(Nothing) BY DEF Nothing, WalkRecord, Fields
<1>4. /\ Nothing.pending = <<>> /\ Nothing.seen = [p \in Peers |-> "no"] /\ Nothing.inflight = 0
      /\ Nothing.flight = {} /\ Nothing.successes = 0 /\ Nothing.errors = 0
      /\ Nothing.fromTable = FALSE /\ Nothing.slowdown = FALSE
      /\ Nothing.closest = <<>> /\ Nothing.tokens = {} /\ Nothing.committing = FALSE
      /\ Nothing.toCommit = 0 /\ Nothing.commits = {} /\ Nothing.done = FALSE /\ Nothing.fired = 0
  BY DEF Nothing
<1>5. Live(Nothing)
  <2>1. <<>> \in Seq(Peers) /\ DOMAIN <<>> = {} /\ Len(<<>>) = 0 /\ Range(<<>>) = {} BY DEF Range
  <2>2. Cardinality({}) = 0 BY FS_EmptySet
  <2>3. MostVisits \in Nat /\ K \in Nat BY QueryAssumption DEF MostVisits
  <2>4. Shape(Nothing)
    <3>1. Nothing.pending \in Seq(Peers) /\ Nothing.closest \in Seq(Peers) BY <2>1, <1>4
    <3>2. Nothing.seen \in [Peers -> {"no", "pending", "done", "down"}] BY <1>4
    <3>3. Nothing.inflight \in 0 .. MostVisits /\ Nothing.successes \in Nat /\ Nothing.errors \in Nat BY <2>3, <1>4
    <3>4. Nothing.flight \in SUBSET Peers /\ Nothing.tokens \in SUBSET Peers BY <1>4
    <3>5. Nothing.fromTable \in BOOLEAN /\ Nothing.slowdown \in BOOLEAN BY <1>4
    <3> QED BY <3>1, <3>2, <3>3, <3>4, <3>5 DEF Shape
  <2>5. Apart(Nothing) BY <2>1, <2>2, <1>4 DEF Apart
  <2>6. Ranked(Nothing) BY <2>1, <2>3, <1>4 DEF Ranked, Rising
  <2>7. Covered(Nothing) BY <1>4 DEF Covered
  <2>8. Open(Nothing) BY <1>4 DEF Open
  <2> QED BY <2>4, <2>5, <2>6, <2>7, <2>8, <1>3 DEF Live, Walking
<1>6. Live(q) BY <1>2, <1>5, AddPendingLive
<1>7. WalkRecord(q) /\ \A f \in Fields : f # "pending" /\ f # "seen" => q[f] = Nothing[f]
  <2>1. /\ WalkRecord(q) /\ q.pending = Nothing.pending \o Only(list, Added(Nothing, list))
        /\ q.seen = [p \in Peers |-> IF \E i \in Added(Nothing, list) : list[i] = p
                                     THEN "pending" ELSE Nothing.seen[p]]
        /\ \A f \in Fields : f # "pending" /\ f # "seen" => q[f] = Nothing[f]
    BY <1>3, AddPendingFields
  <2> QED BY <2>1
<1>8. q.pending = pending /\ q.seen = seen BY <1>1
<1>9. boot = Range(q.pending) BY <1>1
<1> HIDE DEF q
<1>10. boot \in SUBSET Peers
  <2>1. q.pending \in Seq(Peers) BY <1>6 DEF Live, Walking, Shape
  <2> QED BY <2>1, <1>9 DEF Range
<1>11. /\ q.inflight = inflight /\ q.flight = flight /\ q.successes = successes /\ q.errors = errors
       /\ q.fromTable = fromTable /\ q.slowdown = slowdown /\ q.closest = closest /\ q.tokens = tokens
       /\ q.committing = committing /\ q.toCommit = toCommit /\ q.commits = commits
       /\ q.done = done /\ q.fired = fired
  BY <1>4, <1>7 DEF Fields, WalkInit
<1>12. \A f \in Fields : Now[f] = q[f] BY <1>8, <1>11, NowFields DEF Fields
<1>13. Now = q BY <1>7, <1>12, NowFields DEF WalkRecord
<1> QED BY <1>2, <1>6, <1>10, <1>13 DEF QueryInv, WalkInit

LEMMA CloserListsShape == CloserLists \subseteq Seq(Peers)
<1> SUFFICES ASSUME NEW c \in CloserLists PROVE c \in Seq(Peers) OBVIOUS
<1>1. PICK n \in 0 .. MaxCloser : c \in [1 .. n -> Peers] BY DEF CloserLists
<1>2. n \in Nat BY QueryAssumption
<1> QED BY <1>1, <1>2

LEMMA QueryStep ==
  ASSUME QueryInv, [WalkNext]_walkVars
  PROVE  QueryInv'
<1>1. ASSUME NEW a \in Accepted, Start(a) PROVE QueryInv' BY <1>1, StartStep
<1>2. ASSUME NEW p \in Peers, Answer(p) PROVE QueryInv'
  <2>1. PICK named, ok, token, stop \in BOOLEAN, closer \in CloserLists, a \in Accepted :
          Response(p, named, ok, token, closer, stop, a)
    BY <1>2 DEF Answer
  <2>2. closer \in Seq(Peers) BY CloserListsShape
  <2> QED BY <2>1, <2>2, ResponseStep
<1>3. ASSUME NEW p \in Peers, NEW a \in Accepted, Timeout(p, a) PROVE QueryInv' BY <1>3, TimeoutStep
<1>4. CASE DestroyQuery BY <1>4, DestroyStep
<1>5. ASSUME NEW p \in Peers, CommitAnswer(p) PROVE QueryInv' BY <1>5, CommitAnswerStep
<1>6. ASSUME NEW p \in Peers, CommitTimeout(p) PROVE QueryInv' BY <1>6, CommitTimeoutStep
<1>7. CASE UNCHANGED walkVars
  <2>1. Now' = Now BY <1>7 DEF walkVars, Now
  <2>2. (Live(Now)' <=> Live(Now)) /\ (Over(Now)' <=> Over(Now)) /\ (Dead(Now)' <=> Dead(Now)) BY <2>1
  <2>3. UNCHANGED <<boot, hasCommit, seeds, started, destroyed, flight>> BY <1>7 DEF walkVars
  <2> QED BY <2>2, <2>3 DEF QueryInv
<1> QED BY <1>1, <1>2, <1>3, <1>4, <1>5, <1>6, <1>7 DEF WalkNext

\* The invariant of a query holds in every reachable state.
THEOREM QueryTheorem == WalkSpec => []QueryInv
BY QueryInit, QueryStep, PTL DEF WalkSpec

LEMMA QueryFacts ==
  ASSUME QueryInv
  PROVE  WalkInv /\ CommitsAwaited
<1>1. Live(Now) \/ Over(Now) \/ Dead(Now) BY DEF QueryInv
<1>2. Shape(Now) /\ Apart(Now) /\ Ranked(Now) BY <1>1 DEF Live, Over, Dead, Walking
<1>3. CommitsFit(Now)
  <2>1. Live(Now) => Now.commits = {} /\ Now.toCommit = 0 BY DEF Live, Open
  <2>2. Live(Now) => CommitsFit(Now) BY <2>1, FS_EmptySet DEF CommitsFit
  <2> QED BY <2>2, <1>1 DEF Over, Dead
<1>4. /\ Now.done \in BOOLEAN /\ Now.committing \in BOOLEAN
      /\ Now.fired = IF Now.done THEN 1 ELSE 0
  BY <1>1 DEF Live, Over, Dead, Open
<1>5. /\ pending \in Seq(Peers) /\ closest \in Seq(Peers)
      /\ seen \in [Peers -> {"no", "pending", "done", "down"}]
      /\ inflight \in 0 .. MostVisits /\ successes \in Nat /\ errors \in Nat
      /\ flight \in SUBSET Peers /\ tokens \in SUBSET Peers
      /\ fromTable \in BOOLEAN /\ slowdown \in BOOLEAN
  BY <1>2, NowFields DEF Shape
<1>6. TypeOK
  <2>1. done \in BOOLEAN /\ committing \in BOOLEAN BY <1>4, NowFields
  <2>2. fired \in Nat BY <1>4, NowFields
  <2>3. Range(closest) \subseteq Peers BY <1>5 DEF Range
  <2>4. commits \subseteq Peers /\ toCommit \in Nat BY <2>3, <1>3, NowFields DEF CommitsFit
  <2>5. started \in BOOLEAN /\ destroyed \in BOOLEAN BY DEF QueryInv
  <2>6. boot \subseteq Peers /\ hasCommit \in BOOLEAN /\ seeds \in Seq(Peers) BY DEF QueryInv
  <2> QED BY <2>1, <2>2, <2>4, <2>5, <2>6, <1>5 DEF TypeOK
<1>7. DoneOnce BY <1>4, NowFields DEF DoneOnce
<1>8. VisitedOnce
  <2>1. /\ \A p \in flight : seen[p] = "pending" /\ p \notin Range(pending)
        /\ \A i, j \in DOMAIN pending : pending[i] = pending[j] => i = j
        /\ \A p \in Range(pending) : seen[p] = "pending"
        /\ Cardinality(flight) <= inflight
    BY <1>2, NowFields DEF Apart
  <2> QED BY <2>1 DEF VisitedOnce
<1>9. FrontierExhausted
  <2> SUFFICES ASSUME done \/ committing, ~destroyed, NEW p \in Peers, seen[p] = "pending"
               PROVE  Len(closest) = K /\ closest[K] < p
    BY DEF FrontierExhausted
  <2>1. Over(Now) BY NowFields DEF QueryInv, Live, Open
  <2>2. Covered(Now) /\ Now.flight = {} /\ Now.inflight = 0 /\ Now.pending = <<>> BY <2>1 DEF Over, Walking
  <2>3. Cardinality({}) = 0 /\ Range(<<>>) = {} BY FS_EmptySet DEF Range
  <2>4. Unneeded(Now, p) BY <2>2, <2>3, NowFields DEF Covered
  <2> QED BY <2>4, NowFields DEF Unneeded
<1>10. ResultSorted
  <2>1. Len(closest) <= K /\ Rising(closest) BY <1>2, NowFields DEF Ranked
  <2>2. commits \subseteq Range(closest) \cap tokens BY <1>3, NowFields DEF CommitsFit
  <2> QED BY <2>1, <2>2 DEF ResultSorted, Rising
<1>11. CommitsAwaited
  <2>1. Cardinality(commits) <= toCommit BY <1>3, NowFields DEF CommitsFit
  <2>2. ASSUME committing, ~destroyed, done PROVE commits = {} /\ toCommit = 0
    <3>1. Over(Now) /\ Now.done # FALSE BY <2>2, NowFields DEF QueryInv, Live, Open
    <3> QED BY <3>1, NowFields DEF Over
  <2> QED BY <2>1, <2>2 DEF CommitsAwaited
<1> QED BY <1>6, <1>7, <1>8, <1>9, <1>10, <1>11 DEF WalkInv

\* The walk of query::Query, for every table, every seeds and bootstrap addresses and every
\* concurrency: on_done_ runs once, no node is visited twice, the result is sorted, and a walk
\* that ran to its end has visited every nearer node it learned of.
THEOREM WalkTheorem == WalkSpec => []WalkInv
<1>1. QueryInv => WalkInv BY QueryFacts
<1> QED BY <1>1, QueryTheorem, PTL

\* do_commit: a query that committed reports when the last continuation has run, unless it
\* was destroyed, and the counter covers the continuations still to come.
THEOREM CommitsAwaitedTheorem == WalkSpec => []CommitsAwaited
<1>1. QueryInv => CommitsAwaited BY QueryFacts
<1> QED BY <1>1, QueryTheorem, PTL

-----------------------------------------------------------------------------
(* The samples of a NAT sampler (module NatSampler).                        *)

\* An entry whose hits are raised comes to rest at or above its place: what it passed had
\* fewer hits, and where it does not move at all its neighbour has as many.
LEMMA ComesToRest ==
  ASSUME NEW l, NEW i \in Nat \ {0}
  PROVE  /\ Rise(l, i) \in 1 .. i
         /\ \A k \in Rise(l, i) + 1 .. i :
              l[k - 1].hits < IF k = i THEN l[i].hits + 1 ELSE l[i - 1].hits
         /\ Rise(l, i) = i /\ i > 1 => ~(l[i - 1].hits < l[i].hits + 1)
<1> DEFINE GivesWay(k) == l[k - 1].hits < IF k = i THEN l[i].hits + 1 ELSE l[i - 1].hits
           T == {t \in 1 .. i : \A k \in t + 1 .. i : GivesWay(k)}
<1>1. T \in SUBSET (1 .. i) OBVIOUS
<1>2. i \in T
  <2>1. i + 1 .. i = {} /\ i \in 1 .. i OBVIOUS
  <2> HIDE DEF GivesWay
  <2> QED BY <2>1
<1>3. Rise(l, i) = Min(T) BY DEF Rise
<1> HIDE DEF T
<1>4. PICK m \in T : \A t \in T : m <= t BY <1>1, <1>2, FirstOf
<1>5. Min(T) \in T /\ \A t \in T : Min(T) <= t BY <1>4 DEF Min
<1>6. \A k \in Rise(l, i) + 1 .. i : GivesWay(k) BY <1>3, <1>5 DEF T
<1>7. ASSUME Rise(l, i) = i, i > 1 PROVE ~GivesWay(i)
  <2>1. i - 1 \in 1 .. i /\ ~(i <= i - 1) /\ (i - 1) + 1 .. i = {i} BY <1>7
  <2>2. i - 1 \notin T BY <1>3, <1>5, <1>7, <2>1
  <2> HIDE DEF GivesWay
  <2> QED BY <2>1, <2>2 DEF T
<1> QED BY <1>1, <1>3, <1>5, <1>6, <1>7

Reporters(report, x) == {s \in DOMAIN report : report[s] = x}

\* add_sample counts one report more, whatever places the entries change.
LEMMA SampleCounts ==
  ASSUME NEW S, NEW x \in S, NEW l \in Seq(Samples(S)),
         NEW R, IsFiniteSet(DOMAIN R), Counts(l, R),
         NEW Q, NEW s, s \notin DOMAIN R, DOMAIN Q = DOMAIN R \cup {s}, Q[s] = x,
         \A v \in DOMAIN R : Q[v] = R[v]
  PROVE  /\ AddSample(l, x) \in Seq(Samples(S))
         /\ Counts(AddSample(l, x), Q)
         /\ \A i \in DOMAIN l : \E k \in DOMAIN AddSample(l, x) :
              AddSample(l, x)[k].of = l[i].of /\ AddSample(l, x)[k].hits >= l[i].hits
<1> DEFINE n == AddSample(l, x)
<1>0. /\ Len(l) \in Nat /\ DOMAIN l = 1 .. Len(l)
      /\ \A i \in DOMAIN l : l[i] \in Samples(S) /\ l[i].of \in S /\ l[i].hits \in Nat \ {0}
  <2>1. Len(l) \in Nat /\ DOMAIN l = 1 .. Len(l) OBVIOUS
  <2>2. \A i \in DOMAIN l : l[i] \in Samples(S) OBVIOUS
  <2>3. \A e \in Samples(S) : e.of \in S /\ e.hits \in Nat \ {0} BY DEF Samples
  <2> QED BY <2>1, <2>2, <2>3
<1>1. \A y : y # x => Reporters(Q, y) = Reporters(R, y) BY DEF Reporters
<1>2. /\ IsFiniteSet(Reporters(R, x)) /\ Cardinality(Reporters(R, x)) \in Nat
      /\ Cardinality(Reporters(Q, x)) = Cardinality(Reporters(R, x)) + 1
  <2>1. Reporters(Q, x) = Reporters(R, x) \cup {s} /\ s \notin Reporters(R, x) BY DEF Reporters
  <2>2. Reporters(R, x) \subseteq DOMAIN R BY DEF Reporters
  <2>3. IsFiniteSet(Reporters(R, x)) BY <2>2, FS_Subset
  <2> QED BY <2>1, <2>3, FS_AddElement, FS_CardinalityType
<1>3. /\ \A v \in DOMAIN R : \E i \in DOMAIN l : l[i].of = R[v]
      /\ \A i \in DOMAIN l : l[i].hits = Cardinality(Reporters(R, l[i].of))
      /\ \A i, j \in DOMAIN l : l[i].of = l[j].of => i = j
  BY DEF Counts, Reporters
<1>4. CASE \E i \in DOMAIN l : l[i].of = x
  <2> DEFINE i == CHOOSE k \in DOMAIN l : l[k].of = x
             t == Rise(l, i)
             raised == [l EXCEPT ![i].hits = @ + 1]
             place == [k \in DOMAIN l |-> IF k = t THEN i ELSE IF k \in t + 1 .. i THEN k - 1 ELSE k]
  <2>1. i \in DOMAIN l /\ l[i].of = x BY <1>4
  <2>2. n = [k \in DOMAIN l |-> raised[IF k = t THEN i ELSE IF k \in t + 1 .. i THEN k - 1 ELSE k]]
    BY <1>4 DEF AddSample
  <2>3. /\ DOMAIN raised = DOMAIN l
        /\ raised[i] = [of |-> x, hits |-> l[i].hits + 1]
        /\ \A k \in DOMAIN l : k # i => raised[k] = l[k]
    <3>1. l[i] \in Samples(S) BY <1>0, <2>1
    <3>2. [l[i] EXCEPT !.hits = @ + 1] = [of |-> x, hits |-> l[i].hits + 1] BY <2>1, <3>1 DEF Samples
    <3>3. raised = [l EXCEPT ![i] = [l[i] EXCEPT !.hits = @ + 1]] OBVIOUS
    <3> QED BY <2>1, <3>2, <3>3
  <2>4. i \in Nat \ {0} BY <1>0, <2>1
  <2> HIDE DEF i, raised
  <2>5. t \in 1 .. i BY <2>4, ComesToRest
  <2> HIDE DEF t
  <2>6. /\ \A k \in DOMAIN l : place[k] \in DOMAIN l
        /\ \A k, j \in DOMAIN l : place[k] = place[j] => k = j
        /\ \A j \in DOMAIN l : \E k \in DOMAIN l : place[k] = j
    <3>1. i \in 1 .. Len(l) /\ t \in 1 .. i BY <1>0, <2>1, <2>5
    <3>2. \A k \in 1 .. Len(l) : place[k] = IF k = t THEN i ELSE IF k \in t + 1 .. i THEN k - 1 ELSE k
      BY <1>0
    <3> HIDE DEF place
    <3>3. \A k \in 1 .. Len(l) : place[k] \in 1 .. Len(l) BY <1>0, <3>1, <3>2
    <3>4. \A k, j \in 1 .. Len(l) : place[k] = place[j] => k = j BY <1>0, <3>1, <3>2
    <3>5. ASSUME NEW j \in 1 .. Len(l) PROVE \E k \in 1 .. Len(l) : place[k] = j
      <4>1. CASE j = i
        <5>1. t \in 1 .. Len(l) /\ place[t] = j BY <4>1, <1>0, <3>1, <3>2
        <5> QED BY <5>1
      <4>2. CASE j # i /\ j \in t .. i
        <5>1. j + 1 \in 1 .. Len(l) /\ j + 1 # t /\ j + 1 \in t + 1 .. i BY <4>2, <1>0, <3>1
        <5>2. place[j + 1] = (j + 1) - 1 BY <5>1, <3>2
        <5>3. (j + 1) - 1 = j OBVIOUS
        <5> QED BY <5>1, <5>2, <5>3
      <4>3. CASE j \notin t .. i
        <5>1. place[j] = j BY <4>3, <1>0, <3>1, <3>2
        <5> QED BY <5>1
      <4> QED BY <4>1, <4>2, <4>3
    <3> QED BY <1>0, <3>3, <3>4, <3>5
  <2>7. DOMAIN n = DOMAIN l /\ \A k \in DOMAIN l : n[k] = raised[place[k]] BY <2>2
  <2> HIDE DEF n, place
  <2>8. \A j \in DOMAIN l :
          /\ raised[j] \in Samples(S) /\ raised[j].of = l[j].of
          /\ raised[j].hits = Cardinality(Reporters(Q, l[j].of)) /\ raised[j].hits >= l[j].hits
    <3> TAKE j \in DOMAIN l
    <3>1. CASE j = i
      <4>1. l[i].hits \in Nat /\ l[i].hits = Cardinality(Reporters(R, x)) BY <1>0, <1>3, <2>1
      <4>2. raised[i].of = x /\ raised[i].hits = l[i].hits + 1 BY <2>3
      <4>3. raised[i] \in Samples(S) BY <2>3, <4>1 DEF Samples
      <4> QED BY <3>1, <4>1, <4>2, <4>3, <1>2, <2>1
    <3>2. CASE j # i
      <4>1. raised[j] = l[j] /\ l[j].of # x BY <3>2, <2>1, <2>3, <1>3
      <4>2. l[j] \in Samples(S) /\ l[j].hits \in Nat /\ l[j].hits = Cardinality(Reporters(R, l[j].of))
        BY <1>0, <1>3
      <4> QED BY <4>1, <4>2, <1>1
    <3> QED BY <3>1, <3>2
  <2>9. \A k \in DOMAIN l :
           /\ n[k] \in Samples(S) /\ n[k].of = l[place[k]].of
           /\ n[k].hits = Cardinality(Reporters(Q, n[k].of))
    <3> TAKE k \in DOMAIN l
    <3>1. n[k] = raised[place[k]] /\ place[k] \in DOMAIN l BY <2>6, <2>7
    <3> QED BY <3>1, <2>8
  <2>10. n \in Seq(Samples(S))
    <3>1. \A k \in 1 .. Len(l) : n[k] \in Samples(S) BY <1>0, <2>9
    <3>2. n = [k \in 1 .. Len(l) |-> n[k]] BY <2>2, <1>0, <2>7 DEF n
    <3>3. n \in [1 .. Len(l) -> Samples(S)] BY <3>1, <3>2
    <3> QED BY <3>3, <1>0
  <2>11. \A v \in DOMAIN Q : \E k \in DOMAIN n : n[k].of = Q[v]
    <3> TAKE v \in DOMAIN Q
    <3>1. PICK j \in DOMAIN l : l[j].of = Q[v] BY <1>3, <2>1
    <3>2. PICK k \in DOMAIN l : place[k] = j BY <2>6
    <3> QED BY <3>1, <3>2, <2>7, <2>8
  <2>12. \A k \in DOMAIN n : n[k].hits = Cardinality(Reporters(Q, n[k].of)) BY <2>7, <2>9
  <2>13. \A k, j \in DOMAIN n : n[k].of = n[j].of => k = j
    <3> SUFFICES ASSUME NEW k \in DOMAIN l, NEW j \in DOMAIN l, n[k].of = n[j].of PROVE k = j
      BY <2>7
    <3>1. place[k] \in DOMAIN l /\ place[j] \in DOMAIN l BY <2>6
    <3>2. l[place[k]].of = l[place[j]].of BY <2>9
    <3>3. place[k] = place[j] BY <3>1, <3>2, <1>3
    <3> QED BY <3>3, <2>6
  <2>14. \A j \in DOMAIN l : \E k \in DOMAIN n : n[k].of = l[j].of /\ n[k].hits >= l[j].hits
    <3> TAKE j \in DOMAIN l
    <3>1. PICK k \in DOMAIN l : place[k] = j BY <2>6
    <3> QED BY <3>1, <2>7, <2>8
  <2>15. Counts(n, Q) BY <2>11, <2>12, <2>13 DEF Counts, Reporters
  <2> QED BY <2>10, <2>14, <2>15 DEF n
<1>5. CASE ~\E i \in DOMAIN l : l[i].of = x
  <2> DEFINE new == [of |-> x, hits |-> 1]
  <2>1. n = Append(l, new) BY <1>5 DEF AddSample
  <2>2. new \in Samples(S) /\ new.of = x /\ new.hits = 1 BY DEF Samples
  <2> HIDE DEF n, new
  <2>3. /\ n \in Seq(Samples(S)) /\ DOMAIN n = 1 .. Len(l) + 1 /\ n[Len(l) + 1] = new
        /\ \A k \in 1 .. Len(l) : n[k] = l[k]
    BY <2>1, <2>2
  <2>4. Reporters(R, x) = {} BY <1>3, <1>5 DEF Reporters
  <2>5. Cardinality(Reporters(Q, x)) = 1 BY <2>4, <1>2, FS_EmptySet
  <2>6. DOMAIN n = DOMAIN l \cup {Len(l) + 1} /\ Len(l) + 1 \notin DOMAIN l BY <1>0, <2>3
  <2>7. \A v \in DOMAIN Q : \E k \in DOMAIN n : n[k].of = Q[v]
    <3> TAKE v \in DOMAIN Q
    <3>1. CASE v = s BY <3>1, <2>2, <2>3, <2>6
    <3>2. CASE v # s
      <4>1. PICK j \in DOMAIN l : l[j].of = R[v] BY <3>2, <1>3
      <4>2. n[j] = l[j] /\ j \in DOMAIN n BY <1>0, <2>3, <2>6
      <4> QED BY <3>2, <4>1, <4>2
    <3> QED BY <3>1, <3>2
  <2>8. \A k \in DOMAIN n : n[k].hits = Cardinality(Reporters(Q, n[k].of))
    <3> TAKE k \in DOMAIN n
    <3>1. CASE k = Len(l) + 1 BY <3>1, <2>2, <2>3, <2>5
    <3>2. CASE k \in DOMAIN l
      <4>1. n[k] = l[k] /\ l[k].of # x BY <3>2, <1>0, <1>5, <2>3
      <4> QED BY <4>1, <3>2, <1>1, <1>3
    <3> QED BY <3>1, <3>2, <2>6
  <2>9. \A k, j \in DOMAIN n : n[k].of = n[j].of => k = j
    <3>1. \A k \in DOMAIN l : n[k] = l[k] /\ l[k].of # x BY <1>0, <1>5, <2>3
    <3> QED BY <3>1, <1>3, <2>2, <2>3, <2>6
  <2>10. \A j \in DOMAIN l : \E k \in DOMAIN n : n[k].of = l[j].of /\ n[k].hits >= l[j].hits
    <3> TAKE j \in DOMAIN l
    <3>1. n[j] = l[j] /\ j \in DOMAIN n /\ l[j].hits \in Nat BY <1>0, <2>3, <2>6
    <3> QED BY <3>1
  <2>11. Counts(n, Q) BY <2>7, <2>8, <2>9 DEF Counts, Reporters
  <2> QED BY <2>3, <2>10, <2>11 DEF n
<1> QED BY <1>4, <1>5

\* No entry has more hits than there are reports, and neither have two entries together.
LEMMA HitsShared ==
  ASSUME NEW l, NEW R, IsFiniteSet(DOMAIN R), Counts(l, R)
  PROVE  /\ \A i \in DOMAIN l : l[i].hits <= Cardinality(DOMAIN R)
         /\ \A i, j \in DOMAIN l : i # j => l[i].hits + l[j].hits <= Cardinality(DOMAIN R)
<1>1. /\ \A i \in DOMAIN l : l[i].hits = Cardinality(Reporters(R, l[i].of))
      /\ \A i, j \in DOMAIN l : l[i].of = l[j].of => i = j
  BY DEF Counts, Reporters
<1>2. \A x : /\ Reporters(R, x) \subseteq DOMAIN R /\ IsFiniteSet(Reporters(R, x))
             /\ Cardinality(Reporters(R, x)) <= Cardinality(DOMAIN R)
             /\ Cardinality(Reporters(R, x)) \in Nat
  <2> TAKE x
  <2>1. Reporters(R, x) \in SUBSET DOMAIN R BY DEF Reporters
  <2> QED BY <2>1, FS_Subset, FS_CardinalityType
<1>3. ASSUME NEW i \in DOMAIN l, NEW j \in DOMAIN l, i # j
      PROVE  l[i].hits + l[j].hits <= Cardinality(DOMAIN R)
  <2> DEFINE A == Reporters(R, l[i].of)
             B == Reporters(R, l[j].of)
  <2>1. IsFiniteSet(A) /\ IsFiniteSet(B) /\ A \cup B \in SUBSET DOMAIN R BY <1>2
  <2>2. A \cap B = {} BY <1>1, <1>3 DEF Reporters
  <2>3. l[i].hits = Cardinality(A) /\ l[j].hits = Cardinality(B) BY <1>1
  <2>4. Cardinality(A) \in Nat /\ Cardinality(B) \in Nat /\ Cardinality(DOMAIN R) \in Nat
    BY <1>2, FS_CardinalityType
  <2> HIDE DEF A, B
  <2>5. Cardinality(A \cup B) = Cardinality(A) + Cardinality(B)
    <3>1. Cardinality(A \cup B) = Cardinality(A) + Cardinality(B) - Cardinality(A \cap B)
      BY <2>1, FS_Union
    <3>2. Cardinality(A \cap B) = 0 BY <2>2, FS_EmptySet
    <3> QED BY <2>4, <3>1, <3>2
  <2>6. Cardinality(A \cup B) <= Cardinality(DOMAIN R) BY <2>1, FS_Subset
  <2> QED BY <2>3, <2>4, <2>5, <2>6
<1> QED BY <1>1, <1>2, <1>3

\* Below the head of a list of n reports hits are bounded by the place: an entry that stays
\* behind leaves as many reports to the others.
BelowHead(l, n) == \A i \in DOMAIN l : i >= 2 => 2 * l[i].hits + i - 2 <= n

\* add_sample keeps the bound although the entry it raises need not pass every smaller one.
LEMMA StaysBelowHead ==
  ASSUME NEW S, NEW x \in S, NEW l \in Seq(Samples(S)), NEW n \in Nat, BelowHead(l, n),
         \A i \in DOMAIN l : l[i].hits <= n,
         \A i, j \in DOMAIN l : i # j => l[i].hits + l[j].hits <= n
  PROVE  BelowHead(AddSample(l, x), n + 1)
<1> DEFINE f == AddSample(l, x)
           H(i) == l[i].hits
<1>0. /\ Len(l) \in Nat /\ DOMAIN l = 1 .. Len(l)
      /\ \A i \in DOMAIN l : l[i] \in Samples(S) /\ H(i) \in Nat /\ H(i) >= 1 /\ H(i) <= n
      /\ \A i, j \in DOMAIN l : i # j => H(i) + H(j) <= n
      /\ \A i \in DOMAIN l : i >= 2 => 2 * H(i) + i - 2 <= n
  <2>1. Len(l) \in Nat /\ DOMAIN l = 1 .. Len(l) OBVIOUS
  <2>2. \A i \in DOMAIN l : l[i] \in Samples(S) OBVIOUS
  <2>3. \A e \in Samples(S) : e.hits \in Nat \ {0} BY DEF Samples
  <2> QED BY <2>1, <2>2, <2>3 DEF BelowHead
<1>1. CASE \E i \in DOMAIN l : l[i].of = x
  <2> DEFINE i == CHOOSE k \in DOMAIN l : l[k].of = x
             t == Rise(l, i)
             raised == [l EXCEPT ![i].hits = @ + 1]
  <2>1. i \in DOMAIN l BY <1>1
  <2>2. f = [k \in DOMAIN l |-> raised[IF k = t THEN i ELSE IF k \in t + 1 .. i THEN k - 1 ELSE k]]
    BY <1>1 DEF AddSample
  <2>3. raised[i].hits = H(i) + 1 /\ \A k \in DOMAIN l : k # i => raised[k] = l[k]
    <3>1. raised = [l EXCEPT ![i] = [l[i] EXCEPT !.hits = @ + 1]] OBVIOUS
    <3>2. l[i] \in Samples(S) BY <1>0, <2>1
    <3>3. [l[i] EXCEPT !.hits = @ + 1].hits = l[i].hits + 1 BY <3>2 DEF Samples
    <3> QED BY <2>1, <3>1, <3>3
  <2> HIDE DEF i, raised
  <2>4. i \in Nat \ {0} /\ i \in 1 .. Len(l) BY <1>0, <2>1
  <2>5. /\ t \in 1 .. i
        /\ \A k \in t + 1 .. i : H(k - 1) < IF k = i THEN H(i) + 1 ELSE H(i - 1)
        /\ t = i /\ i > 1 => ~(H(i - 1) < H(i) + 1)
    BY <2>4, ComesToRest
  <2> HIDE DEF t
  <2>6. DOMAIN f = DOMAIN l BY <2>2
  <2> SUFFICES ASSUME NEW k \in 1 .. Len(l), k >= 2 PROVE 2 * f[k].hits + k - 2 <= n + 1
    BY <1>0, <2>6 DEF BelowHead
  <2>7. CASE k = t /\ t < i
    <3>1. f[k].hits = H(i) + 1 BY <2>2, <2>3, <2>7, <1>0
    <3>2. H(i) \in Nat /\ 2 * H(i) + i - 2 <= n /\ k < i BY <1>0, <2>1, <2>4, <2>7
    <3> HIDE DEF H, f
    <3> QED BY <3>1, <3>2, <2>4
  <2>8. CASE k = t /\ t = i
    <3>1. f[k].hits = H(i) + 1 BY <2>2, <2>3, <2>8, <1>0
    <3>2. i - 1 \in DOMAIN l /\ i - 1 # i BY <1>0, <2>4, <2>8
    <3>3. /\ H(i) \in Nat /\ H(i - 1) \in Nat /\ H(i - 1) >= H(i) + 1 /\ H(i) + H(i - 1) <= n
          /\ i - 1 >= 2 => 2 * H(i - 1) + (i - 1) - 2 <= n
      <4>1. H(i) \in Nat /\ H(i - 1) \in Nat /\ H(i) + H(i - 1) <= n BY <1>0, <2>1, <3>2
      <4>2. i - 1 >= 2 => 2 * H(i - 1) + (i - 1) - 2 <= n BY <1>0, <3>2
      <4>3. ~(H(i - 1) < H(i) + 1) BY <2>5, <2>4, <2>8
      <4> HIDE DEF H
      <4> QED BY <4>1, <4>2, <4>3
    <3> HIDE DEF H, f
    <3> QED BY <3>1, <3>3, <2>4, <2>8
  <2>9. CASE k # t /\ k \in t + 1 .. i
    <3>1. k - 1 # i /\ k - 1 \in DOMAIN l BY <1>0, <2>4, <2>5, <2>9
    <3>2. f[k].hits = H(k - 1) BY <2>2, <2>3, <2>9, <1>0, <3>1
    <3>3. CASE k > 2
      <4>1. H(k - 1) \in Nat /\ 2 * H(k - 1) + (k - 1) - 2 <= n BY <1>0, <3>1, <3>3
      <4> HIDE DEF H, f
      <4> QED BY <3>2, <4>1
    <3>4. CASE k = 2 /\ i = 2
      <4>1. H(1) < H(2) + 1 BY <2>5, <2>9, <3>4
      <4>2. H(1) \in Nat /\ H(2) \in Nat /\ H(1) + H(2) <= n
        <5>1. 1 \in DOMAIN l /\ 2 \in DOMAIN l BY <1>0, <2>4, <3>4
        <5> QED BY <5>1, <1>0
      <4> HIDE DEF H, f
      <4> QED BY <3>2, <3>4, <4>1, <4>2
    <3>5. CASE k = 2 /\ i > 2
      <4>1. H(1) < H(i - 1) BY <2>5, <2>9, <3>5
      <4>2. H(1) \in Nat /\ H(i - 1) \in Nat /\ H(1) + H(i - 1) <= n
        <5>1. 1 \in DOMAIN l /\ i - 1 \in DOMAIN l /\ i - 1 # 1 BY <1>0, <2>4, <3>5
        <5> QED BY <5>1, <1>0
      <4> HIDE DEF H, f
      <4> QED BY <3>2, <3>5, <4>1, <4>2
    <3> QED BY <2>4, <2>5, <2>9, <3>3, <3>4, <3>5
  <2>10. CASE k # t /\ k \notin t + 1 .. i
    <3>1. k # i BY <2>4, <2>5, <2>10
    <3>2. f[k].hits = H(k) BY <2>2, <2>3, <2>10, <1>0, <3>1
    <3>3. H(k) \in Nat /\ 2 * H(k) + k - 2 <= n BY <1>0
    <3> HIDE DEF H, f
    <3> QED BY <3>2, <3>3
  <2> QED BY <2>4, <2>5, <2>7, <2>8, <2>9, <2>10
<1>2. CASE ~\E i \in DOMAIN l : l[i].of = x
  <2> DEFINE new == [of |-> x, hits |-> 1]
  <2>1. f = Append(l, new) BY <1>2 DEF AddSample
  <2>2. new \in Samples(S) /\ new.hits = 1 BY DEF Samples
  <2> HIDE DEF f, new
  <2>3. /\ DOMAIN f = 1 .. Len(l) + 1 /\ f[Len(l) + 1] = new
        /\ \A k \in 1 .. Len(l) : f[k] = l[k]
    BY <2>1, <2>2
  <2> SUFFICES ASSUME NEW k \in 1 .. Len(l) + 1, k >= 2 PROVE 2 * f[k].hits + k - 2 <= n + 1
    BY <2>3 DEF BelowHead, f
  <2>4. CASE k \in 1 .. Len(l)
    <3>1. f[k].hits = H(k) /\ H(k) \in Nat /\ 2 * H(k) + k - 2 <= n BY <1>0, <2>3, <2>4
    <3> HIDE DEF H
    <3> QED BY <3>1
  <2>5. CASE k = Len(l) + 1
    <3> DEFINE m == Len(l)
    <3>1. f[k].hits = 1 /\ k = m + 1 /\ m \in Nat /\ m >= 1 BY <1>0, <2>2, <2>3, <2>5
    <3>2. m \in DOMAIN l BY <1>0, <3>1
    <3>3. H(m) \in Nat /\ H(m) >= 1 /\ H(m) <= n /\ (m >= 2 => 2 * H(m) + m - 2 <= n) BY <1>0, <3>2
    <3> HIDE DEF H, m
    <3> QED BY <3>1, <3>3
  <2> QED BY <1>0, <2>4, <2>5
<1> QED BY <1>1, <1>2

\* update_firewall: from three samples on the ladder keeps a class or derives one, says
\* "consistent" only of an address seen twice, and decides after five samples.
LEMMA LadderFits ==
  ASSUME NEW hosts, NEW A, NEW full \in Seq(Samples(A)), NEW n \in Nat, NEW old \in Classes,
         n >= 3 => full # <<>>
  PROVE  LET class == UpdateFirewall(hosts, full, n, old)
         IN  /\ class \in Classes
             /\ n < 3 => class = old
             /\ old # "unknown" => class # "unknown"
             /\ n > 4 => class # "unknown"
             /\ n >= 3 /\ full[1].hits >= 3 => class = "consistent"
             /\ class = "consistent" =>
                  old = "consistent" \/ \E i \in DOMAIN full : full[i].hits >= 2
<1> DEFINE class == UpdateFirewall(hosts, full, n, old)
<1>1. CASE n < 3
  <2>1. class = old BY <1>1 DEF UpdateFirewall
  <2>2. ~(n > 4) /\ ~(n >= 3) BY <1>1
  <2> QED BY <2>1, <2>2
<1>2. CASE ~(n < 3)
  <2>0. n >= 3 BY <1>2
  <2>1. 1 \in DOMAIN full BY <2>0
  <2>2. full[1] \in Samples(A) BY <2>1
  <2>3. full[1].hits \in Nat \ {0} BY <2>2 DEF Samples
  <2>4. CASE full[1].hits >= 3
    <3>1. class = "consistent" BY <1>2, <2>4 DEF UpdateFirewall
    <3>2. full[1].hits >= 2 BY <2>3, <2>4
    <3> QED BY <1>2, <2>1, <3>1, <3>2 DEF Classes
  <2>5. CASE full[1].hits = 1
    <3>1. ~(full[1].hits >= 3) BY <2>5
    <3>2. class = "random" BY <1>2, <2>5, <3>1 DEF UpdateFirewall
    <3> QED BY <1>2, <3>1, <3>2 DEF Classes
  <2>6. CASE full[1].hits = 2
    <3>1. ~(full[1].hits >= 3) /\ full[1].hits # 1 /\ full[1].hits >= 2 BY <2>6
    <3>2. \/ class \in {"random", "consistent"}
          \/ class = old /\ ~(n > 4)
      BY <1>2, <3>1 DEF UpdateFirewall
    <3> QED BY <1>2, <2>1, <3>1, <3>2 DEF Classes
  <2> QED BY <2>3, <2>4, <2>5, <2>6
<1> QED BY <1>1, <1>2

SeenAddresses(full) == {full[i].of : i \in DOMAIN full}

\* What an offer must be for its class (OfferFits), of a list and the samples it is taken from.
Fits(class, list, full) ==
  /\ class = "unknown" <=> list = <<>>
  /\ class = "random" => \E h \in HostsOf(Addresses) : list = <<<<h, 0>>>>
  /\ class = "consistent" => Len(list) <= 4 /\ Range(list) \subseteq SeenAddresses(full)

Offerable == Addresses \cup (HostsOf(Addresses) \X {0})

\* update_addresses offers what fits the class.
LEMMA OfferMade ==
  ASSUME NEW hosts \in Seq(Samples(HostsOf(Addresses))), NEW full \in Seq(Samples(Addresses)),
         NEW class \in Classes, class # "unknown" => hosts # <<>> /\ full # <<>>
  PROVE  Offer(class, hosts, full) \in Seq(Offerable) /\ Fits(class, Offer(class, hosts, full), full)
<1> DEFINE o == Offer(class, hosts, full)
<1>1. CASE class = "unknown"
  <2>1. o = <<>> BY <1>1 DEF Offer
  <2> HIDE DEF o
  <2>2. o \in Seq(Offerable) BY <2>1
  <2>3. Fits(class, o, full) BY <1>1, <2>1 DEF Fits
  <2> QED BY <2>2, <2>3 DEF o
<1>2. CASE class = "random"
  <2>1. o = <<<<hosts[1].of, 0>>>> BY <1>2 DEF Offer
  <2>2. 1 \in DOMAIN hosts BY <1>2
  <2>3. hosts[1] \in Samples(HostsOf(Addresses)) BY <2>2
  <2>4. hosts[1].of \in HostsOf(Addresses) BY <2>3 DEF Samples
  <2> DEFINE h == hosts[1].of
  <2> HIDE DEF h, o
  <2>5. <<h, 0>> \in Offerable BY <2>4 DEF Offerable, h
  <2>6. o = <<<<h, 0>>>> BY <2>1 DEF h
  <2>7. o \in Seq(Offerable) /\ o # <<>> BY <2>5, <2>6
  <2> QED BY <1>2, <2>4, <2>6, <2>7 DEF Fits, h, o
<1>3. CASE class = "consistent"
  <2> DEFINE I == {i \in DOMAIN full : i <= 2 \/ full[i].hits >= 2}
             kept == Only(full, I)
             n == IF Len(kept) < 4 THEN Len(kept) ELSE 4
  <2>1. /\ full # <<>> /\ Len(full) \in Nat /\ DOMAIN full = 1 .. Len(full)
        /\ \A i \in DOMAIN full : full[i] \in Samples(Addresses)
    BY <1>3
  <2>2. I \in SUBSET DOMAIN full /\ 1 \in I BY <2>1
  <2> HIDE DEF I
  <2>3. kept \in Seq(Samples(Addresses)) /\ Range(kept) = {full[i] : i \in I} BY <2>2, OnlyKeeps
  <2>4. Len(kept) \in Nat /\ DOMAIN kept = 1 .. Len(kept) BY <2>3
  <2>5. Len(kept) # 0
    <3>1. full[1] \in Range(kept) BY <2>2, <2>3
    <3>2. DOMAIN kept # {} BY <3>1 DEF Range
    <3> QED BY <3>2, <2>4
  <2>6. \A k \in DOMAIN kept : \E i \in DOMAIN full : kept[k] = full[i] BY <2>2, <2>3 DEF Range
  <2> HIDE DEF kept
  <2>7. Min({Len(kept), 4}) = n
    <3> DEFINE len == Len(kept)
    <3>1. len \in Nat BY <2>4
    <3> HIDE DEF len
    <3>2. \E m \in {len, 4} : \A y \in {len, 4} : m <= y BY <3>1
    <3>3. Min({len, 4}) \in {len, 4} /\ \A y \in {len, 4} : Min({len, 4}) <= y BY <3>2 DEF Min
    <3> QED BY <3>1, <3>3 DEF len
  <2>8. o = [i \in 1 .. n |-> kept[i].of] BY <1>3, <2>7 DEF Offer, kept, I
  <2>9. n \in Nat /\ n <= 4 /\ n # 0 /\ \A i \in 1 .. n : i \in DOMAIN kept BY <2>4, <2>5
  <2> HIDE DEF n, o
  <2>10. \A i \in 1 .. n : kept[i].of \in Addresses /\ kept[i].of \in SeenAddresses(full)
    <3> TAKE i \in 1 .. n
    <3>1. PICK j \in DOMAIN full : kept[i] = full[j] BY <2>6, <2>9
    <3>2. full[j].of \in Addresses BY <2>1 DEF Samples
    <3> QED BY <3>1, <3>2 DEF SeenAddresses
  <2>11. o \in [1 .. n -> Addresses] BY <2>8, <2>10
  <2>12. o \in Seq(Addresses) /\ Len(o) = n /\ DOMAIN o = 1 .. n BY <2>9, <2>11
  <2>13. o \in Seq(Offerable)
    <3>1. o \in [1 .. n -> Offerable] BY <2>11 DEF Offerable
    <3> QED BY <2>9, <3>1
  <2>14. o # <<>> BY <2>9, <2>12
  <2>15. Range(o) \subseteq SeenAddresses(full) BY <2>8, <2>10, <2>12 DEF Range
  <2> QED BY <1>3, <2>9, <2>12, <2>13, <2>14, <2>15 DEF Fits, o
<1> QED BY <1>1, <1>2, <1>3 DEF Classes

SamplerIInv == SamplerInv /\ OfferFits /\ IsFiniteSet(visited) /\ BelowHead(fullHits, sampled)

\* The parts of the invariant that a handler needs.
LEMMA SamplerParts ==
  ASSUME SamplerIInv
  PROVE  /\ sampled \in Nat /\ frozen \in BOOLEAN /\ firewall \in Classes
         /\ hostHits \in Seq(Samples(HostsOf(Addresses))) /\ fullHits \in Seq(Samples(Addresses))
         /\ Fits(firewall, offered, fullHits) /\ ClassHasEvidence
         /\ sampled >= 3 => hostHits # <<>> /\ fullHits # <<>>
<1>1. /\ sampled \in Nat /\ frozen \in BOOLEAN /\ firewall \in Classes
      /\ hostHits \in Seq(Samples(HostsOf(Addresses))) /\ fullHits \in Seq(Samples(Addresses))
  BY DEF SamplerIInv, SamplerInv, SamplerTypeOK
<1>2. Fits(firewall, offered, fullHits) BY DEF SamplerIInv, OfferFits, Fits, SeenAddresses
<1>3. ASSUME sampled >= 3 PROVE hostHits # <<>> /\ fullHits # <<>>
  <2>1. sampled = Cardinality(visited) /\ IsFiniteSet(visited) BY DEF SamplerIInv, SamplerInv, HitsAccounted
  <2>2. Cardinality(visited) # 0 BY <1>1, <1>3, <2>1
  <2>3. PICK s : s \in visited BY <2>1, <2>2, FS_EmptySet
  <2>4. \E i \in DOMAIN fullHits : TRUE
    <3>1. Counts(fullHits, said) /\ DOMAIN said = visited
      BY DEF SamplerIInv, SamplerInv, HitsAccounted, SamplerTypeOK
    <3> QED BY <2>3, <3>1 DEF Counts
  <2>5. \E i \in DOMAIN hostHits : TRUE
    <3> DEFINE R == [v \in visited |-> said[v][1]]
    <3>1. Counts(hostHits, R) BY DEF SamplerIInv, SamplerInv, HitsAccounted
    <3>2. DOMAIN R = visited OBVIOUS
    <3> HIDE DEF R
    <3> QED BY <2>3, <3>1, <3>2 DEF Counts
  <2> QED BY <2>4, <2>5
<1> QED BY <1>1, <1>2, <1>3 DEF SamplerIInv, SamplerInv

\* add() of a source that is new keeps the counts, the evidence and the fit of the offer.
LEMMA SampleStep ==
  ASSUME SamplerIInv, NEW from \in Sources \cup Punchers, NEW a \in Addresses, New(from), Sample(from, a)
  PROVE  /\ visited' \subseteq Sources \cup Punchers /\ said' \in [visited' -> Addresses]
         /\ hostHits' \in Seq(Samples(HostsOf(Addresses))) /\ fullHits' \in Seq(Samples(Addresses))
         /\ sampled' \in Nat /\ firewall' \in Classes /\ offered' \in Seq(Offerable)
         /\ HitsAccounted' /\ ClassHasEvidence' /\ IsFiniteSet(visited')
         /\ Fits(firewall', offered', fullHits')
         /\ sampled' > 4 /\ ~frozen => firewall' # "unknown"
         /\ BelowHead(fullHits', sampled')
         /\ sampled' > 3 /\ ~frozen /\ fullHits'[1].hits >= 3 => firewall' = "consistent"
<1>1. /\ visited \subseteq Sources \cup Punchers /\ said \in [visited -> Addresses]
      /\ sampled = Cardinality(visited) /\ IsFiniteSet(visited)
      /\ Counts(fullHits, said) /\ Counts(hostHits, [s \in visited |-> said[s][1]])
      /\ offered \in Seq(Offerable)
  BY DEF SamplerIInv, SamplerInv, SamplerTypeOK, HitsAccounted, Offerable
<1>2. /\ sampled \in Nat /\ frozen \in BOOLEAN /\ firewall \in Classes
      /\ hostHits \in Seq(Samples(HostsOf(Addresses))) /\ fullHits \in Seq(Samples(Addresses))
      /\ Fits(firewall, offered, fullHits) /\ ClassHasEvidence
  BY SamplerParts
<1>3. from \notin visited BY DEF New
<1>4. /\ visited' = visited \cup {from} /\ sampled' = sampled + 1
      /\ said' = [s \in visited' |-> IF s = from THEN a ELSE said[s]]
      /\ hostHits' = AddSample(hostHits, a[1]) /\ fullHits' = AddSample(fullHits, a)
  BY DEF Sample
<1>5. said' \in [visited' -> Addresses] BY <1>1, <1>4
<1>6. IsFiniteSet(visited') /\ sampled' = Cardinality(visited')
  BY <1>1, <1>2, <1>3, <1>4, FS_AddElement
<1>7. /\ fullHits' \in Seq(Samples(Addresses)) /\ Counts(fullHits', said')
      /\ \A i \in DOMAIN fullHits : \E k \in DOMAIN fullHits' :
           fullHits'[k].of = fullHits[i].of /\ fullHits'[k].hits >= fullHits[i].hits
  <2> DEFINE Q == said'
  <2>1. /\ DOMAIN said = visited /\ DOMAIN Q = DOMAIN said \cup {from} /\ Q[from] = a
        /\ \A v \in DOMAIN said : Q[v] = said[v]
    BY <1>1, <1>3, <1>4
  <2> HIDE DEF Q
  <2>2. /\ IsFiniteSet(DOMAIN said) /\ from \notin DOMAIN said
        /\ fullHits \in Seq(Samples(Addresses)) /\ Counts(fullHits, said)
    BY <1>1, <1>2, <1>3, <2>1
  <2> DEFINE f == AddSample(fullHits, a)
  <2>3. /\ f \in Seq(Samples(Addresses)) /\ Counts(f, Q)
        /\ \A i \in DOMAIN fullHits : \E k \in DOMAIN f :
             f[k].of = fullHits[i].of /\ f[k].hits >= fullHits[i].hits
    BY <2>1, <2>2, SampleCounts
  <2>4. fullHits' = f BY <1>4
  <2> HIDE DEF f
  <2> QED BY <2>3, <2>4 DEF Q
<1>8. /\ hostHits' \in Seq(Samples(HostsOf(Addresses)))
      /\ Counts(hostHits', [s \in visited' |-> said'[s][1]])
  <2> DEFINE R == [s \in visited |-> said[s][1]]
             Q == [s \in visited' |-> said'[s][1]]
             h == AddSample(hostHits, a[1])
  <2>1. /\ DOMAIN R = visited /\ DOMAIN Q = visited \cup {from} /\ Q[from] = a[1]
        /\ \A v \in visited : Q[v] = R[v]
    BY <1>3, <1>4
  <2>2. Counts(hostHits, R) BY <1>1
  <2>3. a[1] \in HostsOf(Addresses) BY DEF HostsOf
  <2> HIDE DEF R, Q
  <2>4. IsFiniteSet(DOMAIN R) /\ from \notin DOMAIN R /\ DOMAIN Q = DOMAIN R \cup {from}
        /\ \A v \in DOMAIN R : Q[v] = R[v]
    BY <1>1, <1>3, <2>1
  <2>5. /\ h \in Seq(Samples(HostsOf(Addresses))) /\ Counts(h, Q)
        /\ \A i \in DOMAIN hostHits : \E k \in DOMAIN h :
             h[k].of = hostHits[i].of /\ h[k].hits >= hostHits[i].hits
    BY <1>2, <2>1, <2>2, <2>3, <2>4, SampleCounts
  <2>6. hostHits' = h BY <1>4
  <2> HIDE DEF h
  <2> QED BY <2>5, <2>6 DEF Q
<1>9. HitsAccounted' BY <1>6, <1>7, <1>8 DEF HitsAccounted
<1>10. hostHits' # <<>> /\ fullHits' # <<>>
  <2>1. from \in visited' BY <1>4
  <2>2. \E i \in DOMAIN fullHits' : TRUE
    <3>1. DOMAIN said' = visited' BY <1>5
    <3> QED BY <2>1, <3>1, <1>7 DEF Counts
  <2>3. \E i \in DOMAIN hostHits' : TRUE
    <3> DEFINE Q == [s \in visited' |-> said'[s][1]]
    <3>1. Counts(hostHits', Q) /\ DOMAIN Q = visited' BY <1>8
    <3> HIDE DEF Q
    <3> QED BY <2>1, <3>1 DEF Counts
  <2> QED BY <2>2, <2>3
<1>11. SeenAddresses(fullHits) \subseteq SeenAddresses(fullHits') BY <1>7 DEF SeenAddresses
<1>12. (\E i \in DOMAIN fullHits : fullHits[i].hits >= 2) => \E k \in DOMAIN fullHits' : fullHits'[k].hits >= 2
  <2> SUFFICES ASSUME NEW i \in DOMAIN fullHits, fullHits[i].hits >= 2
               PROVE  \E k \in DOMAIN fullHits' : fullHits'[k].hits >= 2
    OBVIOUS
  <2>1. PICK k \in DOMAIN fullHits' : fullHits'[k].hits >= fullHits[i].hits BY <1>7
  <2>2. fullHits[i] \in Samples(Addresses) /\ fullHits'[k] \in Samples(Addresses) BY <1>2, <1>7
  <2>3. fullHits[i].hits \in Nat /\ fullHits'[k].hits \in Nat BY <2>2 DEF Samples
  <2> QED BY <2>1, <2>3
<1>13. sampled' \in Nat /\ (sampled >= 3 => sampled' >= 3) BY <1>2, <1>4
<1>16. BelowHead(fullHits', sampled')
  <2>1. DOMAIN said = visited BY <1>1
  <2>2. /\ \A i \in DOMAIN fullHits : fullHits[i].hits <= sampled
        /\ \A i, j \in DOMAIN fullHits : i # j => fullHits[i].hits + fullHits[j].hits <= sampled
    BY <1>1, <2>1, HitsShared
  <2>3. BelowHead(fullHits, sampled) BY DEF SamplerIInv
  <2>4. BelowHead(AddSample(fullHits, a), sampled + 1) BY <1>2, <2>2, <2>3, StaysBelowHead
  <2> QED BY <1>4, <2>4
<1>14. CASE ~(sampled' >= 3 /\ MayUpdate)
  <2>1. firewall' = firewall /\ offered' = offered BY <1>14 DEF Sample
  <2>2. ClassHasEvidence' BY <2>1, <1>2, <1>12, <1>13 DEF ClassHasEvidence
  <2>3. Fits(firewall', offered', fullHits') BY <2>1, <1>2, <1>11 DEF Fits
  <2>4. ~(sampled' > 4 /\ ~frozen) /\ ~(sampled' > 3 /\ ~frozen) BY <1>13, <1>14 DEF MayUpdate
  <2> QED BY <2>1, <2>2, <2>3, <2>4, <1>1, <1>2, <1>4, <1>5, <1>6, <1>7, <1>8, <1>9, <1>13, <1>16
<1>15. CASE sampled' >= 3 /\ MayUpdate
  <2>1. /\ firewall' = UpdateFirewall(hostHits', fullHits', sampled', firewall)
        /\ offered' = Offer(firewall', hostHits', fullHits')
    BY <1>15 DEF Sample
  <2>2. /\ firewall' \in Classes /\ (sampled' > 4 => firewall' # "unknown")
        /\ fullHits'[1].hits >= 3 => firewall' = "consistent"
        /\ firewall' = "consistent" =>
             firewall = "consistent" \/ \E i \in DOMAIN fullHits' : fullHits'[i].hits >= 2
    BY <2>1, <1>2, <1>7, <1>10, <1>13, <1>15, LadderFits
  <2>3. offered' \in Seq(Offerable) /\ Fits(firewall', offered', fullHits')
    BY <2>1, <2>2, <1>7, <1>8, <1>10, OfferMade
  <2>4. ClassHasEvidence' BY <2>2, <1>2, <1>12, <1>15 DEF ClassHasEvidence
  <2> QED BY <2>2, <2>3, <2>4, <1>1, <1>4, <1>5, <1>6, <1>7, <1>8, <1>9, <1>13, <1>16
<1> QED BY <1>14, <1>15

\* The bound below the head: a majority heads the list, with three hits when samples exceed three.
LEMMA Headed ==
  ASSUME NEW full \in Seq(Samples(Addresses)), NEW n \in Nat, BelowHead(full, n)
  PROVE  \A i \in DOMAIN full : 2 * full[i].hits > n => i = 1 /\ (n > 3 => full[1].hits >= 3)
<1> SUFFICES ASSUME NEW i \in DOMAIN full, 2 * full[i].hits > n
             PROVE  i = 1 /\ (n > 3 => full[1].hits >= 3)
  OBVIOUS
<1> DEFINE h == full[i].hits
<1>1. h \in Nat
  <2>1. full[i] \in Samples(Addresses) OBVIOUS
  <2> QED BY <2>1 DEF Samples
<1>2. i \in Nat \ {0} /\ (i >= 2 => 2 * h + i - 2 <= n) BY DEF BelowHead
<1>3. 2 * h > n OBVIOUS
<1> HIDE DEF h
<1>4. i = 1 BY <1>1, <1>2, <1>3
<1>5. n > 3 => h >= 3 BY <1>1, <1>3
<1> QED BY <1>4, <1>5 DEF h

LEMMA SamplerStart == SamplerInit => SamplerIInv
<1> SUFFICES ASSUME SamplerInit PROVE SamplerIInv OBVIOUS
<1> USE DEF SamplerInit
<1>1. IsFiniteSet(visited) /\ Cardinality(visited) = 0 BY FS_EmptySet
<1>2. SamplerTypeOK
  <2>1. said \in [visited -> Addresses]
    <3>1. said \in Seq(Addresses) /\ Len(said) = 0 OBVIOUS
    <3>2. said \in [1 .. 0 -> Addresses] /\ 1 .. 0 = {} BY <3>1
    <3> QED BY <3>2
  <2>2. hostHits \in Seq(Samples(HostsOf(Addresses))) /\ fullHits \in Seq(Samples(Addresses)) OBVIOUS
  <2>3. offered \in Seq(Addresses \cup (HostsOf(Addresses) \X {0})) OBVIOUS
  <2> QED BY <2>1, <2>2, <2>3 DEF SamplerTypeOK, Classes
<1>3. Counts(fullHits, said) /\ Counts(hostHits, [s \in visited |-> said[s][1]])
  <2>1. DOMAIN said = {} OBVIOUS
  <2>2. DOMAIN [s \in visited |-> said[s][1]] = {} OBVIOUS
  <2>3. DOMAIN fullHits = {} /\ DOMAIN hostHits = {} OBVIOUS
  <2> QED BY <2>1, <2>2, <2>3 DEF Counts
<1>4. HitsAccounted BY <1>1, <1>3 DEF HitsAccounted
<1>5. ClassHasEvidence /\ LadderDecides BY DEF ClassHasEvidence, LadderDecides
<1>6. OfferFits BY DEF OfferFits
<1>7. DOMAIN fullHits = {} OBVIOUS
<1>8. MajorityWins /\ BelowHead(fullHits, sampled) BY <1>7 DEF MajorityWins, BelowHead
<1> QED BY <1>1, <1>2, <1>4, <1>5, <1>6, <1>8 DEF SamplerIInv, SamplerInv

\* One handler.
LEMMA SamplerKept ==
  ASSUME SamplerIInv, [SamplerNext]_samplerVars
  PROVE  SamplerIInv'
<1>0. /\ sampled \in Nat /\ frozen \in BOOLEAN /\ firewall \in Classes
      /\ hostHits \in Seq(Samples(HostsOf(Addresses))) /\ fullHits \in Seq(Samples(Addresses))
      /\ Fits(firewall, offered, fullHits) /\ ClassHasEvidence
      /\ sampled >= 3 => hostHits # <<>> /\ fullHits # <<>>
  BY SamplerParts
<1>1. ASSUME NEW from \in Sources \cup Punchers, NEW a \in Addresses, New(from), Sample(from, a),
             frozen' \in BOOLEAN, frozen => frozen' = TRUE
      PROVE  SamplerIInv'
  <2>1. /\ visited' \subseteq Sources \cup Punchers /\ said' \in [visited' -> Addresses]
        /\ hostHits' \in Seq(Samples(HostsOf(Addresses))) /\ fullHits' \in Seq(Samples(Addresses))
        /\ sampled' \in Nat /\ firewall' \in Classes /\ offered' \in Seq(Offerable)
        /\ HitsAccounted' /\ ClassHasEvidence' /\ IsFiniteSet(visited')
        /\ Fits(firewall', offered', fullHits')
        /\ sampled' > 4 /\ ~frozen => firewall' # "unknown"
        /\ BelowHead(fullHits', sampled')
        /\ sampled' > 3 /\ ~frozen /\ fullHits'[1].hits >= 3 => firewall' = "consistent"
    BY <1>1, SampleStep
  <2>2. SamplerTypeOK' BY <2>1, <1>1 DEF SamplerTypeOK, Offerable
  <2>3. LadderDecides' BY <2>1, <1>1 DEF LadderDecides
  <2>4. OfferFits' BY <2>1 DEF OfferFits, Fits, SeenAddresses
  <2>5. MajorityWins'
    <3>1. sampled' > 3 /\ ~frozen' /\ fullHits'[1].hits >= 3 => firewall' = "consistent" BY <2>1, <1>1
    <3>2. \A i \in DOMAIN fullHits' :
            2 * fullHits'[i].hits > sampled' => i = 1 /\ (sampled' > 3 => fullHits'[1].hits >= 3)
      BY <2>1, Headed
    <3> QED BY <3>1, <3>2 DEF MajorityWins
  <2> QED BY <2>1, <2>2, <2>3, <2>4, <2>5 DEF SamplerIInv, SamplerInv
<1>2. ASSUME NEW from \in Sources, NEW a \in Hosts \X Ports, Add(from, a) PROVE SamplerIInv'
  <2>1. New(from) /\ Sample(from, a) /\ frozen' = frozen BY <1>2 DEF Add
  <2>2. from \in Sources \cup Punchers /\ a \in Addresses BY DEF Addresses
  <2> QED BY <2>1, <2>2, <1>0, <1>1
<1>3. ASSUME UNCHANGED <<visited, said, hostHits, fullHits, sampled, firewall, offered>>,
             frozen' \in BOOLEAN, frozen => frozen' = TRUE
      PROVE  SamplerIInv'
  BY <1>3 DEF SamplerIInv, SamplerInv, SamplerTypeOK, HitsAccounted, ClassHasEvidence, LadderDecides, OfferFits,
               MajorityWins
<1>4. ASSUME NEW c \in Punchers, HolepunchRequest(c) PROVE SamplerIInv'
  <2>1. frozen' = (frozen \/ firewall' # "unknown") BY <1>4 DEF HolepunchRequest
  <2>2. frozen' \in BOOLEAN /\ (frozen => frozen' = TRUE) BY <2>1, <1>0
  <2>3. CASE New(c)
    <3>1. Sample(c, c) BY <2>3, <1>4 DEF HolepunchRequest
    <3>2. c \in Sources \cup Punchers /\ c \in Addresses BY DEF Addresses
    <3> QED BY <2>2, <2>3, <3>1, <3>2, <1>1
  <2>4. CASE ~New(c)
    <3>1. UNCHANGED <<visited, said, hostHits, fullHits, sampled, firewall, offered>>
      BY <2>4, <1>4 DEF HolepunchRequest
    <3> QED BY <2>2, <3>1, <1>3
  <2> QED BY <2>3, <2>4
<1>5. CASE Freeze BY <1>5, <1>3 DEF Freeze
<1>6. CASE Unfreeze
  <2>1. /\ frozen' = FALSE /\ UNCHANGED <<visited, said, hostHits, fullHits, sampled>>
        /\ firewall' = UpdateFirewall(hostHits, fullHits, sampled, firewall)
        /\ offered' = Offer(firewall', hostHits, fullHits)
    BY <1>6 DEF Unfreeze
  <2>2. /\ firewall' \in Classes
        /\ sampled < 3 => firewall' = firewall
        /\ sampled > 4 => firewall' # "unknown"
        /\ sampled >= 3 /\ fullHits[1].hits >= 3 => firewall' = "consistent"
        /\ firewall' = "consistent" =>
             firewall = "consistent" \/ \E i \in DOMAIN fullHits : fullHits[i].hits >= 2
    BY <2>1, <1>0, LadderFits
  <2>3. firewall' # "unknown" => sampled >= 3 BY <2>2, <1>0 DEF ClassHasEvidence
  <2>4. offered' \in Seq(Offerable) /\ Fits(firewall', offered', fullHits)
    BY <2>1, <2>2, <2>3, <1>0, OfferMade
  <2>5. SamplerTypeOK' BY <2>1, <2>2, <2>4 DEF SamplerIInv, SamplerInv, SamplerTypeOK, Offerable
  <2>6. HitsAccounted' BY <2>1 DEF SamplerIInv, SamplerInv, HitsAccounted
  <2>7. ClassHasEvidence' BY <2>1, <2>2, <2>3, <1>0 DEF ClassHasEvidence
  <2>8. LadderDecides' BY <2>1, <2>2 DEF LadderDecides
  <2>9. OfferFits' BY <2>1, <2>4 DEF OfferFits, Fits, SeenAddresses
  <2>10. IsFiniteSet(visited') /\ BelowHead(fullHits', sampled') BY <2>1 DEF SamplerIInv
  <2>11. MajorityWins'
    <3>1. sampled > 3 => sampled >= 3 BY <1>0
    <3>2. sampled' > 3 /\ ~frozen' /\ fullHits'[1].hits >= 3 => firewall' = "consistent" BY <2>1, <2>2, <3>1
    <3>3. sampled' \in Nat /\ frozen' \in BOOLEAN /\ fullHits' \in Seq(Samples(Addresses)) BY <2>1, <1>0
    <3>4. \A i \in DOMAIN fullHits' :
            2 * fullHits'[i].hits > sampled' => i = 1 /\ (sampled' > 3 => fullHits'[1].hits >= 3)
      BY <2>10, <3>3, Headed
    <3> QED BY <3>2, <3>4 DEF MajorityWins
  <2> QED BY <2>5, <2>6, <2>7, <2>8, <2>9, <2>10, <2>11 DEF SamplerIInv, SamplerInv
<1>7. CASE UNCHANGED samplerVars BY <1>7, <1>0, <1>3 DEF samplerVars
<1> QED BY <1>2, <1>4, <1>5, <1>6, <1>7 DEF SamplerNext

LEMMA SamplerAlways == SamplerSpec => []SamplerIInv
BY SamplerStart, SamplerKept, PTL DEF SamplerSpec

\* NatSampler::add and update_firewall, for every set of sources, hosts and ports and in every
\* order of samples: each source counts once in both lists, although entries change places; no class is
\* taken from fewer than three samples, "consistent" never without an address seen twice;
\* the ladder decides after five samples; and an address that more than half of the sources
\* report heads the list and decides the class, although the list is not sorted by hits.
THEOREM SamplerTheorem == SamplerSpec => []SamplerInv
<1>1. SamplerIInv => SamplerInv BY DEF SamplerIInv
<1> QED BY <1>1, SamplerAlways, PTL

\* update_addresses: what is offered fits the class that is reported with it, also while the
\* class is frozen and the counts move on.
THEOREM OfferFitsTheorem == SamplerSpec => []OfferFits
<1>1. SamplerIInv => OfferFits BY DEF SamplerIInv
<1> QED BY <1>1, SamplerAlways, PTL
=============================================================================
