---------------------------- MODULE ServersProofs ----------------------------
(***************************************************************************)
(* TLAPS proofs about the lookup table, the edge-triggered server and its  *)
(* clients, the two timers and the HTTP server, each on its own and for    *)
(* every value of its constants.                                           *)
(***************************************************************************)
EXTENDS TimerManager, LookupTable, EdgeClient, TimerThread, TinyHttp, ProofLemmas

-----------------------------------------------------------------------------
(* The lookup table.                                                       *)
TableValues == {c.value : c \in UNION {CallsOf[t] : t \in Callers}}
Results == TableValues \cup {NoKey}
Pairs == Keys \X TableValues
CallRec ==
  [op : {"none", "value_for", "add_or_update", "remove", "get_map"},
   key : {c.key : c \in UNION {CallsOf[t] : t \in Callers}} \cup {NoKey},
   value : Results, pc : {"none", "lock", "body", "done"}, pos : Nat,
   map : [Keys -> Results]]
Writers == {"add_or_update", "remove"}

TableTypes ==
  /\ entries \in [Buckets -> Seq(Pairs)]
  /\ owner \in [Buckets -> Callers \cup {Nobody}]
  /\ shared \in [Buckets -> SUBSET Callers]
  /\ call \in [Callers -> CallRec]
  /\ seen \in [Callers -> SUBSET [Keys -> Results]]

(* The arguments of a call under way.                                      *)
Arguments(t) ==
  /\ call[t].pc = "none" => call[t].pos = 0
  /\ InCall(t) =>
       /\ call[t].op \in Writers \cup {"value_for"} => call[t].key \in Keys
       /\ call[t].op \in Writers => call[t].value \in TableValues

(* What a call knows while it holds its locks: a writer the place of its   *)
(* key, get_map the values of the buckets it has copied.                   *)
Holding(t) ==
  /\ call[t].pc = "body" /\ call[t].op \in Writers =>
       LET b == get_bucket(call[t].key)
       IN  owner[b] = t /\ call[t].pos = find_entry_for(entries[b], call[t].key)
  /\ call[t].pc = "lock" /\ call[t].op = "get_map" =>
       call[t].pos \in Buckets /\ \A b \in Buckets : b < call[t].pos => owner[b] = t
  /\ call[t].pc = "body" /\ call[t].op = "get_map" =>
       /\ call[t].pos \in Buckets
       /\ \A b \in Buckets : owner[b] = t
       /\ \A k \in Keys : get_bucket(k) < call[t].pos =>
            call[t].map[k] = Lookup(entries[get_bucket(k)], k)

Exclusive == \A b \in Buckets : owner[b] # Nobody => shared[b] = {}

Unique(s) == \A i, j \in 1 .. Len(s) : s[i][1] = s[j][1] => i = j

(* The table as it is now is among those a call under way may return, and  *)
(* what a finished call returns is one of them.                            *)
Answer(t) ==
  /\ InCall(t) => Table(entries) \in seen[t]
  /\ call[t].pc = "done" =>
       /\ call[t].op = "get_map" => call[t].map \in seen[t]
       /\ call[t].op = "value_for" => \E m \in seen[t] : m[call[t].key] = call[t].value

TableInv ==
  /\ TableTypes /\ Exclusive
  /\ \A t \in Callers : Arguments(t) /\ Holding(t) /\ Answer(t)
  /\ \A b \in Buckets : Unique(entries[b])

-----------------------------------------------------------------------------
LEMMA BucketIs ==
  ASSUME NEW k \in Keys
  PROVE  get_bucket(k) \in Buckets
  <1>1. Hash[k] \in Nat /\ NumBuckets \in Nat \ {0}
        BY TableAssumption
  <1>2. QED
        BY <1>1, WrapRange DEF get_bucket, Buckets

(* What find_entry_for finds.                                              *)
LEMMA FindIs ==
  ASSUME NEW s \in Seq(Pairs), NEW k
  PROVE  LET i == find_entry_for(s, k)
         IN  /\ i \in 1 .. (Len(s) + 1)
             /\ i <= Len(s) => s[i][1] = k
             /\ i > Len(s) => \A j \in 1 .. Len(s) : s[j][1] # k
  <1>0. Len(s) \in Nat
        OBVIOUS
  <1>1. CASE \E i \in 1 .. Len(s) : s[i][1] = k
    <2> DEFINE T == {i \in 1 .. Len(s) : s[i][1] = k}
    <2>1. T \in SUBSET Nat /\ T # {}
          BY <1>0, <1>1
    <2>2. PICK x \in T : \A y \in T : x <= y
          BY <2>1, LeastElement
    <2>3. x \in 1 .. Len(s) /\ s[x][1] = k /\ \A j \in 1 .. x - 1 : s[j][1] # k
      <3>1. x \in 1 .. Len(s) /\ s[x][1] = k
            OBVIOUS
      <3>2. ASSUME NEW j \in 1 .. x - 1, s[j][1] = k PROVE FALSE
        <4>1. j \in 1 .. Len(s) /\ ~ (x <= j)
              BY <1>0, <3>1
        <4>2. j \in T
              BY <3>2, <4>1
        <4>3. QED
              BY <2>2, <4>1, <4>2
      <3>3. QED
            BY <3>1, <3>2
    <2> HIDE DEF T
    <2>4. LET i == find_entry_for(s, k) IN i \in 1 .. Len(s) /\ s[i][1] = k
          BY <1>1, <2>3 DEF find_entry_for
    <2> DEFINE i == find_entry_for(s, k)
    <2>5. i \in 1 .. Len(s) /\ s[i][1] = k
          BY <2>4
    <2> HIDE DEF i
    <2>6. i \in 1 .. (Len(s) + 1) /\ i <= Len(s) /\ ~ (i > Len(s))
          BY <1>0, <2>5
    <2>7. QED
          BY <2>5, <2>6 DEF i
  <1>2. CASE ~ \E i \in 1 .. Len(s) : s[i][1] = k
    <2>1. find_entry_for(s, k) = Len(s) + 1
          BY <1>2 DEF find_entry_for
    <2>2. QED
          BY <1>0, <1>2, <2>1
  <1>3. QED
        BY <1>1, <1>2

LEMMA LookupIs ==
  ASSUME NEW s \in Seq(Pairs), NEW k
  PROVE  Lookup(s, k) \in Results
  <1> DEFINE i == find_entry_for(s, k)
  <1>1. i \in 1 .. (Len(s) + 1) /\ Len(s) \in Nat
        BY FindIs
  <1>2. Lookup(s, k) = IF i > Len(s) THEN NoKey ELSE s[i][2]
        BY DEF Lookup
  <1> HIDE DEF i
  <1>3. CASE i > Len(s)
        BY <1>2, <1>3 DEF Results
  <1>4. CASE ~ (i > Len(s))
    <2>1. i \in 1 .. Len(s)
          BY <1>1, <1>4
    <2>2. s[i] \in Pairs
          BY <2>1
    <2>3. QED
          BY <1>2, <1>4, <2>2 DEF Pairs, Results
  <1>5. QED
        BY <1>3, <1>4

LEMMA TableIs ==
  ASSUME TableTypes
  PROVE  /\ Table(entries) \in [Keys -> Results]
         /\ \A k \in Keys : Table(entries)[k] = Lookup(entries[get_bucket(k)], k)
  BY BucketIs, LookupIs DEF Table, TableTypes

(* A key stays unique when its pair is replaced or appended, and when a    *)
(* pair is erased.                                                         *)
LEMMA UpdateKeeps ==
  ASSUME NEW s \in Seq(Pairs), Unique(s), NEW k \in Keys, NEW v \in TableValues
  PROVE  LET r == Updated(s, find_entry_for(s, k), k, v)
         IN  r \in Seq(Pairs) /\ Unique(r)
  <1> DEFINE i == find_entry_for(s, k)
             e == <<k, v>>
  <1>1. /\ i \in 1 .. (Len(s) + 1)
        /\ i <= Len(s) => s[i][1] = k
        /\ i > Len(s) => \A j \in 1 .. Len(s) : s[j][1] # k
        /\ Len(s) \in Nat
        BY FindIs
  <1>2. e \in Pairs /\ e[1] = k
        BY DEF Pairs
  <1> HIDE DEF i, e
  <1>3. CASE i > Len(s)
    <2> DEFINE r == Append(s, e)
    <2>1. /\ r \in Seq(Pairs) /\ Len(r) = Len(s) + 1
          /\ \A j \in 1 .. Len(s) : r[j] = s[j]
          /\ r[Len(s) + 1] = e
          BY <1>2, PushBack
    <2> HIDE DEF r
    <2>2. \A j \in 1 .. Len(r) : j = Len(s) + 1 \/ j \in 1 .. Len(s)
          BY <1>1, <2>1
    <2>3. \A j \in 1 .. Len(s) : r[j][1] # k /\ r[j][1] = s[j][1]
          BY <1>1, <1>3, <2>1
    <2>4. r[Len(s) + 1][1] = k
          BY <1>2, <2>1
    <2>5. Unique(r)
          BY <2>2, <2>3, <2>4 DEF Unique
    <2>6. Updated(s, i, k, v) = r
          BY <1>3 DEF Updated, r, e
    <2>7. QED
          BY <2>1, <2>5, <2>6 DEF i
  <1>4. CASE ~ (i > Len(s))
    <2> DEFINE r == [s EXCEPT ![i] = e]
    <2>1. i \in 1 .. Len(s) /\ s[i][1] = k
          BY <1>1, <1>4
    <2>2. r \in Seq(Pairs) /\ Len(r) = Len(s)
          BY <1>2, <2>1
    <2>3. \A j \in 1 .. Len(s) : r[j][1] = s[j][1]
          BY <1>2, <2>1
    <2> HIDE DEF r
    <2>4. Unique(r)
          BY <2>2, <2>3 DEF Unique
    <2>5. Updated(s, i, k, v) = r
          BY <1>4 DEF Updated, r, e
    <2>6. QED
          BY <2>2, <2>4, <2>5 DEF i
  <1>5. QED
        BY <1>3, <1>4

LEMMA RemoveAtIs ==
  ASSUME NEW S, NEW s \in Seq(S), NEW i \in 1 .. Len(s)
  PROVE  /\ RemoveAt(s, i) \in Seq(S) /\ Len(RemoveAt(s, i)) = Len(s) - 1
         /\ \A j \in 1 .. (Len(s) - 1) : RemoveAt(s, i)[j] = IF j < i THEN s[j] ELSE s[j + 1]
  <1> DEFINE a == SubSeq(s, 1, i - 1)
             b == SubSeq(s, i + 1, Len(s))
  <1>1. Len(s) \in Nat /\ i \in Nat /\ i >= 1 /\ i <= Len(s)
        OBVIOUS
  <1>2. /\ a \in Seq(S) /\ Len(a) = i - 1 /\ \A j \in 1 .. (i - 1) : a[j] = s[j]
        BY <1>1
  <1>3. /\ b \in Seq(S) /\ Len(b) = Len(s) - i
        /\ \A j \in 1 .. (Len(s) - i) : b[j] = s[j + i]
    <2>1. i \in 0 .. Len(s)
          BY <1>1
    <2>2. QED
          BY <2>1, DropFront
  <1> HIDE DEF a, b
  <1>4. RemoveAt(s, i) = a \o b
        BY DEF RemoveAt, a, b
  <1>5. /\ a \o b \in Seq(S) /\ Len(a \o b) = Len(s) - 1
        /\ \A j \in 1 .. (Len(s) - 1) :
             (a \o b)[j] = IF j <= i - 1 THEN a[j] ELSE b[j - (i - 1)]
    <2>1. i - 1 = Len(a) /\ Len(s) - 1 = Len(a) + Len(b)
          BY <1>1, <1>2, <1>3
    <2>2. /\ a \o b \in Seq(S) /\ Len(a \o b) = Len(a) + Len(b)
          /\ \A j \in 1 .. (Len(a) + Len(b)) :
               (a \o b)[j] = IF j <= Len(a) THEN a[j] ELSE b[j - Len(a)]
          BY <1>2, <1>3, Joined
    <2>3. QED
          BY <2>1, <2>2
  <1>6. ASSUME NEW j \in 1 .. (Len(s) - 1)
        PROVE  (a \o b)[j] = IF j < i THEN s[j] ELSE s[j + 1]
    <2>1. CASE j < i
      <3>1. j <= i - 1 /\ j \in 1 .. (i - 1)
            BY <1>1, <2>1
      <3>2. QED
            BY <1>2, <1>5, <2>1, <3>1
    <2>2. CASE ~ (j < i)
      <3>1. /\ ~ (j <= i - 1) /\ j - (i - 1) \in 1 .. (Len(s) - i)
            /\ (j - (i - 1)) + i = j + 1
            BY <1>1, <2>2
      <3>2. QED
            BY <1>3, <1>5, <2>2, <3>1
    <2>3. QED
          BY <2>1, <2>2
  <1>7. QED
        BY <1>4, <1>5, <1>6

LEMMA RemoveKeeps ==
  ASSUME NEW s \in Seq(Pairs), Unique(s), NEW k
  PROVE  LET r == Removed(s, find_entry_for(s, k))
         IN  r \in Seq(Pairs) /\ Unique(r)
  <1> DEFINE i == find_entry_for(s, k)
             r == RemoveAt(s, i)
  <1>1. i \in 1 .. (Len(s) + 1) /\ Len(s) \in Nat
        BY FindIs
  <1> HIDE DEF i
  <1>2. CASE i > Len(s)
        BY <1>2 DEF Removed, i
  <1>3. CASE ~ (i > Len(s))
    <2>0. i \in 1 .. Len(s)
          BY <1>1, <1>3
    <2>1. /\ r \in Seq(Pairs) /\ Len(r) = Len(s) - 1
          /\ \A j \in 1 .. (Len(s) - 1) : r[j] = IF j < i THEN s[j] ELSE s[j + 1]
          BY <2>0, RemoveAtIs
    <2> HIDE DEF r
    <2> DEFINE origin(j) == IF j < i THEN j ELSE j + 1
    <2>2. \A j \in 1 .. Len(r) : origin(j) \in 1 .. Len(s) /\ r[j] = s[origin(j)]
          BY <1>1, <2>0, <2>1
    <2>3. \A j, l \in 1 .. Len(r) : origin(j) = origin(l) => j = l
          BY <1>1, <2>0, <2>1
    <2> HIDE DEF origin
    <2>4. Unique(r)
          BY <2>2, <2>3 DEF Unique
    <2>5. Removed(s, i) = r
          BY <1>3 DEF Removed, r
    <2>6. QED
          BY <2>1, <2>4, <2>5 DEF i
  <1>4. QED
        BY <1>2, <1>3

-----------------------------------------------------------------------------
(* Nothing changes for a call as long as it keeps its locks and nobody     *)
(* writes to the buckets behind them.                                      *)
LEMMA HoldingKept ==
  ASSUME TableTypes, NEW u \in Callers, Arguments(u), Holding(u), call'[u] = call[u],
         \A b \in Buckets : owner[b] = u => owner'[b] = u /\ entries'[b] = entries[b]
  PROVE  Holding(u)'
  <1>1. CASE call[u].pc = "body" /\ call[u].op \in Writers
    <2> DEFINE b == get_bucket(call[u].key)
    <2>1. b \in Buckets /\ owner[b] = u /\ call[u].pos = find_entry_for(entries[b], call[u].key)
          BY <1>1, BucketIs DEF Arguments, InCall, Holding
    <2>2. QED
          BY <1>1, <2>1 DEF Holding, Writers
  <1>2. CASE call[u].pc = "lock" /\ call[u].op = "get_map"
        BY <1>2 DEF Holding
  <1>3. CASE call[u].pc = "body" /\ call[u].op = "get_map"
        BY <1>3, BucketIs DEF Holding, Writers
  <1>4. QED
        BY <1>1, <1>2, <1>3 DEF Holding

LEMMA OthersKept ==
  ASSUME TableInv, NEW t \in Callers, UNCHANGED <<entries, seen>>,
         \A u \in Callers : u # t => call'[u] = call[u],
         \A b \in Buckets : \A u \in Callers : u # t /\ owner[b] = u => owner'[b] = u,
         TableTypes', Exclusive', Arguments(t)', Holding(t)', Answer(t)'
  PROVE  TableInv'
  <1>1. ASSUME NEW u \in Callers, u # t
        PROVE  Arguments(u)' /\ Holding(u)' /\ Answer(u)'
    <2>1. Holding(u)'
          BY <1>1, HoldingKept DEF TableInv
    <2>2. Arguments(u)'
          BY <1>1 DEF TableInv, Arguments, InCall
    <2>3. Answer(u)'
          BY <1>1 DEF TableInv, Answer, InCall
    <2>4. QED
          BY <2>1, <2>2, <2>3
  <1>2. QED
        BY <1>1 DEF TableInv

LEMMA BeginsKeeps ==
  ASSUME TableInv, NEW t \in Callers, CallBegins(t)
  PROVE  TableInv'
  <1> USE DEF TableInv
  <1>1. PICK c \in CallsOf[t] :
          call' = [call EXCEPT ![t] = [@ EXCEPT !.op = c.op, !.key = c.key,
                                                !.value = c.value, !.pc = "lock"]]
        BY DEF CallBegins
  <1>2. /\ call[t].pc = "none" /\ call[t].pos = 0
        /\ seen' = [seen EXCEPT ![t] = {Table(entries)}]
        /\ UNCHANGED <<entries, owner, shared>>
        BY DEF CallBegins, Arguments
  <1>3. /\ c.value \in TableValues /\ c.value \in Results
        /\ c.key \in {d.key : d \in UNION {CallsOf[u] : u \in Callers}} \cup {NoKey}
        /\ c.op \in {"value_for", "add_or_update", "remove", "get_map"}
        /\ c.op # "get_map" => c.key \in Keys
        BY TableAssumption DEF TableValues, Results, Callers
  <1>4. /\ call' \in [Callers -> CallRec]
        /\ call'[t].op = c.op /\ call'[t].key = c.key /\ call'[t].value = c.value
        /\ call'[t].pc = "lock" /\ call'[t].pos = 0
        /\ \A u \in Callers : u # t => call'[u] = call[u] /\ seen'[u] = seen[u]
        BY <1>1, <1>2, <1>3 DEF TableTypes, CallRec
  <1>5. seen' \in [Callers -> SUBSET [Keys -> Results]] /\ seen'[t] = {Table(entries)}
    <2>1. {Table(entries)} \in SUBSET [Keys -> Results]
          BY TableIs
    <2>2. QED
          BY <1>2, <2>1 DEF TableTypes
  <1>6. TableTypes' /\ Exclusive'
        BY <1>2, <1>4, <1>5 DEF TableTypes, Exclusive
  <1>7. Arguments(t)'
        BY <1>3, <1>4 DEF Arguments, InCall, Writers
  <1>8. Holding(t)'
    <2>1. 0 \in Buckets /\ \A b \in Buckets : ~ (b < 0)
          BY TableAssumption DEF Buckets
    <2>2. QED
          BY <1>4, <2>1 DEF Holding
  <1>9. Answer(t)'
        BY <1>2, <1>4, <1>5 DEF Answer, InCall
  <1>10. ASSUME NEW u \in Callers, u # t
         PROVE  Arguments(u)' /\ Holding(u)' /\ Answer(u)'
    <2>1. call'[u] = call[u] /\ seen'[u] = seen[u]
          BY <1>4, <1>10
    <2>2. Holding(u)'
          BY <1>2, <2>1, HoldingKept
    <2>3. Arguments(u)'
          BY <2>1 DEF Arguments, InCall
    <2>4. Answer(u)'
          BY <1>2, <2>1 DEF Answer, InCall
    <2>5. QED
          BY <2>2, <2>3, <2>4
  <1>11. QED
         BY <1>2, <1>6, <1>7, <1>8, <1>9, <1>10

LEMMA ReaderKeeps ==
  ASSUME TableInv, NEW t \in Callers, value_for_lock(t) \/ value_for(t)
  PROVE  TableInv'
  <1> USE DEF TableInv
  <1> DEFINE b == get_bucket(call[t].key)
             v == Lookup(entries[b], call[t].key)
  <1>1. /\ call[t].op = "value_for" /\ InCall(t) /\ call[t].key \in Keys
        /\ UNCHANGED <<entries, owner, seen>>
        BY DEF value_for_lock, value_for, InCall, Arguments
  <1>2. b \in Buckets /\ v \in Results /\ Table(entries)[call[t].key] = v
        BY <1>1, BucketIs, TableIs DEF TableTypes
  <1>3. CASE value_for_lock(t)
    <2>1. /\ call' = [call EXCEPT ![t].pc = "body"]
          /\ shared' = [shared EXCEPT ![b] = @ \cup {t}] /\ owner[b] = Nobody
          BY <1>3 DEF value_for_lock
    <2> HIDE DEF b, v
    <2>2. /\ call' \in [Callers -> CallRec]
          /\ \A u \in Callers : u # t => call'[u] = call[u]
          /\ call'[t].op = "value_for" /\ call'[t].key = call[t].key /\ call'[t].pc = "body"
          BY <1>1, <2>1 DEF TableTypes, CallRec
    <2>3. shared' \in [Buckets -> SUBSET Callers]
          BY <1>2, <2>1 DEF TableTypes
    <2>4. TableTypes'
          BY <1>1, <2>2, <2>3 DEF TableTypes
    <2>5. Exclusive'
          BY <1>1, <1>2, <2>1 DEF Exclusive, TableTypes
    <2>6. Arguments(t)' /\ Holding(t)' /\ Answer(t)'
          BY <1>1, <2>2 DEF Arguments, Holding, Answer, InCall, Writers
    <2>7. QED
          BY <1>1, <2>2, <2>4, <2>5, <2>6, OthersKept
  <1>4. CASE value_for(t)
    <2>1. /\ call' = [call EXCEPT ![t].pc = "done", ![t].value = v]
          /\ shared' = [shared EXCEPT ![b] = @ \ {t}]
          BY <1>4 DEF value_for
    <2> HIDE DEF b, v
    <2>2. /\ call' \in [Callers -> CallRec]
          /\ \A u \in Callers : u # t => call'[u] = call[u]
          /\ call'[t].op = "value_for" /\ call'[t].key = call[t].key /\ call'[t].pc = "done"
          /\ call'[t].value = v
      <3>1. call[t] \in CallRec /\ call \in [Callers -> CallRec]
            BY DEF TableTypes
      <3>2. call' = [call EXCEPT ![t] = [call[t] EXCEPT !.pc = "done", !.value = v]]
            BY <2>1, <3>1
      <3>3. [call[t] EXCEPT !.pc = "done", !.value = v] \in CallRec
            BY <1>2, <3>1 DEF CallRec
      <3>4. QED
            BY <1>1, <3>1, <3>2, <3>3 DEF CallRec
    <2>3. shared' \in [Buckets -> SUBSET Callers]
          BY <1>2, <2>1 DEF TableTypes
    <2>4. TableTypes'
          BY <1>1, <2>2, <2>3 DEF TableTypes
    <2>5. Exclusive'
          BY <1>1, <1>2, <2>1 DEF Exclusive, TableTypes
    <2>6. Arguments(t)' /\ Holding(t)'
          BY <2>2 DEF Arguments, Holding, InCall
    <2>7. Answer(t)'
          BY <1>1, <1>2, <2>2 DEF Answer, InCall
    <2>8. QED
          BY <1>1, <2>2, <2>4, <2>5, <2>6, <2>7, OthersKept
  <1>5. QED
        BY <1>3, <1>4

(* A writer finds the place of its key under the lock.                     *)
LEMMA FindsKeeps ==
  ASSUME TableInv, NEW t \in Callers, WriterFinds(t)
  PROVE  TableInv'
  <1> USE DEF TableInv
  <1> DEFINE b == get_bucket(call[t].key)
             p == find_entry_for(entries[b], call[t].key)
  <1>1. /\ call[t].op \in Writers /\ call[t].pc = "lock" /\ call[t].key \in Keys
        /\ call[t].value \in TableValues /\ InCall(t)
        /\ UNCHANGED <<entries, shared, seen>>
        BY DEF WriterFinds, InCall, Arguments, Writers
  <1>2. b \in Buckets /\ p \in Nat
    <2>1. b \in Buckets /\ entries[b] \in Seq(Pairs)
          BY <1>1, BucketIs DEF TableTypes
    <2>2. p \in 1 .. (Len(entries[b]) + 1)
          BY <2>1, FindIs
    <2> HIDE DEF p
    <2>3. QED
          BY <2>1, <2>2
  <1>3. /\ owner[b] = Nobody /\ shared[b] = {} /\ owner' = [owner EXCEPT ![b] = t]
        /\ call' = [call EXCEPT ![t].pc = "body", ![t].pos = p]
        BY DEF WriterFinds, Free
  <1> HIDE DEF b, p
  <1>4. /\ call' \in [Callers -> CallRec]
        /\ \A u \in Callers : u # t => call'[u] = call[u]
        /\ call'[t].op = call[t].op /\ call'[t].key = call[t].key /\ call'[t].pc = "body"
        /\ call'[t].pos = p /\ call'[t].value = call[t].value
    <2>1. call[t] \in CallRec /\ call \in [Callers -> CallRec]
          BY DEF TableTypes
    <2>2. call' = [call EXCEPT ![t] = [call[t] EXCEPT !.pc = "body", !.pos = p]]
          BY <1>3, <2>1
    <2>3. [call[t] EXCEPT !.pc = "body", !.pos = p] \in CallRec
          BY <1>2, <2>1 DEF CallRec
    <2>4. QED
          BY <2>1, <2>2, <2>3 DEF CallRec
  <1>5. /\ owner' \in [Buckets -> Callers \cup {Nobody}]
        /\ owner'[b] = t /\ \A x \in Buckets : x # b => owner'[x] = owner[x]
        BY <1>2, <1>3 DEF TableTypes
  <1>6. TableTypes'
        BY <1>1, <1>4, <1>5 DEF TableTypes
  <1>7. Exclusive'
        BY <1>1, <1>3, <1>5 DEF Exclusive
  <1>8. Arguments(t)'
        BY <1>1, <1>4 DEF Arguments, InCall
  <1>9. Answer(t)'
        BY <1>1, <1>4 DEF Answer, InCall
  <1>10. Holding(t)'
         BY <1>1, <1>4, <1>5 DEF Holding, Writers, b, p
  <1>11. \A x \in Buckets : \A u \in Callers : u # t /\ owner[x] = u => owner'[x] = u
         BY <1>3, <1>5, TableAssumption DEF Callers, Nobody
  <1>12. QED
         BY <1>1, <1>4, <1>6, <1>7, <1>8, <1>9, <1>10, <1>11, OthersKept

(* The write: the place found is still the place of the key, and every     *)
(* call under way notes the new table.                                     *)
LEMMA WritesKeeps ==
  ASSUME TableInv, NEW t \in Callers, WriterWrites(t)
  PROVE  TableInv'
  <1> USE DEF TableInv
  <1> DEFINE b == get_bucket(call[t].key)
             s == entries[b]
             i == find_entry_for(s, call[t].key)
             r == IF call[t].op = "remove" THEN Removed(s, i)
                  ELSE Updated(s, i, call[t].key, call[t].value)
  <1>1. /\ call[t].op \in Writers /\ call[t].pc = "body" /\ call[t].key \in Keys
        /\ call[t].value \in TableValues /\ InCall(t)
        BY DEF WriterWrites, InCall, Arguments, Writers
  <1>2. b \in Buckets /\ s \in Seq(Pairs) /\ Unique(s) /\ owner[b] = t /\ call[t].pos = i
        BY <1>1, BucketIs DEF TableTypes, Holding
  <1>3. /\ entries' = [entries EXCEPT ![b] = r]
        /\ owner' = [owner EXCEPT ![b] = Nobody]
        /\ call' = [call EXCEPT ![t].pc = "done"]
        /\ seen' = [u \in Callers |-> IF InCall(u) THEN seen[u] \cup {Table(entries')}
                                      ELSE seen[u]]
        /\ UNCHANGED shared
        BY <1>2 DEF WriterWrites, Note
  <1>4. r \in Seq(Pairs) /\ Unique(r)
        BY <1>1, <1>2, UpdateKeeps, RemoveKeeps
  <1> HIDE DEF b, s, i, r
  <1>5. /\ entries' \in [Buckets -> Seq(Pairs)] /\ entries'[b] = r
        /\ \A x \in Buckets : x # b => entries'[x] = entries[x]
        /\ owner' \in [Buckets -> Callers \cup {Nobody}] /\ owner'[b] = Nobody
        /\ \A x \in Buckets : x # b => owner'[x] = owner[x]
        BY <1>2, <1>3, <1>4 DEF TableTypes
  <1>6. /\ call' \in [Callers -> CallRec]
        /\ \A u \in Callers : u # t => call'[u] = call[u]
        /\ call'[t].op = call[t].op /\ call'[t].pc = "done"
        BY <1>3 DEF TableTypes, CallRec
  <1>7. Table(entries') \in [Keys -> Results]
        BY <1>5, BucketIs, LookupIs DEF Table
  <1>8. /\ seen' \in [Callers -> SUBSET [Keys -> Results]]
        /\ \A u \in Callers : seen[u] \subseteq seen'[u]
        /\ \A u \in Callers : InCall(u) => Table(entries') \in seen'[u]
        BY <1>3, <1>7 DEF TableTypes
  <1>9. TableTypes'
        BY <1>3, <1>5, <1>6, <1>8 DEF TableTypes
  <1>10. Exclusive'
         BY <1>2, <1>3, <1>5 DEF Exclusive
  <1>11. \A x \in Buckets : Unique(entries[x])'
         BY <1>4, <1>5 DEF Unique
  <1>12. ASSUME NEW u \in Callers PROVE Arguments(u)' /\ Holding(u)' /\ Answer(u)'
    <2>1. CASE u = t
          BY <1>1, <1>6, <2>1 DEF Arguments, Holding, Answer, InCall, Writers
    <2>2. CASE u # t
      <3>1. call'[u] = call[u]
            BY <1>6, <2>2
      <3>2. Holding(u)'
        <4>1. \A x \in Buckets : owner[x] = u => owner'[x] = u /\ entries'[x] = entries[x]
              BY <1>2, <1>5, <2>2
        <4>2. QED
              BY <3>1, <4>1, HoldingKept
      <3>3. Arguments(u)'
            BY <3>1 DEF Arguments, InCall
      <3>4. Answer(u)'
            BY <1>8, <3>1 DEF Answer, InCall
      <3>5. QED
            BY <3>2, <3>3, <3>4
    <2>3. QED
          BY <2>1, <2>2
  <1>13. QED
         BY <1>9, <1>10, <1>11, <1>12

(* get_map takes the locks in the order of the buckets.                    *)
LEMMA MapLockKeeps ==
  ASSUME TableInv, NEW t \in Callers, get_map_lock(t)
  PROVE  TableInv'
  <1> USE DEF TableInv
  <1> DEFINE b == call[t].pos
             last == b = NumBuckets - 1
             p == IF last THEN 0 ELSE b + 1
             l == IF last THEN "body" ELSE "lock"
  <1>1. /\ call[t].op = "get_map" /\ call[t].pc = "lock" /\ InCall(t)
        /\ UNCHANGED <<entries, shared, seen>>
        BY DEF get_map_lock, InCall
  <1>2. b \in Buckets /\ \A x \in Buckets : x < b => owner[x] = t
        BY <1>1 DEF Holding
  <1>3. /\ owner[b] = Nobody /\ shared[b] = {} /\ owner' = [owner EXCEPT ![b] = t]
        /\ call' = [call EXCEPT ![t].pos = p, ![t].pc = l]
        BY DEF get_map_lock, Free
  <1>4. /\ p \in Buckets /\ p \in Nat
        /\ \A x \in Buckets : last => x < b \/ x = b
        /\ \A x \in Buckets : ~ last /\ x < p => x < b \/ x = b
        /\ \A x \in Buckets : ~ (x < 0)
        BY <1>2, TableAssumption DEF Buckets
  <1>5. l \in {"body", "lock"} /\ (l = "body" <=> last) /\ (l = "body" => p = 0)
        OBVIOUS
  <1> HIDE DEF b, p, l, last
  <1>6. /\ call' \in [Callers -> CallRec]
        /\ \A u \in Callers : u # t => call'[u] = call[u]
        /\ call'[t].op = "get_map" /\ call'[t].pc = l /\ call'[t].pos = p
    <2>1. call[t] \in CallRec /\ call \in [Callers -> CallRec]
          BY DEF TableTypes
    <2>2. call' = [call EXCEPT ![t] = [call[t] EXCEPT !.pos = p, !.pc = l]]
          BY <1>3, <2>1
    <2>3. [call[t] EXCEPT !.pos = p, !.pc = l] \in CallRec
          BY <1>4, <1>5, <2>1 DEF CallRec
    <2>4. QED
          BY <1>1, <2>1, <2>2, <2>3 DEF CallRec
  <1>7. /\ owner' \in [Buckets -> Callers \cup {Nobody}]
        /\ owner'[b] = t /\ \A x \in Buckets : x # b => owner'[x] = owner[x]
        BY <1>2, <1>3 DEF TableTypes
  <1>8. TableTypes'
        BY <1>1, <1>6, <1>7 DEF TableTypes
  <1>9. Exclusive'
        BY <1>1, <1>3, <1>7 DEF Exclusive
  <1>10. Arguments(t)' /\ Answer(t)'
         BY <1>1, <1>5, <1>6 DEF Arguments, Answer, InCall, Writers
  <1>11. Holding(t)'
    <2>1. CASE last
      <3>1. \A x \in Buckets : owner'[x] = t
            BY <1>2, <1>4, <1>7, <2>1
      <3>2. \A k \in Keys : ~ (get_bucket(k) < 0)
            BY <1>4, BucketIs
      <3>3. QED
            BY <1>4, <1>5, <1>6, <2>1, <3>1, <3>2 DEF Holding, Writers
    <2>2. CASE ~ last
      <3>1. \A x \in Buckets : x < p => owner'[x] = t
            BY <1>2, <1>4, <1>7, <2>2
      <3>2. QED
            BY <1>4, <1>5, <1>6, <2>2, <3>1 DEF Holding, Writers
    <2>3. QED
          BY <2>1, <2>2
  <1>12. \A x \in Buckets : \A u \in Callers : u # t /\ owner[x] = u => owner'[x] = u
         BY <1>3, <1>7, TableAssumption DEF Callers, Nobody
  <1>13. QED
         BY <1>1, <1>6, <1>8, <1>9, <1>10, <1>11, <1>12, OthersKept

(* With all the locks it copies bucket by bucket, and what it has at the   *)
(* end is the table of that moment.                                        *)
LEMMA MapCopyKeeps ==
  ASSUME TableInv, NEW t \in Callers, get_map_copy(t)
  PROVE  TableInv'
  <1> USE DEF TableInv
  <1> DEFINE b == call[t].pos
             last == b = NumBuckets - 1
             l == IF last THEN "done" ELSE "body"
             m == [k \in Keys |-> IF get_bucket(k) = b THEN Lookup(entries[b], k)
                                  ELSE call[t].map[k]]
  <1>1. /\ call[t].op = "get_map" /\ call[t].pc = "body" /\ InCall(t)
        /\ UNCHANGED <<entries, shared, seen>>
        BY DEF get_map_copy, InCall
  <1>2. /\ b \in Buckets /\ \A x \in Buckets : owner[x] = t
        /\ \A k \in Keys : get_bucket(k) < b => call[t].map[k] = Lookup(entries[get_bucket(k)], k)
        BY <1>1 DEF Holding
  <1>3. /\ call' = [call EXCEPT ![t].map = m, ![t].pos = b + 1, ![t].pc = l]
        /\ owner' = IF last THEN [x \in Buckets |-> IF owner[x] = t THEN Nobody ELSE owner[x]]
                    ELSE owner
    <2>1. call[t] \in CallRec /\ call \in [Callers -> CallRec]
          BY DEF TableTypes
    <2>2. QED
          BY <2>1 DEF get_map_copy
  <1>4. /\ b + 1 \in Nat
        /\ ~ last => b + 1 \in Buckets
        /\ \A x \in Buckets : x < b + 1 => x < b \/ x = b
        /\ last => \A x \in Buckets : x < b \/ x = b
        BY <1>2, TableAssumption DEF Buckets
  <1>5. l \in {"body", "done"} /\ (l = "done" <=> last)
        OBVIOUS
  <1>6. m \in [Keys -> Results]
        BY <1>2, LookupIs DEF TableTypes, CallRec
  <1>7. \A k \in Keys : get_bucket(k) < b \/ get_bucket(k) = b =>
          m[k] = Lookup(entries[get_bucket(k)], k)
    <2>1. ASSUME NEW k \in Keys, get_bucket(k) = b
          PROVE  m[k] = Lookup(entries[get_bucket(k)], k)
          BY <2>1
    <2>2. ASSUME NEW k \in Keys, get_bucket(k) < b
          PROVE  m[k] = Lookup(entries[get_bucket(k)], k)
      <3>1. get_bucket(k) # b
            BY <1>2, <2>2, BucketIs DEF Buckets
      <3>2. QED
            BY <1>2, <2>2, <3>1
    <2>3. QED
          BY <2>1, <2>2
  <1> HIDE DEF b, l, m, last
  <1>8. /\ call' \in [Callers -> CallRec]
        /\ \A u \in Callers : u # t => call'[u] = call[u]
        /\ call'[t].op = "get_map" /\ call'[t].pc = l /\ call'[t].pos = b + 1
        /\ call'[t].map = m
    <2>1. call[t] \in CallRec /\ call \in [Callers -> CallRec]
          BY DEF TableTypes
    <2>2. call' = [call EXCEPT ![t] = [call[t] EXCEPT !.map = m, !.pos = b + 1, !.pc = l]]
          BY <1>3, <2>1
    <2>3. [call[t] EXCEPT !.map = m, !.pos = b + 1, !.pc = l] \in CallRec
          BY <1>4, <1>5, <1>6, <2>1 DEF CallRec
    <2>4. QED
          BY <1>1, <2>1, <2>2, <2>3 DEF CallRec
  <1>9. /\ owner' \in [Buckets -> Callers \cup {Nobody}]
        /\ \A x \in Buckets : owner'[x] = owner[x] \/ (last /\ owner'[x] = Nobody)
        /\ ~ last => owner' = owner
        BY <1>3 DEF TableTypes
  <1>10. TableTypes'
         BY <1>1, <1>8, <1>9 DEF TableTypes
  <1>11. Exclusive'
         BY <1>1, <1>9 DEF Exclusive
  <1>12. Arguments(t)'
         BY <1>1, <1>5, <1>8 DEF Arguments, InCall, Writers
  <1>13. Holding(t)'
         BY <1>1, <1>2, <1>4, <1>5, <1>7, <1>8, <1>9, BucketIs DEF Holding, Writers
  <1>14. Answer(t)'
    <2>1. last => m = Table(entries)
      <3>1. last => \A k \in Keys : m[k] = Table(entries)[k]
            BY <1>4, <1>7, BucketIs, TableIs
      <3>2. Table(entries) \in [Keys -> Results]
            BY TableIs
      <3>3. QED
            BY <1>6, <3>1, <3>2
    <2>2. QED
          BY <1>1, <1>5, <1>8, <2>1 DEF Answer, InCall
  <1>15. \A x \in Buckets : \A u \in Callers : u # t /\ owner[x] = u => owner'[x] = u
         BY <1>2, <1>9
  <1>16. QED
         BY <1>1, <1>8, <1>10, <1>11, <1>12, <1>13, <1>14, <1>15, OthersKept

LEMMA TableInvInit == TableInit => TableInv
  <1> SUFFICES ASSUME TableInit PROVE TableInv
      OBVIOUS
  <1>1. /\ \A b \in Buckets : entries[b] = <<>>
        /\ \A t \in Callers : call[t].pc = "none" /\ call[t].pos = 0
        BY DEF TableInit
  <1>2. call \in [Callers -> CallRec]
    <2>1. NoKey \in Results
          BY DEF Results
    <2>2. [k \in Keys |-> NoKey] \in [Keys -> Results]
          BY <2>1
    <2>3. QED
          BY <2>1, <2>2 DEF TableInit, CallRec
  <1>3. /\ entries \in [Buckets -> Seq(Pairs)]
        /\ owner \in [Buckets -> Callers \cup {Nobody}]
        /\ shared \in [Buckets -> SUBSET Callers]
        /\ seen \in [Callers -> SUBSET [Keys -> Results]]
        BY DEF TableInit
  <1>4. \A b \in Buckets : Unique(entries[b])
        BY <1>1 DEF Unique
  <1>5. \A t \in Callers : Arguments(t) /\ Holding(t) /\ Answer(t)
        BY <1>1 DEF Arguments, Holding, Answer, InCall
  <1>6. Exclusive
        BY DEF TableInit, Exclusive
  <1>7. QED
        BY <1>2, <1>3, <1>4, <1>5, <1>6 DEF TableInv, TableTypes

(* However many threads and buckets there are and however the keys are     *)
(* hashed, get_map returns the whole table as it was at one moment of the  *)
(* call, value_for a value its key had at one moment, and no bucket ever   *)
(* holds a key twice.                                                      *)
THEOREM TableIsLinearizable == TableInit /\ [][TableNext]_tableVars => []Linearizable
  <1>1. TableInv /\ [TableNext]_tableVars => TableInv'
    <2> SUFFICES ASSUME TableInv, [TableNext]_tableVars PROVE TableInv'
        OBVIOUS
    <2>1. CASE TableNext
          BY <2>1, BeginsKeeps, ReaderKeeps, FindsKeeps, WritesKeeps, MapLockKeeps,
             MapCopyKeeps DEF TableNext
    <2>2. CASE UNCHANGED tableVars
          BY <2>2 DEF tableVars, TableInv, TableTypes, Exclusive, Arguments, Holding,
             Answer, InCall, Unique
    <2>3. QED
          BY <2>1, <2>2
  <1>2. TableInv => Linearizable
        BY DEF TableInv, Answer, Unique, Linearizable
  <1>3. QED
        BY <1>1, <1>2, TableInvInit, PTL
-----------------------------------------------------------------------------
(* The edge-triggered server.  Closing goes by descriptor number, so the    *)
(* invariant follows the numbers: an event still to be handled belongs to   *)
(* the connection that had its number when epoll_wait reported it.          *)
ClosedHow == {"", "fin", "rst", "pipe"}
EventRec == [fd : Nat, ev : SUBSET {"IN", "HUP"}, data : BOOLEAN]

EdgeTypes ==
  /\ conn \in [Clients -> {"none", "backlog", "open", "closed"}]
  /\ fdOf \in [Clients -> {0} \cup FdRange]
  /\ fin \in [Clients -> ClosedHow]
  /\ asked \in [Clients -> BOOLEAN]
  /\ edge \in [Clients -> SUBSET {"IN", "HUP"}]
  /\ batch \in SUBSET EventRec /\ cur \in EventRec

(* A number belongs to one open connection.                                *)
NumbersOwned ==
  /\ \A c \in Clients : conn[c] = "open" <=> fdOf[c] # 0
  /\ \A c, d \in Clients : fdOf[c] = fdOf[d] /\ fdOf[c] # 0 => c = d

(* The kernel watches open connections, and reports a hang-up only of a    *)
(* connection that the client has closed.                                  *)
EdgesTrue ==
  \A c \in Clients : /\ edge[c] # {} => conn[c] = "open"
                     /\ "HUP" \in edge[c] => fin[c] # ""

(* A reported event is for the connection that still has that number; no   *)
(* number is reported twice.                                               *)
BatchTrue ==
  /\ \A e \in batch : e.fd # Listener =>
       \E c \in Clients : /\ conn[c] = "open" /\ fdOf[c] = e.fd
                          /\ "HUP" \in e.ev => fin[c] # ""
  /\ \A e, f \in batch : e.fd = f.fd => e = f
  /\ \A e \in batch : e.fd # cur.fd

(* The same of the event under way, unless the number is free by now.      *)
CurTrue == "HUP" \in cur.ev => \A c \in Owner(cur.fd) : fin[c] # ""

EdgeInv ==
  EdgeTypes /\ NumbersOwned /\ EdgesTrue /\ BatchTrue /\ CurTrue /\ OnlyDeadClosed

LEMMA FdRangeIs ==
  /\ Cardinality(Clients) \in Nat
  /\ FdRange \in SUBSET Nat
  /\ \A f \in FdRange : f # 0 /\ f # Listener
  /\ IsFiniteSet(FdRange) /\ Cardinality(FdRange) = Cardinality(Clients)
  <1>1. Cardinality(Clients) \in Nat
        BY ClientsAssumption, FS_CardinalityType
  <1>2. /\ IsFiniteSet(4 .. (3 + Cardinality(Clients)))
        /\ Cardinality(4 .. (3 + Cardinality(Clients))) = Cardinality(Clients)
        BY <1>1, FS_Interval
  <1>3. FdRange = 4 .. (3 + Cardinality(Clients))
        BY DEF FdRange, Listener
  <1>4. QED
        BY <1>1, <1>2, <1>3 DEF Listener

(* There is always a number for one more connection: FreeFd is the lowest. *)
LEMMA FreeFdIsFree ==
  ASSUME EdgeTypes, NEW c \in Clients, fdOf[c] = 0
  PROVE  FreeFd \in FdRange /\ \A d \in Clients : fdOf[d] # FreeFd
  <1> DEFINE Others == Clients \ {c}
             Used == {fdOf[d] : d \in Others}
             Unused == FdRange \ Used
  <1>1. IsFiniteSet(Others) /\ Cardinality(Others) = Cardinality(Clients) - 1
        BY ClientsAssumption, FS_RemoveElement
  <1>2. IsFiniteSet(Used) /\ Cardinality(Used) \in Nat /\ Cardinality(Used) <= Cardinality(Others)
        BY <1>1, ImageOfFinite
  <1>3. Unused # {}
    <2>1. ASSUME Unused = {} PROVE FALSE
      <3>1. FdRange \subseteq Used
            BY <2>1
      <3>2. Cardinality(FdRange) <= Cardinality(Used)
            BY <3>1, <1>2, FS_Subset
      <3>3. QED
            BY <3>2, <1>1, <1>2, FdRangeIs
    <2>2. QED
          BY <2>1
  <1>4. Unused \in SUBSET Nat
        BY FdRangeIs
  <1>5. PICK f \in Unused : \A g \in Unused : f <= g
        BY <1>3, <1>4, LeastElement
  <1>6. /\ f \in FdRange
        /\ \A d \in Clients : fdOf[d] # f
    <2>1. f # 0
          BY FdRangeIs
    <2>2. QED
          BY <1>5, <2>1
  <1>7. \A g \in FdRange : g < f => \E d \in Clients : fdOf[d] = g
    <2>1. SUFFICES ASSUME NEW g \in FdRange, g < f PROVE \E d \in Clients : fdOf[d] = g
          OBVIOUS
    <2>2. g \notin Unused
          BY <2>1, <1>4, <1>5
    <2>3. QED
          BY <2>2
  <1>8. QED
        BY <1>6, <1>7 DEF FreeFd

(* The end of a connection is never taken back.                            *)
FinGrows == fin' \in [Clients -> ClosedHow] /\ \A c \in Clients : fin[c] # "" => fin'[c] # ""

LEMMA SendGrows ==
  ASSUME EdgeTypes, NEW c \in Clients, NEW f \in AfterSend(fin[c]), fin' = [fin EXCEPT ![c] = f]
  PROVE  /\ FinGrows
         /\ Raised(c, f) \in SUBSET {"IN", "HUP"}
         /\ "HUP" \in Raised(c, f) => fin'[c] # ""
  <1>1. fin[c] \in ClosedHow /\ f \in ClosedHow /\ (fin[c] # "" => f # "")
        BY DEF EdgeTypes, AfterSend, ClosedHow
  <1>2. Raised(c, f) \in SUBSET {"IN", "HUP"} /\ ("HUP" \in Raised(c, f) => f = "pipe")
        BY DEF Raised
  <1>3. QED
        BY <1>1, <1>2 DEF EdgeTypes, FinGrows

LEMMA EdgeInitially == EdgeInit => EdgeInv
  <1>1. SUFFICES ASSUME EdgeInit PROVE EdgeInv
        OBVIOUS
  <1>2. NoEvent \in EventRec
        BY DEF NoEvent, EventRec
  <1>3. QED
        BY <1>1, <1>2 DEF EdgeInit, ServerInit, EdgeInv, EdgeTypes, ClosedHow, NumbersOwned, EdgesTrue,
                          BatchTrue, CurTrue, OnlyDeadClosed, Owner, NoEvent

LEMMA WaitKeeps ==
  ASSUME EdgeInv, EpollWait PROVE EdgeInv'
  <1> DEFINE ready == {d \in Clients : edge[d] # {}}
  <1>1. /\ conn' = conn /\ fin' = fin /\ fdOf' = fdOf /\ asked' = asked /\ cur' = cur
        /\ edge' = [c \in Clients |-> {}]
        /\ cur = NoEvent
        BY DEF EpollWait
  <1>2. \A e \in batch' : \/ e = Event(Listener, {"IN"})
                          \/ \E c \in Clients : edge[c] # {} /\ e = Event(fdOf[c], edge[c])
        BY DEF EpollWait
  <1>3. \A c \in Clients : edge[c] # {} => conn[c] = "open" /\ fdOf[c] # 0 /\ fdOf[c] \in FdRange
        BY DEF EdgeInv, EdgesTrue, NumbersOwned, EdgeTypes
  <1>4. EdgeTypes'
    <2>1. ASSUME NEW e \in batch' PROVE e \in EventRec
      <3>1. CASE e = Event(Listener, {"IN"})
            BY <3>1 DEF Event, EventRec, Listener
      <3>2. CASE \E c \in Clients : edge[c] # {} /\ e = Event(fdOf[c], edge[c])
        <4>1. PICK c \in Clients : edge[c] # {} /\ e = Event(fdOf[c], edge[c])
              BY <3>2
        <4>2. fdOf[c] \in Nat /\ edge[c] \in SUBSET {"IN", "HUP"}
              BY <4>1, <1>3, FdRangeIs DEF EdgeInv, EdgeTypes
        <4>3. QED
              BY <4>1, <4>2 DEF Event, EventRec
      <3>3. QED
            BY <3>1, <3>2, <1>2
    <2>2. batch' \in SUBSET EventRec
          BY <2>1
    <2>3. QED
          BY <1>1, <2>2 DEF EdgeInv, EdgeTypes, FdRange
  <1>5. BatchTrue'
    <2>1. ASSUME NEW e \in batch', e.fd # Listener
          PROVE  \E c \in Clients : conn[c] = "open" /\ fdOf[c] = e.fd /\ ("HUP" \in e.ev => fin[c] # "")
      <3>1. e # Event(Listener, {"IN"})
            BY <2>1 DEF Event
      <3>2. PICK c \in Clients : edge[c] # {} /\ e = Event(fdOf[c], edge[c])
            BY <3>1, <1>2
      <3>3. e.fd = fdOf[c] /\ e.ev = edge[c]
            BY <3>2 DEF Event
      <3>4. QED
            BY <3>2, <3>3, <1>3 DEF EdgeInv, EdgesTrue
    <2>2. ASSUME NEW e \in batch', NEW f \in batch', e.fd = f.fd PROVE e = f
      <3>1. \A g \in batch' : g # Event(Listener, {"IN"}) => g.fd # Listener
        <4>1. \A c \in Clients : edge[c] # {} => Event(fdOf[c], edge[c]).fd # Listener
              BY <1>3, FdRangeIs DEF Event
        <4>2. QED
              BY <4>1, <1>2
      <3>2. CASE e = Event(Listener, {"IN"})
        <4>1. f.fd = Listener
              BY <3>2, <2>2 DEF Event
        <4>2. QED
              BY <4>1, <3>1, <3>2
      <3>3. CASE e # Event(Listener, {"IN"})
        <4>1. f # Event(Listener, {"IN"})
          <5>1. e.fd # Listener
                BY <3>1, <3>3
          <5>2. QED
                BY <5>1, <2>2 DEF Event
        <4>2. PICK c \in Clients : edge[c] # {} /\ e = Event(fdOf[c], edge[c])
              BY <3>3, <1>2
        <4>3. PICK d \in Clients : edge[d] # {} /\ f = Event(fdOf[d], edge[d])
              BY <4>1, <1>2
        <4>4. fdOf[c] = fdOf[d]
              BY <4>2, <4>3, <2>2 DEF Event
        <4>5. c = d
              BY <4>4, <4>2, <1>3 DEF EdgeInv, NumbersOwned
        <4>6. QED
              BY <4>2, <4>3, <4>5
      <3>4. QED
            BY <3>2, <3>3
    <2>3. ASSUME NEW e \in batch' PROVE e.fd # cur.fd
      <3>1. cur.fd = 0
            BY <1>1 DEF NoEvent
      <3>2. e.fd # 0
        <4>1. \A c \in Clients : edge[c] # {} => Event(fdOf[c], edge[c]).fd # 0
              BY <1>3 DEF Event
        <4>2. Event(Listener, {"IN"}).fd # 0
              BY DEF Event, Listener
        <4>3. QED
              BY <4>1, <4>2, <1>2
      <3>3. QED
            BY <3>1, <3>2
    <2>4. QED
          BY <1>1, <2>1, <2>2, <2>3 DEF BatchTrue
  <1>6. QED
        BY <1>1, <1>4, <1>5
           DEF EdgeInv, NumbersOwned, EdgesTrue, CurTrue, OnlyDeadClosed, Owner, NoEvent

LEMMA DispatchKeeps ==
  ASSUME EdgeInv, Dispatch PROVE EdgeInv'
  <1>1. PICK e \in batch : e.fd # Listener /\ cur' = e /\ batch' = batch \ {e}
        BY DEF Dispatch
  <1>2. conn' = conn /\ fin' = fin /\ fdOf' = fdOf /\ asked' = asked /\ edge' = edge
        BY DEF Dispatch, sockVars
  <1>3. PICK c \in Clients : conn[c] = "open" /\ fdOf[c] = e.fd /\ ("HUP" \in e.ev => fin[c] # "")
        BY <1>1 DEF EdgeInv, BatchTrue
  <1>4. \A d \in Owner(e.fd) : d = c
        BY <1>3 DEF Owner, EdgeInv, NumbersOwned
  <1>5. CurTrue'
        BY <1>1, <1>2, <1>3, <1>4 DEF CurTrue, Owner
  <1>6. EdgeTypes'
        BY <1>1, <1>2 DEF EdgeInv, EdgeTypes, FdRange
  <1>7. BatchTrue'
        BY <1>1, <1>2 DEF EdgeInv, BatchTrue
  <1>8. QED
        BY <1>2, <1>5, <1>6, <1>7 DEF EdgeInv, NumbersOwned, EdgesTrue, OnlyDeadClosed

LEMMA AcceptKeeps ==
  ASSUME EdgeInv, handle_new_connection PROVE EdgeInv'
  <1> DEFINE arrived(d) == (IF upstream[d] # <<>> \/ fin[d] # "" THEN {"IN"} ELSE {})
                           \cup (IF fin[d] = "rst" THEN {"HUP"} ELSE {})
  <1>0. PICK e \in batch, c \in Clients : \E f \in AfterSend(fin[c]) :
          /\ e.fd = Listener /\ conn[c] = "backlog"
          /\ batch' = batch \ {e}
          /\ conn' = [conn EXCEPT ![c] = "open"]
          /\ fdOf' = [fdOf EXCEPT ![c] = FreeFd]
          /\ edge' = [edge EXCEPT ![c] = arrived(c) \cup Raised(c, f)]
          /\ Sends(c, "welcome", f)
        BY Zenon DEF handle_new_connection
  <1>a. PICK f \in AfterSend(fin[c]) : /\ edge' = [edge EXCEPT ![c] = arrived(c) \cup Raised(c, f)]
                                       /\ fin' = [fin EXCEPT ![c] = f]
        BY <1>0, Zenon DEF Sends
  <1>1. /\ conn[c] = "backlog"
        /\ batch' = batch \ {e}
        /\ conn' = [conn EXCEPT ![c] = "open"]
        /\ fdOf' = [fdOf EXCEPT ![c] = FreeFd]
        BY <1>0, Zenon
  <1>b. /\ FinGrows
        /\ Raised(c, f) \in SUBSET {"IN", "HUP"}
        /\ "HUP" \in Raised(c, f) => fin'[c] # ""
        BY <1>a, SendGrows DEF EdgeInv
  <1>2. asked' = asked /\ cur' = cur /\ cur = NoEvent
        BY DEF handle_new_connection
  <1>3. fdOf[c] = 0
        BY <1>1 DEF EdgeInv, NumbersOwned
  <1>4. FreeFd \in FdRange /\ FreeFd # 0 /\ \A d \in Clients : fdOf[d] # FreeFd
        BY <1>3, FreeFdIsFree, FdRangeIs DEF EdgeInv
  <1>5. PICK n : n = FreeFd
        OBVIOUS
  <1>6. fdOf' = [fdOf EXCEPT ![c] = n] /\ n \in FdRange /\ n # 0 /\ \A d \in Clients : fdOf[d] # n
        BY <1>1, <1>4, <1>5
  <1>7. PICK ev : ev = arrived(c) \cup Raised(c, f)
        OBVIOUS
  <1>8. ev \in SUBSET {"IN", "HUP"} /\ ("HUP" \in ev => fin'[c] # "")
    <2>1. "HUP" \in arrived(c) => fin'[c] # ""
          BY <1>b DEF FinGrows
    <2>2. arrived(c) \in SUBSET {"IN", "HUP"}
          OBVIOUS
    <2> HIDE DEF arrived
    <2>3. QED
          BY <1>7, <1>b, <2>1, <2>2
  <1>9. edge' = [edge EXCEPT ![c] = ev]
        BY <1>a, <1>7
  <1> HIDE DEF arrived
  <1>10. EdgeTypes'
         BY <1>1, <1>2, <1>6, <1>8, <1>9, <1>b DEF EdgeInv, EdgeTypes, FdRange, FinGrows
  <1>11. NumbersOwned'
    <2>1. /\ conn'[c] = "open" /\ fdOf'[c] = n
          /\ \A d \in Clients \ {c} : conn'[d] = conn[d] /\ fdOf'[d] = fdOf[d]
          BY <1>1, <1>6 DEF EdgeInv, EdgeTypes
    <2>2. QED
          BY <2>1, <1>6 DEF EdgeInv, NumbersOwned
  <1>12. EdgesTrue'
         BY <1>1, <1>8, <1>9, <1>b DEF EdgeInv, EdgeTypes, EdgesTrue, FinGrows
  <1>13. BatchTrue'
    <2>1. \A d \in Clients : conn[d] = "open" => conn'[d] = "open" /\ fdOf'[d] = fdOf[d]
          BY <1>1, <1>6 DEF EdgeInv, EdgeTypes
    <2>2. batch' \subseteq batch
          BY <1>1
    <2>3. QED
          BY <1>2, <1>b, <2>1, <2>2 DEF EdgeInv, BatchTrue, FinGrows
  <1>14. CurTrue'
         BY <1>2 DEF CurTrue, NoEvent
  <1>15. OnlyDeadClosed'
         BY <1>1, <1>2, <1>b DEF EdgeInv, EdgeTypes, OnlyDeadClosed, FinGrows
  <1>16. QED
         BY <1>10, <1>11, <1>12, <1>13, <1>14, <1>15 DEF EdgeInv

LEMMA EventsHaveNumbers ==
  ASSUME EdgeInv PROVE \A e \in batch : e.fd # 0
  <1>1. SUFFICES ASSUME NEW e \in batch, e.fd # Listener PROVE e.fd # 0
        BY DEF Listener
  <1>2. PICK c \in Clients : conn[c] = "open" /\ fdOf[c] = e.fd
        BY <1>1 DEF EdgeInv, BatchTrue
  <1>3. QED
        BY <1>2 DEF EdgeInv, NumbersOwned

(* Closing the number of the event under way, of which the owner is known  *)
(* to have gone, disturbs no other event.                                  *)
LEMMA DisconnectKeeps ==
  ASSUME EdgeInv, handle_client_disconnect(cur.fd), batch' = batch, FinGrows,
         asked' \in [Clients -> BOOLEAN],
         \A c \in Clients : IF c \in Owner(cur.fd) THEN fin[c] # "" \/ asked'[c]
                                                   ELSE asked'[c] = asked[c],
         cur' \in EventRec, cur'.fd \in {cur.fd, 0}
  PROVE  EdgeInv'
  <1> DEFINE Gone == Owner(cur.fd)
  <1>1. /\ conn' = [c \in Clients |-> IF c \in Gone THEN "closed" ELSE conn[c]]
        /\ fdOf' = [c \in Clients |-> IF c \in Gone THEN 0 ELSE fdOf[c]]
        /\ edge' = [c \in Clients |-> IF c \in Gone THEN {} ELSE edge[c]]
        BY DEF handle_client_disconnect
  <1>2. \A c \in Clients : c \in Gone <=> conn[c] = "open" /\ fdOf[c] = cur.fd
        BY DEF Owner
  <1> HIDE DEF Gone
  <1>3. EdgeTypes'
        BY <1>1 DEF EdgeInv, EdgeTypes, FdRange, FinGrows
  <1>4. NumbersOwned'
        BY <1>1 DEF EdgeInv, EdgeTypes, NumbersOwned
  <1>5. EdgesTrue'
        BY <1>1 DEF EdgeInv, EdgeTypes, EdgesTrue, FinGrows
  <1>6. BatchTrue'
    <2>1. \A e \in batch : e.fd # cur.fd /\ e.fd # 0
      <3>1. ASSUME NEW e \in batch PROVE e.fd # 0
            BY EventsHaveNumbers
      <3>2. QED
            BY <3>1 DEF EdgeInv, BatchTrue
    <2>2. \A c \in Clients : fdOf[c] # cur.fd => conn'[c] = conn[c] /\ fdOf'[c] = fdOf[c]
          BY <1>1, <1>2
    <2>3. ASSUME NEW e \in batch, e.fd # Listener
          PROVE  \E c \in Clients : conn'[c] = "open" /\ fdOf'[c] = e.fd /\ ("HUP" \in e.ev => fin'[c] # "")
      <3>1. PICK c \in Clients : conn[c] = "open" /\ fdOf[c] = e.fd /\ ("HUP" \in e.ev => fin[c] # "")
            BY <2>3 DEF EdgeInv, BatchTrue
      <3>2. conn'[c] = conn[c] /\ fdOf'[c] = fdOf[c]
            BY <3>1, <2>1, <2>2
      <3>3. QED
            BY <3>1, <3>2 DEF FinGrows
    <2>4. /\ \A e, f \in batch : e.fd = f.fd => e = f
          /\ \A e \in batch : e.fd # cur'.fd
          BY <2>1 DEF EdgeInv, BatchTrue
    <2>5. QED
          BY <2>3, <2>4 DEF BatchTrue
  <1>7. CurTrue'
    <2>1. \A c \in Clients : ~ (conn'[c] = "open" /\ fdOf'[c] = cur.fd)
          BY <1>1, <1>2
    <2>2. \A c \in Clients : ~ (conn'[c] = "open" /\ fdOf'[c] = 0)
          BY <1>4 DEF NumbersOwned
    <2>3. QED
          BY <2>1, <2>2 DEF CurTrue, Owner
  <1>8. OnlyDeadClosed'
        BY <1>1 DEF EdgeInv, OnlyDeadClosed, Gone, FinGrows
  <1>9. QED
        BY <1>3, <1>4, <1>5, <1>6, <1>7, <1>8 DEF EdgeInv

(* A step of the handler that closes nothing.                              *)
LEMMA HandlerKeeps ==
  ASSUME EdgeInv, conn' = conn, fdOf' = fdOf, batch' = batch, FinGrows,
         edge' \in [Clients -> SUBSET {"IN", "HUP"}], EdgesTrue',
         asked' \in [Clients -> BOOLEAN],
         \A c \in Clients : conn[c] # "open" => asked'[c] = asked[c],
         cur' \in EventRec,
         (cur'.fd = cur.fd /\ cur'.ev = cur.ev) \/ cur' = NoEvent
  PROVE  EdgeInv'
  <1>1. EdgeTypes'
        BY DEF EdgeInv, EdgeTypes, FdRange, FinGrows
  <1>2. BatchTrue'
    <2>1. \A e \in batch : e.fd # cur.fd /\ e.fd # 0
          BY EventsHaveNumbers DEF EdgeInv, BatchTrue
    <2>2. cur'.fd = cur.fd \/ cur'.fd = 0
          BY DEF NoEvent
    <2>3. \A e \in batch : e.fd # cur'.fd
          BY <2>1, <2>2
    <2>4. QED
          BY <2>3 DEF EdgeInv, BatchTrue, FinGrows
  <1>3. CurTrue'
    <2>1. CASE cur' = NoEvent
          BY <2>1 DEF CurTrue, NoEvent
    <2>2. CASE cur'.fd = cur.fd /\ cur'.ev = cur.ev
      <3>1. Owner(cur.fd)' = {c \in Clients : conn[c] = "open" /\ fdOf[c] = cur.fd}
            BY <2>2 DEF Owner
      <3>2. Owner(cur.fd)' = Owner(cur.fd)
            BY <3>1 DEF Owner
      <3>3. QED
            BY <2>2, <3>2 DEF EdgeInv, CurTrue, FinGrows, Owner
    <2>3. QED
          BY <2>1, <2>2
  <1>4. OnlyDeadClosed'
        BY DEF EdgeInv, OnlyDeadClosed, FinGrows
  <1>5. QED
        BY <1>1, <1>2, <1>3, <1>4 DEF EdgeInv, NumbersOwned

(* Where nothing is sent, nothing about the ends changes.                  *)
LEMMA Unsent ==
  ASSUME EdgeInv, fin' = fin
  PROVE  FinGrows /\ (conn' = conn /\ edge' = edge =>
                        edge' \in [Clients -> SUBSET {"IN", "HUP"}] /\ EdgesTrue')
  BY DEF EdgeInv, EdgeTypes, FinGrows, EdgesTrue

LEMMA RecvSomeKeeps ==
  ASSUME EdgeInv, RecvSome PROVE EdgeInv'
  <1> DEFINE n(c) == IF Len(upstream[c]) > Buffer THEN Buffer ELSE Len(upstream[c])
             quits(c) == "q" \in Range(SubSeq(upstream[c], 1, n(c)))
  <1>1. PICK c \in Owner(cur.fd) : \E f \in AfterSend(fin[c]) :
          /\ asked' = [asked EXCEPT ![c] = quits(c)]
          /\ Sends(c, "echo", f)
          /\ IF quits(c) THEN handle_client_disconnect(cur.fd) /\ cur' = [cur EXCEPT !.data = FALSE]
                         ELSE /\ edge' = [edge EXCEPT ![c] = @ \cup Raised(c, f)]
                              /\ UNCHANGED <<conn, fdOf, cur>>
        BY Zenon DEF RecvSome
  <1>a. PICK f \in AfterSend(fin[c]) :
          /\ asked' = [asked EXCEPT ![c] = quits(c)]
          /\ Sends(c, "echo", f)
          /\ IF quits(c) THEN handle_client_disconnect(cur.fd) /\ cur' = [cur EXCEPT !.data = FALSE]
                         ELSE /\ edge' = [edge EXCEPT ![c] = @ \cup Raised(c, f)]
                              /\ UNCHANGED <<conn, fdOf, cur>>
        BY <1>1, Zenon
  <1> DEFINE q == quits(c)
  <1>2. /\ asked' = [asked EXCEPT ![c] = q]
        /\ fin' = [fin EXCEPT ![c] = f]
        /\ IF q THEN handle_client_disconnect(cur.fd) /\ cur' = [cur EXCEPT !.data = FALSE]
                ELSE /\ edge' = [edge EXCEPT ![c] = @ \cup Raised(c, f)]
                     /\ UNCHANGED <<conn, fdOf, cur>>
        BY <1>a, Zenon DEF Sends
  <1>q. q \in BOOLEAN
        OBVIOUS
  <1> HIDE DEF q, quits
  <1>3. batch' = batch
        BY DEF RecvSome
  <1>4. c \in Clients /\ conn[c] = "open" /\ fdOf[c] = cur.fd
        BY <1>1 DEF Owner
  <1>b. /\ FinGrows
        /\ Raised(c, f) \in SUBSET {"IN", "HUP"}
        /\ "HUP" \in Raised(c, f) => fin'[c] # ""
        BY <1>2, <1>4, SendGrows DEF EdgeInv
  <1>5. \A d \in Clients : d \in Owner(cur.fd) => d = c
        BY <1>4 DEF Owner, EdgeInv, NumbersOwned
  <1>6. asked' \in [Clients -> BOOLEAN] /\ cur \in EventRec
        BY <1>q, <1>2 DEF EdgeInv, EdgeTypes
  <1>7. asked'[c] = q /\ \A d \in Clients : d # c => asked'[d] = asked[d]
        BY <1>2, <1>4 DEF EdgeInv, EdgeTypes
  <1>8. [cur EXCEPT !.data = FALSE] \in EventRec /\ [cur EXCEPT !.data = FALSE].fd = cur.fd
        BY <1>6 DEF EventRec
  <1>9. CASE q
        BY <1>9, <1>1, <1>2, <1>3, <1>5, <1>6, <1>7, <1>8, <1>b, DisconnectKeeps
  <1>10. CASE ~q
    <2>1. edge' \in [Clients -> SUBSET {"IN", "HUP"}] /\ EdgesTrue'
      <3>1. edge \in [Clients -> SUBSET {"IN", "HUP"}] /\ conn' = conn
            BY <1>10, <1>2 DEF EdgeInv, EdgeTypes
      <3>2. PICK ev : ev = edge[c] \cup Raised(c, f)
            OBVIOUS
      <3>3. edge' = [edge EXCEPT ![c] = ev] /\ ev \in SUBSET {"IN", "HUP"}
            BY <3>1, <3>2, <1>10, <1>2, <1>4, <1>b
      <3>4. "HUP" \in ev => fin'[c] # ""
            BY <3>2, <1>4, <1>b DEF EdgeInv, EdgesTrue, FinGrows
      <3>5. EdgesTrue'
            BY <3>1, <3>3, <3>4, <1>4, <1>b DEF EdgeInv, EdgesTrue, FinGrows
      <3>6. QED
            BY <3>1, <3>3, <3>5
    <2>2. QED
          BY <2>1, <1>10, <1>2, <1>3, <1>4, <1>6, <1>7, <1>b, HandlerKeeps
  <1>11. QED
         BY <1>2, <1>9, <1>10

(* Neither a failed accept nor the signal touches a connection.            *)
LEMMA FailsKeeps ==
  ASSUME EdgeInv, AcceptFails \/ EchoKills PROVE EdgeInv'
  <1>1. /\ UNCHANGED <<conn, fdOf, fin, asked, edge, cur>>
        /\ batch' \subseteq batch
        BY DEF AcceptFails, EchoKills, sockVars
  <1>2. EdgeTypes'
        BY <1>1 DEF EdgeInv, EdgeTypes, FdRange
  <1>3. BatchTrue'
        BY <1>1 DEF EdgeInv, BatchTrue
  <1>4. QED
        BY <1>1, <1>2, <1>3 DEF EdgeInv, NumbersOwned, EdgesTrue, CurTrue, OnlyDeadClosed, Owner

LEMMA RecvEndsKeeps ==
  ASSUME EdgeInv, RecvEnds PROVE EdgeInv'
  <1>1. /\ cur' = [cur EXCEPT !.data = FALSE]
        /\ fin' = fin /\ batch' = batch /\ asked' = asked
        BY DEF RecvEnds
  <1>2. asked \in [Clients -> BOOLEAN] /\ cur \in EventRec
        BY DEF EdgeInv, EdgeTypes
  <1>3. cur' \in EventRec /\ cur'.fd = cur.fd /\ cur'.ev = cur.ev
        BY <1>1, <1>2 DEF EventRec
  <1>4. CASE UNCHANGED <<conn, fdOf, edge>>
        BY <1>4, <1>1, <1>2, <1>3, Unsent, HandlerKeeps
  <1>5. CASE /\ \A c \in Owner(cur.fd) : fin[c] \in {"rst", "pipe"} \/ (fin[c] = "fin" /\ upstream[c] = <<>>)
             /\ handle_client_disconnect(cur.fd)
    <2>1. \A c \in Owner(cur.fd) : fin[c] # ""
          BY <1>5
    <2>2. QED
          BY <2>1, <1>5, <1>1, <1>2, <1>3, Unsent, DisconnectKeeps
  <1>6. QED
        BY <1>4, <1>5 DEF RecvEnds

LEMMA HandleHupKeeps ==
  ASSUME EdgeInv, HandleHup PROVE EdgeInv'
  <1>1. cur' = NoEvent /\ fin' = fin /\ batch' = batch /\ asked' = asked
        BY DEF HandleHup
  <1>2. asked \in [Clients -> BOOLEAN] /\ NoEvent \in EventRec /\ NoEvent.fd = 0
        BY DEF EdgeInv, EdgeTypes, NoEvent, EventRec
  <1>3. CASE "HUP" \in cur.ev /\ handle_client_disconnect(cur.fd)
    <2>1. \A c \in Owner(cur.fd) : fin[c] # ""
          BY <1>3 DEF EdgeInv, CurTrue
    <2>2. QED
          BY <2>1, <1>3, <1>1, <1>2, Unsent, DisconnectKeeps
  <1>4. CASE UNCHANGED <<conn, fdOf, edge>>
        BY <1>4, <1>1, <1>2, Unsent, HandlerKeeps
  <1>5. QED
        BY <1>3, <1>4 DEF HandleHup

(* The clients touch the server's state through the kernel only: the       *)
(* connection request, the end of a connection and the events.             *)
LEMMA ClientKeeps ==
  ASSUME EdgeInv, UNCHANGED <<fdOf, asked, batch, cur>>, NEW c \in Clients,
         \/ conn' = conn
         \/ conn[c] = "none" /\ conn' = [conn EXCEPT ![c] = "backlog"],
         \/ fin' = fin
         \/ \E how \in {"fin", "rst"} : fin' = [fin EXCEPT ![c] = how],
         \/ edge' = edge
         \/ \E ev \in SUBSET {"IN", "HUP"} :
              /\ conn' = conn /\ Raise(c, ev) /\ ("HUP" \in ev => fin'[c] # "")
  PROVE  EdgeInv'
  <1>1. /\ conn' \in [Clients -> {"none", "backlog", "open", "closed"}]
        /\ \A d \in Clients : (conn'[d] = "open" <=> conn[d] = "open") /\ (conn'[d] = "closed" <=> conn[d] = "closed")
        BY DEF EdgeInv, EdgeTypes
  <1>2. /\ fin' \in [Clients -> ClosedHow]
        /\ \A d \in Clients : fin[d] # "" => fin'[d] # ""
        BY DEF EdgeInv, EdgeTypes, ClosedHow
  <1>3. /\ edge' \in [Clients -> SUBSET {"IN", "HUP"}]
        /\ EdgesTrue'
    <2>1. CASE edge' = edge
          BY <2>1, <1>1, <1>2 DEF EdgeInv, EdgeTypes, EdgesTrue
    <2>2. CASE \E ev \in SUBSET {"IN", "HUP"} :
              /\ conn' = conn /\ Raise(c, ev) /\ ("HUP" \in ev => fin'[c] # "")
      <3>1. PICK ev \in SUBSET {"IN", "HUP"} :
              conn' = conn /\ Raise(c, ev) /\ ("HUP" \in ev => fin'[c] # "")
            BY <2>2
      <3>2. /\ edge'[c] = IF conn[c] = "open" THEN edge[c] \cup ev ELSE edge[c]
            /\ \A d \in Clients \ {c} : edge'[d] = edge[d]
            /\ edge' \in [Clients -> SUBSET {"IN", "HUP"}]
            BY <3>1 DEF EdgeInv, EdgeTypes, Raise
      <3>3. QED
            BY <3>1, <3>2, <1>2 DEF EdgeInv, EdgesTrue
    <2>3. QED
          BY <2>1, <2>2
  <1>4. EdgeTypes'
        BY <1>1, <1>2, <1>3 DEF EdgeInv, EdgeTypes, FdRange
  <1>5. NumbersOwned' /\ OnlyDeadClosed'
        BY <1>1, <1>2 DEF EdgeInv, NumbersOwned, OnlyDeadClosed
  <1>6. BatchTrue'
    <2>1. ASSUME NEW e \in batch, e.fd # Listener
          PROVE  \E d \in Clients : conn'[d] = "open" /\ fdOf[d] = e.fd /\ ("HUP" \in e.ev => fin'[d] # "")
          BY <2>1, <1>1, <1>2 DEF EdgeInv, BatchTrue
    <2>2. /\ \A e, f \in batch : e.fd = f.fd => e = f
          /\ \A e \in batch : e.fd # cur.fd
          BY DEF EdgeInv, BatchTrue
    <2>3. QED
          BY <2>1, <2>2 DEF BatchTrue
  <1>7. CurTrue'
        BY <1>1, <1>2 DEF EdgeInv, CurTrue, Owner
  <1>8. QED
        BY <1>3, <1>4, <1>5, <1>6, <1>7 DEF EdgeInv

LEMMA CloseSocketIs ==
  ASSUME EdgeTypes, NEW c \in Clients, CloseSocket(c)
  PROVE  /\ \E how \in {"fin", "rst"} : fin' = [fin EXCEPT ![c] = how]
         /\ \E ev \in SUBSET {"IN", "HUP"} : Raise(c, ev) /\ ("HUP" \in ev => fin'[c] # "")
  BY DEF CloseSocket, EdgeTypes

LEMMA EdgeStepKeeps ==
  ASSUME EdgeInv, [EdgeNext]_edgeVars PROVE EdgeInv'
  <1> USE DEF sockVars, serverVars
  <1>1. CASE ServerNext /\ UNCHANGED clientVars
        BY <1>1, WaitKeeps, DispatchKeeps, AcceptKeeps, FailsKeeps, RecvSomeKeeps, RecvEndsKeeps,
           HandleHupKeeps
           DEF ServerNext
  <1>2. ASSUME NEW c \in Clients, UserStep(c) \/ InputStep(c) \/ NetStep(c) PROVE EdgeInv'
    <2>1. CASE connect_to_server(c)
          BY <2>1, ClientKeeps DEF connect_to_server
    <2>2. CASE InputStops(c)
          BY <2>2, ClientKeeps DEF InputStops
    <2>3. CASE InputSends(c)
      <3>1. UNCHANGED <<fdOf, asked, batch, cur>>
            BY <2>3 DEF InputSends
      <3>2. CASE Raise(c, {"IN"}) /\ UNCHANGED <<conn, fin>>
        <4>1. {"IN"} \in SUBSET {"IN", "HUP"} /\ "HUP" \notin {"IN"}
              OBVIOUS
        <4>2. \E ev \in SUBSET {"IN", "HUP"} :
                conn' = conn /\ Raise(c, ev) /\ ("HUP" \in ev => fin'[c] # "")
              BY <4>1, <3>2, Zenon
        <4>3. QED
              BY <4>2, <3>1, <3>2, ClientKeeps
      <3>3. CASE UNCHANGED <<conn, upstream, downstream, fin, edge>>
            BY <3>1, <3>3, ClientKeeps
      <3>4. CASE CloseSocket(c) /\ conn' = conn
            BY <3>1, <3>4, ClientKeeps, CloseSocketIs DEF EdgeInv
      <3>5. QED
            BY <2>3, <3>2, <3>3, <3>4 DEF InputSends
    <2>4. CASE InputCheck(c)
          BY <2>4, ClientKeeps DEF InputCheck
    <2>5. CASE JoinAndClose(c)
          BY <2>5, ClientKeeps, CloseSocketIs DEF JoinAndClose, EdgeInv
    <2>6. CASE NetTimeout(c)
          BY <2>6, ClientKeeps DEF NetTimeout
    <2>7. CASE handle_server_data(c)
          BY <2>7, ClientKeeps DEF handle_server_data
    <2>8. QED
          BY <1>2, <2>1, <2>2, <2>3, <2>4, <2>5, <2>6, <2>7 DEF UserStep, InputStep, NetStep
  <1>3. CASE UNCHANGED edgeVars
        BY <1>3 DEF edgeVars, EdgeInv, EdgeTypes, NumbersOwned, EdgesTrue, BatchTrue, CurTrue,
                    OnlyDeadClosed, Owner, FdRange
  <1>4. QED
        BY <1>1, <1>2, <1>3 DEF EdgeNext

(* The server of epoll_server.cpp closes a connection only after its        *)
(* client has closed it or has sent quit, for any number of clients,       *)
(* although handle_client_disconnect goes by a descriptor number that may  *)
(* be free by then, and accept gives free numbers to new connections.      *)
THEOREM ServerClosesOnlyTheDead == EdgeInit /\ [][EdgeNext]_edgeVars => []OnlyDeadClosed
  <1>1. EdgeInit => EdgeInv
        BY EdgeInitially
  <1>2. EdgeInv /\ [EdgeNext]_edgeVars => EdgeInv'
        BY EdgeStepKeeps
  <1>3. EdgeInv => OnlyDeadClosed
        BY DEF EdgeInv
  <1>4. QED
        BY <1>1, <1>2, <1>3, PTL

-----------------------------------------------------------------------------
(* The timer with a thread.  A thread that has called the function since   *)
(* stop is at a place from which it reaches a test of m_active before the  *)
(* next call.                                                              *)
Calling == {"call", "sleep1", "again"}

TimerInv ==
  /\ at \in [Runs -> {"none", "begin", "while", "sleep", "call", "repeat", "sleep1",
                      "between", "again", "count", "ended"}]
  /\ since \in [Runs -> Nat]
  /\ m_active \in BOOLEAN
  /\ ~m_active => \A t \in Runs : since[t] = 0 \/ (since[t] = 1 /\ at[t] \notin Calling)

LEMMA TimerStepKeeps ==
  ASSUME TimerInv, [TimerNext]_timerVars PROVE TimerInv'
  <1> USE DEF TimerInv, Goto, Calling
  <1>1. CASE start
        BY <1>1 DEF start
  <1>2. CASE stop
        BY <1>2 DEF stop
  <1>3. ASSUME NEW t \in Runs,
               Begin(t) \/ While(t) \/ Sleep(t) \/ Repeat(t) \/ Between(t) \/ Count(t)
        PROVE  TimerInv'
        BY <1>3 DEF Begin, While, Sleep, Repeat, Between, Count
  <1>4. ASSUME NEW t \in Runs, Call(t) \/ CallFirst(t) \/ CallAgain(t)
        PROVE  TimerInv'
    <2>1. /\ m_active' = m_active /\ at[t] \in Calling
          /\ \E l \in {"while", "between", "count"} : at' = [at EXCEPT ![t] = l]
          /\ since' = [since EXCEPT ![t] = IF m_active THEN 0 ELSE @ + 1]
          BY <1>4 DEF Call, CallFirst, CallAgain, m_func
    <2>2. QED
          BY <2>1
  <1>5. CASE UNCHANGED timerVars
        BY <1>5 DEF timerVars
  <1>6. QED
        BY <1>1, <1>2, <1>3, <1>4, <1>5 DEF TimerNext

(* After stop each of the threads that start has launched calls m_func at  *)
(* most once more, for any number of starts and threads still alive, and   *)
(* whatever they make of m_repeat, which they share without a lock.        *)
THEOREM OneCallAfterStop == TimerInit /\ [][TimerNext]_timerVars => []CallsAfterStop
  <1>1. ASSUME TimerInit PROVE TimerInv
    <2>1. at = [t \in Runs |-> "none"] /\ since = [t \in Runs |-> 0] /\ m_active = FALSE
          BY <1>1 DEF TimerInit
    <2>2. QED
          BY <2>1 DEF TimerInv
  <1>2. TimerInv /\ [TimerNext]_timerVars => TimerInv'
        BY TimerStepKeeps
  <1>3. TimerInv => CallsAfterStop
        BY DEF TimerInv, CallsAfterStop
  <1>4. QED
        BY <1>1, <1>2, <1>3, PTL

-----------------------------------------------------------------------------
(* The HTTP server.                                                        *)
Ends == {"sock", "outr", "outw", "inr", "inw"}

(* The descriptors of the connection c that the server process holds.      *)
Mine(c) == {e \in Ends : <<c, e>> \in open[Server]}

Places == {"idle", "queued", "start", "lost", "pipes", "fork", "parent", "feed",
            "relay", "reap", "close", "done"}

HttpTypes ==
  /\ open \in [Procs -> SUBSET (Conn \X Ends)]
  /\ pc \in [Conn -> Places]
  /\ req \in [Conn -> Requests \cup {NoReq}]
  /\ status \in [Conn -> Seq(Nat)]
  /\ child \in [Conn -> {"none", "setup", "run", "gone"}]
  /\ left \in [Conn -> Int] /\ inq \in [Conn -> Nat] /\ outq \in [Conn -> Int]
  /\ got \in [Conn -> Int] /\ toRead \in [Conn -> Int] /\ toWrite \in [Conn -> Int]
  /\ gone \in [Conn -> BOOLEAN] /\ up \in BOOLEAN

(* A CGI process keeps the ends of the pipes that it uses until it exits.  *)
ChildHolds(c) == child[c] \in {"setup", "run"} => inr(c) \in open[c] /\ outw(c) \in open[c]

Posts(r) == r.method = "POST"
Extra(r) == IF r.prog = "echo" /\ Posts(r) THEN r.len ELSE 0

(* Before the fork there is no process and no answer.                      *)
Before(c) ==
  pc[c] \in {"idle", "queued", "start", "lost", "pipes", "fork"} =>
    status[c] = <<>> /\ child[c] = "none" /\ got[c] = 0 /\ inq[c] = 0 /\ outq[c] = 0

(* The requests that get as far as the pipes.                              *)
CgiRequest(c) ==
  pc[c] \in {"pipes", "fork", "parent", "feed", "relay", "reap"} =>
    req[c].target # "missing" /\ (Posts(req[c]) => req[c].len # -1) /\ IsCgi(req[c])

(* The child has ended of its own status line, for the client has left.    *)
Silent(c) ==
  /\ child[c] = "gone" /\ gone[c] /\ got[c] = 0 /\ outq[c] = 0
  /\ status[c] = IF pc[c] = "parent" THEN <<>> ELSE <<200>>

(* Otherwise both processes send one; the parent waits for the child.      *)
During(c) ==
  pc[c] \in {"parent", "feed", "relay", "reap"} =>
    /\ child[c] # "none"
    /\ child[c] = "setup" => got[c] = 0 /\ outq[c] = 0
    /\ pc[c] = "reap" => child[c] = "gone"
    /\ \/ Silent(c)
       \/ status[c] = IF pc[c] = "parent" THEN IF child[c] = "setup" THEN <<>> ELSE <<200>>
                                          ELSE IF child[c] = "setup" THEN <<200>> ELSE <<200, 200>>

(* The input: as long as the server has a part of the body to pass on, a   *)
(* program that reads it has not read it all, and none has seen its end.   *)
ToFeed(c) == IF pc[c] = "parent" THEN IF Posts(req[c]) THEN req[c].len ELSE 0 ELSE left[c]
ToTake(c) == CASE child[c] = "setup" -> req[c].len [] child[c] = "run" -> toRead[c] [] OTHER -> 0

Input(c) ==
  /\ child[c] = "run" /\ ~Posts(req[c]) /\ req[c].prog \in {"drain", "echo"} => toRead[c] = 0
  /\ pc[c] \in {"parent", "feed"} =>
       /\ pc[c] = "feed" => left[c] <= IF Posts(req[c]) THEN req[c].len ELSE 0
       /\ req[c].target = "exec" /\ Posts(req[c]) /\ req[c].prog \in {"drain", "echo"} =>
            Silent(c) \/ ToFeed(c) + inq[c] = ToTake(c)
       /\ req[c].target = "exec" /\ req[c].prog = "eof" =>
            Silent(c) \/ (child[c] # "gone" /\ (child[c] = "run" => toRead[c] = 1))

(* The output: what the program has yet to write, what is in the pipe and  *)
(* what the client has got make up the answer.                             *)
ToWrite(c) ==
  CASE child[c] = "setup" -> OutLen + Extra(req[c])
    [] child[c] = "run" -> toWrite[c] + (IF req[c].prog = "echo" /\ Posts(req[c]) THEN toRead[c] ELSE 0)
    [] OTHER -> 0

Output(c) ==
  pc[c] \in {"parent", "feed", "relay", "reap"} /\ req[c].target = "exec" =>
    /\ Silent(c) \/ got[c] + outq[c] + ToWrite(c) = OutLen + Extra(req[c])
    /\ pc[c] = "reap" => outq[c] = 0

(* How a handler comes to its end.                                         *)
After(c) ==
  pc[c] \in {"close", "done"} =>
    \/ child[c] = "none" /\ status[c] \in {<<404>>, <<400>>, <<500>>, <<501>>}
    \/ child[c] = "none" /\ status[c] = <<200>> /\ got[c] = cat(req[c]) /\ ~IsCgi(req[c])
    \/ /\ child[c] = "gone" /\ status[c] = <<200, 200>>
       /\ req[c].target = "exec" => got[c] = OutLen + Extra(req[c])
    \/ child[c] = "gone" /\ status[c] = <<200>> /\ IsCgi(req[c]) /\ gone[c] /\ got[c] = 0

Descriptors(c) ==
  /\ pc[c] \in {"idle", "queued"} => Mine(c) = {}
  /\ pc[c] \in {"start", "lost", "pipes", "reap"} => Mine(c) = {"sock"}
  /\ pc[c] \in {"fork", "parent"} => Mine(c) = Ends
  /\ pc[c] \in {"feed", "relay"} => Mine(c) = {"sock", "outr", "inw"}
  /\ pc[c] = "close" => /\ status[c] # <<501>>
                        /\ status[c] # <<500>> => Mine(c) = {"sock"}
  /\ pc[c] = "done" => CASE status[c] = <<501>> -> Mine(c) = {"sock"}
                         [] status[c] = <<500>> -> "sock" \notin Mine(c)
                         [] OTHER -> Mine(c) = {}

ConnInv(c) ==
  Before(c) /\ CgiRequest(c) /\ During(c) /\ Input(c) /\ Output(c) /\ After(c) /\ Descriptors(c)

HttpInv ==
  /\ HttpTypes
  /\ \A c \in Conn : ChildHolds(c)
  /\ \A c \in Conn : pc[c] = "idle" => req[c] = NoReq
  /\ up => \A c \in Conn : ConnInv(c)

(* A step on behalf of the connection c leaves the others alone.           *)
Same(d) ==
  /\ pc'[d] = pc[d] /\ req'[d] = req[d] /\ status'[d] = status[d] /\ child'[d] = child[d]
  /\ left'[d] = left[d] /\ inq'[d] = inq[d] /\ outq'[d] = outq[d] /\ got'[d] = got[d]
  /\ toRead'[d] = toRead[d] /\ toWrite'[d] = toWrite[d]
OthersSame(c) ==
  \A d \in Conn \ {c} : Same(d) /\ open'[d] = open[d] /\ gone'[d] = gone[d]

LEMMA SameKeeps ==
  ASSUME NEW d \in Conn, ConnInv(d), Same(d), gone[d] => gone'[d], Mine(d)' = Mine(d)
  PROVE  ConnInv(d)'
  <1>s. Silent(d) => Silent(d)'
        BY DEF Same, Silent
  <1>1. Before(d)' /\ CgiRequest(d)' /\ During(d)'
        BY <1>s DEF Same, ConnInv, Before, CgiRequest, During
  <1>2. Input(d)'
        BY <1>s DEF Same, ConnInv, Input, ToFeed, ToTake
  <1>3. Output(d)'
        BY <1>s DEF Same, ConnInv, Output, ToWrite
  <1>4. After(d)'
        BY DEF Same, ConnInv, After
  <1>5. Descriptors(d)'
        BY DEF Same, ConnInv, Descriptors
  <1>6. QED
        BY <1>1, <1>2, <1>3, <1>4, <1>5 DEF ConnInv

LEMMA StepOf ==
  ASSUME HttpInv, NEW c \in Conn, HttpTypes', OthersSame(c), ChildHolds(c)',
         pc'[c] # "idle",
         up' => up /\ ConnInv(c)' /\ \A d \in Conn \ {c} : Mine(d)' = Mine(d)
  PROVE  HttpInv'
  <1>1. ASSUME NEW d \in Conn PROVE ChildHolds(d)'
    <2>1. CASE d = c
          BY <2>1
    <2>2. CASE d # c
          BY <2>2 DEF HttpInv, OthersSame, Same, ChildHolds, inr, outw
    <2>3. QED
          BY <2>1, <2>2
  <1>2. ASSUME NEW d \in Conn, pc'[d] = "idle" PROVE req'[d] = NoReq
        BY <1>2 DEF HttpInv, OthersSame, Same
  <1>3. ASSUME up', NEW d \in Conn PROVE ConnInv(d)'
    <2>1. CASE d = c
          BY <1>3, <2>1
    <2>2. CASE d # c
          BY <1>3, <2>2, SameKeeps DEF HttpInv, OthersSame
    <2>3. QED
          BY <2>1, <2>2
  <1>4. QED
        BY <1>1, <1>2, <1>3 DEF HttpInv

(* The server opens or closes descriptors of one connection.               *)
LEMMA MineChanges ==
  ASSUME HttpTypes, NEW c \in Conn, NEW A \in SUBSET Ends, NEW B \in SUBSET Ends,
         open'[Server] = (open[Server] \cup ({c} \X A)) \ ({c} \X B)
  PROVE  /\ Mine(c)' = (Mine(c) \cup A) \ B
         /\ \A d \in Conn \ {c} : Mine(d)' = Mine(d)
  <1>1. ASSUME NEW d \in Conn, NEW e \in Ends
        PROVE  /\ <<d, e>> \in {c} \X A <=> d = c /\ e \in A
               /\ <<d, e>> \in {c} \X B <=> d = c /\ e \in B
        OBVIOUS
  <1>2. ASSUME NEW d \in Conn, NEW e \in Ends
        PROVE  <<d, e>> \in open'[Server] <=>
                 (<<d, e>> \in open[Server] \/ (d = c /\ e \in A)) /\ ~(d = c /\ e \in B)
        BY <1>1
  <1>3. Mine(c)' = (Mine(c) \cup A) \ B
        BY <1>2 DEF Mine
  <1>4. ASSUME NEW d \in Conn \ {c} PROVE Mine(d)' = Mine(d)
        BY <1>2 DEF Mine
  <1>5. QED
        BY <1>3, <1>4

LEMMA MineKept ==
  ASSUME open'[Server] = open[Server]
  PROVE  \A d \in Conn : Mine(d)' = Mine(d)
  BY DEF Mine

LEMMA ServerIsProc == Server \in Procs /\ \A c \in Conn : c \in Procs /\ c # Server
  BY HttpAssumption DEF Procs

(* What a change of open means, process by process.                        *)
LEMMA OpenServer ==
  ASSUME HttpTypes, NEW S \in SUBSET (Conn \X Ends), open' = [open EXCEPT ![Server] = S]
  PROVE  /\ open' \in [Procs -> SUBSET (Conn \X Ends)]
         /\ open'[Server] = S
         /\ \A d \in Conn : open'[d] = open[d]
  BY ServerIsProc DEF HttpTypes

LEMMA OpenTypes ==
  ASSUME HttpTypes
  PROVE  /\ open[Server] \in SUBSET (Conn \X Ends)
         /\ \A c \in Conn : open[c] \in SUBSET (Conn \X Ends)
  BY ServerIsProc DEF HttpTypes

LEMMA ServerOpens ==
  ASSUME HttpTypes, NEW c \in Conn, NEW A \in SUBSET Ends,
         open' = [open EXCEPT ![Server] = open[Server] \cup ({c} \X A)]
  PROVE  /\ open' \in [Procs -> SUBSET (Conn \X Ends)]
         /\ \A d \in Conn : open'[d] = open[d]
         /\ Mine(c)' = Mine(c) \cup A
         /\ \A d \in Conn \ {c} : Mine(d)' = Mine(d)
  <1> DEFINE S == open[Server] \cup ({c} \X A)
             B == {}
  <1>1. S \in SUBSET (Conn \X Ends)
        BY OpenTypes
  <1>2. S = S \ ({c} \X B) /\ B \in SUBSET Ends
        OBVIOUS
  <1>3. open' = [open EXCEPT ![Server] = S]
        OBVIOUS
  <1>4. /\ open' \in [Procs -> SUBSET (Conn \X Ends)] /\ open'[Server] = S
        /\ \A d \in Conn : open'[d] = open[d]
    <2> HIDE DEF S
    <2>1. QED
          BY <1>1, <1>3, OpenServer
  <1>5. open'[Server] = (open[Server] \cup ({c} \X A)) \ ({c} \X B)
        BY <1>2, <1>4
  <1>6. Mine(c)' = (Mine(c) \cup A) \ B /\ \A d \in Conn \ {c} : Mine(d)' = Mine(d)
    <2> HIDE DEF B
    <2>1. QED
          BY <1>2, <1>5, MineChanges
  <1>7. QED
        BY <1>4, <1>6

LEMMA ServerCloses ==
  ASSUME HttpTypes, NEW c \in Conn, NEW B \in SUBSET Ends,
         open' = [open EXCEPT ![Server] = open[Server] \ ({c} \X B)]
  PROVE  /\ open' \in [Procs -> SUBSET (Conn \X Ends)]
         /\ \A d \in Conn : open'[d] = open[d]
         /\ Mine(c)' = Mine(c) \ B
         /\ \A d \in Conn \ {c} : Mine(d)' = Mine(d)
  <1> DEFINE S == open[Server] \ ({c} \X B)
             A == {}
  <1>1. S \in SUBSET (Conn \X Ends)
        BY OpenTypes
  <1>2. open[Server] = open[Server] \cup ({c} \X A) /\ A \in SUBSET Ends
        OBVIOUS
  <1>3. open' = [open EXCEPT ![Server] = S]
        OBVIOUS
  <1>4. /\ open' \in [Procs -> SUBSET (Conn \X Ends)] /\ open'[Server] = S
        /\ \A d \in Conn : open'[d] = open[d]
    <2> HIDE DEF S
    <2>1. QED
          BY <1>1, <1>3, OpenServer
  <1>5. open'[Server] = (open[Server] \cup ({c} \X A)) \ ({c} \X B)
        BY <1>2, <1>4
  <1>6. Mine(c)' = (Mine(c) \cup A) \ B /\ \A d \in Conn \ {c} : Mine(d)' = Mine(d)
    <2> HIDE DEF A
    <2>1. QED
          BY <1>2, <1>5, MineChanges
  <1>7. QED
        BY <1>4, <1>6

LEMMA OpenChild ==
  ASSUME HttpTypes, NEW c \in Conn, NEW S \in SUBSET (Conn \X Ends), open' = [open EXCEPT ![c] = S]
  PROVE  /\ open' \in [Procs -> SUBSET (Conn \X Ends)]
         /\ open'[c] = S /\ open'[Server] = open[Server]
         /\ \A d \in Conn \ {c} : open'[d] = open[d]
  BY ServerIsProc DEF HttpTypes

LEMMA DiesIs ==
  ASSUME HttpTypes, Dies
  PROVE  /\ up' = FALSE /\ open' \in [Procs -> SUBSET (Conn \X Ends)]
         /\ \A d \in Conn : open'[d] = open[d]
  <1>1. {} \in SUBSET (Conn \X Ends) /\ open' = [open EXCEPT ![Server] = {}] /\ up' = FALSE
        BY DEF Dies
  <1>2. QED
        BY <1>1, OpenServer

-----------------------------------------------------------------------------
LEMMA HttpInitially == Init => HttpInv
  <1>1. SUFFICES ASSUME Init PROVE HttpInv
        OBVIOUS
  <1>2. HttpTypes
        BY <1>1 DEF Init, HttpTypes, Places
  <1>3. ASSUME NEW c \in Conn PROVE Mine(c) = {}
        BY <1>1, ServerIsProc DEF Init, Mine
  <1>4. ASSUME NEW c \in Conn
        PROVE  /\ pc[c] = "idle" /\ req[c] = NoReq /\ status[c] = <<>> /\ child[c] = "none"
               /\ got[c] = 0 /\ inq[c] = 0 /\ outq[c] = 0
        BY <1>1 DEF Init
  <1>5. ASSUME NEW c \in Conn PROVE ConnInv(c)
        BY <1>3, <1>4 DEF ConnInv, Before, CgiRequest, During, Input, Output, After, Descriptors
  <1>6. up
        BY <1>1 DEF Init
  <1>7. QED
        BY <1>2, <1>4, <1>5, <1>6 DEF HttpInv, ChildHolds

LEMMA ConnectKeeps ==
  ASSUME HttpInv, NEW c \in Conn, Connect(c) PROVE HttpInv'
  <1>1. PICK r \in RequestsOf[c] : req' = [req EXCEPT ![c] = r]
        BY DEF Connect
  <1>2. r \in Requests
        BY HttpAssumption
  <1>3. /\ pc[c] = "idle" /\ pc' = [pc EXCEPT ![c] = "queued"]
        /\ UNCHANGED <<open, status, left, inq, outq, got, child, toRead, toWrite, gone, up>>
        BY DEF Connect
  <1>4. HttpTypes'
        BY <1>1, <1>2, <1>3 DEF HttpInv, HttpTypes, Places
  <1>5. OthersSame(c) /\ pc'[c] = "queued"
        BY <1>1, <1>3 DEF HttpInv, HttpTypes, OthersSame, Same
  <1>7. \A d \in Conn : Mine(d)' = Mine(d)
        BY <1>3, MineKept
  <1>8. ASSUME up PROVE ConnInv(c)'
    <2>1. ConnInv(c)
          BY <1>8 DEF HttpInv
    <2>2. Before(c)' /\ Descriptors(c)'
          BY <2>1, <1>3, <1>5, <1>7 DEF ConnInv, Before, Descriptors
    <2>3. Input(c)'
          BY <2>1, <1>3, <1>5 DEF ConnInv, Before, Input
    <2>4. QED
          BY <2>2, <2>3, <1>5 DEF ConnInv, CgiRequest, During, Output, After
  <1>9. ChildHolds(c)'
        BY <1>3 DEF HttpInv, ChildHolds, inr, outw
  <1>10. QED
         BY <1>3, <1>4, <1>5, <1>7, <1>8, <1>9, StepOf

LEMMA LeavesKeeps ==
  ASSUME HttpInv, NEW c \in Conn, ClientLeaves(c) PROVE HttpInv'
  <1>1. /\ pc[c] # "idle" /\ gone' = [gone EXCEPT ![c] = TRUE]
        /\ UNCHANGED <<open, pc, req, status, left, inq, outq, got, child, toRead, toWrite, up>>
        BY DEF ClientLeaves
  <1>2. HttpTypes'
        BY <1>1 DEF HttpInv, HttpTypes
  <1>3. OthersSame(c) /\ gone'[c] /\ Same(c)
        BY <1>1 DEF HttpInv, HttpTypes, OthersSame, Same
  <1>4. \A d \in Conn : Mine(d)' = Mine(d)
        BY <1>1, MineKept
  <1>5. up => ConnInv(c)'
        BY <1>3, <1>4, SameKeeps DEF HttpInv
  <1>6. ChildHolds(c)'
        BY <1>1 DEF HttpInv, ChildHolds, inr, outw
  <1>7. QED
        BY <1>1, <1>2, <1>3, <1>4, <1>5, <1>6, StepOf
-----------------------------------------------------------------------------
(* The server goes down: there is nothing else to show.                    *)
LEMMA DownKeeps ==
  ASSUME HttpInv, NEW c \in Conn, pc[c] # "idle", Dies,
         UNCHANGED <<pc, req, status, child, left, inq, toRead, toWrite, gone>>,
         outq' \in [Conn -> Int], got' \in [Conn -> Int],
         \A d \in Conn \ {c} : outq'[d] = outq[d] /\ got'[d] = got[d]
  PROVE  HttpInv'
  <1>1. /\ up' = FALSE /\ open' \in [Procs -> SUBSET (Conn \X Ends)]
        /\ \A d \in Conn : open'[d] = open[d]
        BY DiesIs DEF HttpInv
  <1>2. HttpTypes'
        BY <1>1 DEF HttpInv, HttpTypes
  <1>3. OthersSame(c) /\ ChildHolds(c)'
        BY <1>1 DEF HttpInv, OthersSame, Same, ChildHolds, inr, outw
  <1>4. QED
        BY <1>1, <1>2, <1>3, StepOf

LEMMA HttpAcceptKeeps ==
  ASSUME HttpInv, NEW c \in Conn, Accept(c) PROVE HttpInv'
  <1>1. /\ up /\ pc[c] = "queued"
        /\ UNCHANGED <<req, status, left, inq, outq, got, child, toRead, toWrite, gone>>
        BY DEF Accept
  <1>2. CASE /\ open' = [open EXCEPT ![Server] = @ \cup {sock(c)}]
             /\ \E next \in {"start", "lost"} : pc' = [pc EXCEPT ![c] = next]
             /\ up' = up
    <2>1. {sock(c)} = {c} \X {"sock"} /\ {"sock"} \in SUBSET Ends
          BY DEF sock, Ends
    <2>2. open' = [open EXCEPT ![Server] = open[Server] \cup ({c} \X {"sock"})]
          BY <1>2, <2>1
    <2>4. /\ open' \in [Procs -> SUBSET (Conn \X Ends)]
          /\ \A d \in Conn : open'[d] = open[d]
          BY <2>1, <2>2, ServerOpens DEF HttpInv
    <2>5. Mine(c)' = Mine(c) \cup {"sock"} /\ \A d \in Conn \ {c} : Mine(d)' = Mine(d)
          BY <2>1, <2>2, ServerOpens DEF HttpInv
    <2>6. pc'[c] \in {"start", "lost"} /\ HttpTypes'
          BY <1>1, <1>2, <2>4 DEF HttpInv, HttpTypes, Places
    <2>7. OthersSame(c) /\ ChildHolds(c)'
          BY <1>1, <1>2, <2>4 DEF HttpInv, HttpTypes, OthersSame, Same, ChildHolds, inr, outw
    <2>8. ConnInv(c)'
      <3>1. ConnInv(c)
            BY <1>1 DEF HttpInv
      <3>2. Before(c)' /\ Descriptors(c)' /\ Input(c)'
            BY <3>1, <1>1, <2>5, <2>6 DEF ConnInv, Before, Descriptors, Input
      <3>3. QED
            BY <3>2, <2>6 DEF ConnInv, CgiRequest, During, Output, After
    <2>9. QED
          BY <1>1, <1>2, <2>5, <2>6, <2>7, <2>8, StepOf
  <1>3. CASE Dies /\ pc' = pc
        BY <1>1, <1>3, DownKeeps DEF HttpInv, HttpTypes
  <1>4. QED
        BY <1>2, <1>3 DEF Accept

(* A page that ends the handler.                                           *)
LEMMA ReplyKeeps ==
  ASSUME HttpInv, up, NEW c \in Conn, NEW K \in SUBSET (Ends \ {"sock"}), NEW code, NEW next,
         Reply(c, code, next, {c} \X K),
         UNCHANGED <<req, gone, left, inq, outq, child, toRead, toWrite>>,
         got' \in [Conn -> Int], \A d \in Conn \ {c} : got'[d] = got[d],
         \/ pc[c] = "start" /\ K = {} /\ code \in {400, 404} /\ next = "close"
         \/ pc[c] = "start" /\ K = {} /\ code = 501 /\ next = "done"
         \/ /\ pc[c] = "start" /\ K = {} /\ code = 200 /\ next = "close"
            /\ got'[c] = cat(req[c]) /\ ~IsCgi(req[c])
         \/ pc[c] \in {"pipes", "fork"} /\ code = 500 /\ next = "close"
  PROVE  HttpInv'
  <1>1. CASE gone[c] /\ Dies /\ UNCHANGED <<status, pc>>
    <2>2. outq' \in [Conn -> Int] /\ (\A d \in Conn \ {c} : outq'[d] = outq[d]) /\ pc[c] # "idle"
          BY DEF HttpInv, HttpTypes
    <2>3. QED
          BY <1>1, <2>2, DownKeeps
  <1>2. CASE /\ status' = [status EXCEPT ![c] = Append(@, code)]
             /\ pc' = [pc EXCEPT ![c] = next]
             /\ open' = [open EXCEPT ![Server] = @ \cup ({c} \X K)]
             /\ up' = up
    <2>1. open' = [open EXCEPT ![Server] = open[Server] \cup ({c} \X K)]
          BY <1>2
    <2>2. K \in SUBSET Ends
          OBVIOUS
    <2>3. HttpTypes
          BY DEF HttpInv
    <2>4. /\ open' \in [Procs -> SUBSET (Conn \X Ends)]
          /\ \A d \in Conn : open'[d] = open[d]
          /\ Mine(c)' = Mine(c) \cup K
          /\ \A d \in Conn \ {c} : Mine(d)' = Mine(d)
          BY <2>1, <2>2, <2>3, ServerOpens, Zenon
    <2>5. Mine(c)' = Mine(c) \cup K /\ \A d \in Conn \ {c} : Mine(d)' = Mine(d)
          BY <2>4
    <2>6. status[c] = <<>> /\ child[c] = "none" /\ Mine(c) \in {{"sock"}, Ends}
          BY DEF HttpInv, ConnInv, Before, Descriptors
    <2>7. code \in Nat /\ status'[c] = <<code>> /\ pc'[c] = next /\ child'[c] = "none"
          BY <1>2, <2>6 DEF HttpInv, HttpTypes
    <2>8. HttpTypes'
      <3>1. pc' \in [Conn -> Places]
            BY <1>2 DEF HttpInv, HttpTypes, Places
      <3>2. status' \in [Conn -> Seq(Nat)]
            BY <1>2, <2>7 DEF HttpInv, HttpTypes
      <3>3. QED
            BY <3>1, <3>2, <1>2, <2>4 DEF HttpInv, HttpTypes
    <2>9. OthersSame(c) /\ ChildHolds(c)'
      <3>1. \A d \in Conn \ {c} : pc'[d] = pc[d] /\ status'[d] = status[d]
            BY <1>2 DEF HttpInv, HttpTypes
      <3>2. QED
            BY <3>1, <2>4, <2>7 DEF OthersSame, Same, ChildHolds
    <2>10. ConnInv(c)'
      <3>1. pc'[c] \in {"close", "done"}
            BY <2>7
      <3>2. Before(c)' /\ CgiRequest(c)' /\ During(c)' /\ Output(c)'
            BY <3>1 DEF Before, CgiRequest, During, Output
      <3>3. Input(c)'
            BY <3>1, <2>7 DEF Input
      <3>4. After(c)'
            BY <2>7 DEF After
      <3>5. Descriptors(c)'
        <4>1. /\ status'[c] = <<501>> <=> code = 501
              /\ status'[c] = <<500>> <=> code = 500
              BY <2>7
        <4>2. pc[c] = "start" => Mine(c) = {"sock"} /\ Mine(c)' = {"sock"}
              BY <2>5 DEF HttpInv, ConnInv, Descriptors
        <4>3. QED
              BY <4>1, <4>2, <2>7 DEF Descriptors
      <3>6. QED
            BY <3>2, <3>3, <3>4, <3>5 DEF ConnInv
    <2>11. QED
          BY <1>2, <2>5, <2>7, <2>8, <2>9, <2>10, StepOf
  <1>3. QED
        BY <1>1, <1>2 DEF Reply

(* The server goes on with the same descriptors.                           *)
LEMMA GoesOnKeeps ==
  ASSUME HttpInv, up, NEW c \in Conn, pc'[c] # "idle",
         pc' \in [Conn -> Places],
         \A d \in Conn \ {c} : pc'[d] = pc[d],
         UNCHANGED <<open, req, status, gone, got, up, cgiVars>>,
         ConnInv(c)'
  PROVE  HttpInv'
  <1>1. HttpTypes'
        BY DEF HttpInv, HttpTypes, cgiVars
  <1>2. OthersSame(c) /\ ChildHolds(c)'
        BY DEF HttpInv, OthersSame, Same, cgiVars, ChildHolds, inr, outw
  <1>3. \A d \in Conn : Mine(d)' = Mine(d)
        BY MineKept
  <1>4. QED
        BY <1>1, <1>2, <1>3, StepOf

LEMMA RequestKeeps ==
  ASSUME HttpInv, NEW c \in Conn, accept_request(c) PROVE HttpInv'
  <1>1. /\ up /\ pc[c] = "start"
        /\ UNCHANGED <<req, got, gone, left, inq, outq, child, toRead, toWrite>>
        BY DEF accept_request, cgiVars
  <1>2. {} = {c} \X {} /\ {} \in SUBSET (Ends \ {"sock"}) /\ got' \in [Conn -> Int]
        BY <1>1 DEF HttpInv, HttpTypes
  <1>3. CASE unimplemented(c)
    <2>1. Reply(c, 501, "done", {c} \X {})
          BY <1>2, <1>3 DEF unimplemented
    <2>2. QED
          BY <1>1, <1>2, <2>1, ReplyKeeps
  <1>4. CASE not_found(c)
    <2>1. Reply(c, 404, "close", {c} \X {})
          BY <1>2, <1>4 DEF not_found
    <2>2. QED
          BY <1>1, <1>2, <2>1, ReplyKeeps
  <1>5. CASE bad_request(c)
    <2>1. Reply(c, 400, "close", {c} \X {})
          BY <1>2, <1>5 DEF bad_request
    <2>2. QED
          BY <1>1, <1>2, <2>1, ReplyKeeps
  <1>6. CASE /\ req[c].target # "missing" /\ IsCgi(req[c]) /\ ~(req[c].method = "POST" /\ req[c].len = -1)
             /\ pc' = [pc EXCEPT ![c] = "pipes"]
             /\ UNCHANGED <<open, status, up>>
    <2>1. ConnInv(c)
          BY <1>1 DEF HttpInv
    <2>2. /\ pc'[c] = "pipes" /\ \A d \in Conn \ {c} : pc'[d] = pc[d]
          /\ pc' \in [Conn -> Places]
          BY <1>6 DEF HttpInv, HttpTypes, Places
    <2>3. \A d \in Conn : Mine(d)' = Mine(d)
          BY <1>6, MineKept
    <2>4. Before(c)' /\ Descriptors(c)' /\ Input(c)'
          BY <2>1, <2>2, <2>3, <1>1, <1>6 DEF ConnInv, Before, Descriptors, Input
    <2>5. CgiRequest(c)'
          BY <1>1, <1>6 DEF CgiRequest, Posts
    <2>6. ConnInv(c)'
          BY <2>2, <2>4, <2>5 DEF ConnInv, During, Output, After
    <2>7. QED
          BY <1>1, <1>6, <2>2, <2>6, GoesOnKeeps DEF cgiVars
  <1>7. QED
        BY <1>3, <1>4, <1>5, <1>6 DEF accept_request

LEMMA FileKeeps ==
  ASSUME HttpInv, NEW c \in Conn, serve_file(c) PROVE HttpInv'
  <1>1. /\ up /\ pc[c] = "start" /\ ~IsCgi(req[c])
        /\ UNCHANGED <<req, gone, left, inq, outq, child, toRead, toWrite>>
        BY DEF serve_file, cgiVars
  <1>2. {} = {c} \X {} /\ {} \in SUBSET (Ends \ {"sock"})
        OBVIOUS
  <1>3. CASE headers(c) /\ got' = [got EXCEPT ![c] = cat(req[c])]
    <2>1. cat(req[c]) \in Int
          BY HttpAssumption DEF cat
    <2>2. /\ got' \in [Conn -> Int] /\ got'[c] = cat(req[c])
          /\ \A d \in Conn \ {c} : got'[d] = got[d]
          BY <1>3, <2>1 DEF HttpInv, HttpTypes
    <2>3. QED
      <3>1. Reply(c, 200, "close", {c} \X {})
            BY <1>2, <1>3 DEF headers
      <3>2. QED
            BY <1>1, <1>2, <2>2, <3>1, ReplyKeeps
  <1>4. CASE not_found(c) /\ got' = got
    <2>1. Reply(c, 404, "close", {c} \X {})
          BY <1>2, <1>4 DEF not_found
    <2>2. got' \in [Conn -> Int]
          BY <1>4 DEF HttpInv, HttpTypes
    <2>3. QED
          BY <1>1, <1>2, <1>4, <2>1, <2>2, ReplyKeeps
  <1>5. CASE Dies /\ UNCHANGED <<status, pc>> /\ got' = got
        BY <1>1, <1>5, DownKeeps DEF HttpInv, HttpTypes
  <1>6. QED
        BY <1>3, <1>4, <1>5 DEF serve_file

LEMMA AppendOne ==
  Append(<<>>, 200) = <<200>> /\ Append(<<200>>, 200) = <<200, 200>>
  <1>1. Append(<<>>, 200) = <<200>>
        OBVIOUS
  <1> DEFINE a == Append(<<200>>, 200)
             b == <<200, 200>>
  <1>2. a \in Seq(Nat) /\ b \in Seq(Nat)
        OBVIOUS
  <1>3. Len(a) = 2 /\ Len(b) = 2
        OBVIOUS
  <1>4. a[1] = 200 /\ a[2] = 200 /\ b[1] = 200 /\ b[2] = 200
        OBVIOUS
  <1> HIDE DEF a, b
  <1>5. \A i \in 1 .. Len(a) : a[i] = b[i]
    <2>1. \A i \in 1 .. 2 : i = 1 \/ i = 2
          OBVIOUS
    <2>2. QED
          BY <1>3, <1>4, <2>1
  <1>6. a = b
        BY <1>2, <1>3, <1>5, SeqEqual
  <1>7. QED
        BY <1>1, <1>6 DEF a, b

LEMMA TwoLines == <<200, 200>> # <<200>> /\ <<200, 200>> # <<>>
  <1>1. Len(<<200, 200>>) = 2 /\ Len(<<200>>) = 1
        OBVIOUS
  <1>2. QED
        BY <1>1

LEMMA CloseKeeps ==
  ASSUME HttpInv, NEW c \in Conn, close_client(c) PROVE HttpInv'
  <1>1. /\ up /\ up' = up /\ pc[c] = "close" /\ pc' = [pc EXCEPT ![c] = "done"]
        /\ open' = [open EXCEPT ![Server] = @ \ {sock(c)}]
        /\ UNCHANGED <<req, status, got, gone, left, inq, outq, child, toRead, toWrite>>
        BY DEF close_client, cgiVars
  <1>2. HttpTypes /\ ConnInv(c)
        BY <1>1 DEF HttpInv
  <1>3. {sock(c)} = {c} \X {"sock"} /\ {"sock"} \in SUBSET Ends
        BY DEF sock, Ends
  <1>4. open' = [open EXCEPT ![Server] = open[Server] \ ({c} \X {"sock"})]
        BY <1>1, <1>3
  <1>5. /\ open' \in [Procs -> SUBSET (Conn \X Ends)] /\ \A d \in Conn : open'[d] = open[d]
        /\ Mine(c)' = Mine(c) \ {"sock"} /\ \A d \in Conn \ {c} : Mine(d)' = Mine(d)
        BY <1>2, <1>3, <1>4, ServerCloses, Zenon
  <1>6. HttpTypes' /\ pc'[c] = "done"
        BY <1>1, <1>2, <1>5 DEF HttpTypes, Places
  <1>7. OthersSame(c) /\ ChildHolds(c)'
        BY <1>1, <1>2, <1>5 DEF HttpInv, HttpTypes, OthersSame, Same, ChildHolds, inr, outw
  <1>8. ConnInv(c)'
    <2>1. Before(c)' /\ CgiRequest(c)' /\ During(c)' /\ Output(c)'
          BY <1>6 DEF Before, CgiRequest, During, Output
    <2>2. Input(c)' /\ After(c)'
          BY <1>1, <1>2, <1>6 DEF ConnInv, Input, After
    <2>3. Descriptors(c)'
          BY <1>1, <1>2, <1>5, <1>6 DEF ConnInv, Descriptors
    <2>4. QED
          BY <2>1, <2>2, <2>3 DEF ConnInv
  <1>9. QED
        BY <1>1, <1>5, <1>6, <1>7, <1>8, StepOf

-----------------------------------------------------------------------------
(* execute_cgi.                                                            *)
LEMMA PipesKeep ==
  ASSUME HttpInv, NEW c \in Conn, MakePipes(c) PROVE HttpInv'
  <1>1. /\ up /\ pc[c] = "pipes"
        /\ UNCHANGED <<req, got, gone, left, inq, outq, child, toRead, toWrite>>
        BY DEF MakePipes, cgiVars
  <1>2. HttpTypes /\ ConnInv(c) /\ got' \in [Conn -> Int]
        BY <1>1 DEF HttpInv, HttpTypes
  <1> DEFINE P == {"outr", "outw", "inr", "inw"}
             Q == {"outr", "outw"}
  <1>3. CASE /\ open' = [open EXCEPT ![Server] = @ \cup {outr(c), outw(c), inr(c), inw(c)}]
             /\ pc' = [pc EXCEPT ![c] = "fork"]
             /\ UNCHANGED <<status, up>>
    <2>1. {outr(c), outw(c), inr(c), inw(c)} = {c} \X P /\ P \in SUBSET Ends
          BY DEF outr, outw, inr, inw, Ends
    <2>2. open' = [open EXCEPT ![Server] = open[Server] \cup ({c} \X P)]
          BY <1>3, <2>1
    <2> HIDE DEF P
    <2>3. /\ open' \in [Procs -> SUBSET (Conn \X Ends)] /\ \A d \in Conn : open'[d] = open[d]
          /\ Mine(c)' = Mine(c) \cup P /\ \A d \in Conn \ {c} : Mine(d)' = Mine(d)
          BY <1>2, <2>1, <2>2, ServerOpens, Zenon
    <2>4. HttpTypes' /\ pc'[c] = "fork"
          BY <1>1, <1>2, <1>3, <2>3 DEF HttpTypes, Places
    <2>5. OthersSame(c) /\ ChildHolds(c)'
          BY <1>1, <1>2, <1>3, <2>3 DEF HttpInv, HttpTypes, OthersSame, Same, ChildHolds, inr, outw
    <2>6. Mine(c)' = Ends
      <3>1. Mine(c) = {"sock"}
            BY <1>1, <1>2 DEF ConnInv, Descriptors
      <3>2. QED
            BY <2>3, <3>1 DEF P, Ends
    <2>7. ConnInv(c)'
      <3>1. Before(c)' /\ CgiRequest(c)' /\ Input(c)' /\ Descriptors(c)'
            BY <1>1, <1>2, <1>3, <2>4, <2>6 DEF ConnInv, Before, CgiRequest, Input, Descriptors
      <3>2. QED
            BY <3>1, <2>4 DEF ConnInv, During, Output, After
    <2>8. QED
          BY <1>1, <1>3, <2>3, <2>4, <2>5, <2>7, StepOf
  <1>4. CASE cannot_execute(c, {})
    <2>1. {} = {c} \X {} /\ {} \in SUBSET (Ends \ {"sock"})
          OBVIOUS
    <2>2. Reply(c, 500, "close", {c} \X {})
          BY <1>4, <2>1 DEF cannot_execute
    <2>3. QED
          BY <1>1, <1>2, <2>1, <2>2, ReplyKeeps
  <1>5. CASE cannot_execute(c, {outr(c), outw(c)})
    <2>1. {outr(c), outw(c)} = {c} \X Q /\ Q \in SUBSET (Ends \ {"sock"})
          BY DEF outr, outw, Ends
    <2>2. Reply(c, 500, "close", {c} \X Q)
          BY <1>5, <2>1 DEF cannot_execute
    <2> HIDE DEF Q
    <2>3. QED
          BY <1>1, <1>2, <2>1, <2>2, ReplyKeeps
  <1>6. QED
        BY <1>3, <1>4, <1>5 DEF MakePipes

LEMMA LenIsInt ==
  ASSUME HttpTypes, NEW c \in Conn
  PROVE  req[c].len \in Int /\ Extra(req[c]) \in Int /\ OutLen \in Nat
  <1>1. \A r \in Requests \cup {NoReq} : r.len \in Int
        BY DEF Requests, NoReq
  <1>2. QED
        BY <1>1, HttpAssumption DEF HttpTypes, Extra

LEMMA ForkKeeps ==
  ASSUME HttpInv, NEW c \in Conn, Fork(c) PROVE HttpInv'
  <1>1. /\ up /\ pc[c] = "fork"
        /\ UNCHANGED <<req, got, gone, left, inq, outq, toRead, toWrite>>
        BY DEF Fork
  <1>2. HttpTypes /\ ConnInv(c) /\ got' \in [Conn -> Int]
        BY <1>1 DEF HttpInv, HttpTypes
  <1>3. CASE /\ open' = [open EXCEPT ![c] = open[Server]]
             /\ child' = [child EXCEPT ![c] = "setup"]
             /\ pc' = [pc EXCEPT ![c] = "parent"]
             /\ UNCHANGED <<status, up>>
    <2>1. open[Server] \in SUBSET (Conn \X Ends)
          BY <1>2, OpenTypes
    <2>2. /\ open' \in [Procs -> SUBSET (Conn \X Ends)]
          /\ open'[c] = open[Server] /\ open'[Server] = open[Server]
          /\ \A d \in Conn \ {c} : open'[d] = open[d]
          BY <1>2, <1>3, <2>1, OpenChild
    <2>3. \A d \in Conn : Mine(d)' = Mine(d)
          BY <2>2, MineKept
    <2>4. HttpTypes' /\ pc'[c] = "parent" /\ child'[c] = "setup"
          BY <1>1, <1>2, <1>3, <2>2 DEF HttpTypes, Places
    <2>5. OthersSame(c)
          BY <1>1, <1>2, <1>3, <2>2 DEF HttpTypes, OthersSame, Same
    <2>6. Mine(c) = Ends
          BY <1>1, <1>2 DEF ConnInv, Descriptors
    <2>7. ChildHolds(c)'
      <3>1. \A e \in Ends : <<c, e>> \in open[Server]
            BY <2>6 DEF Mine
      <3>2. <<c, "inr">> \in open'[c] /\ <<c, "outw">> \in open'[c]
            BY <3>1, <2>2 DEF Ends
      <3>3. QED
            BY <3>2 DEF ChildHolds, inr, outw
    <2>8. ConnInv(c)'
      <3>1. Before(c)' /\ CgiRequest(c)' /\ During(c)' /\ After(c)' /\ Descriptors(c)'
            BY <1>1, <1>2, <1>3, <2>3, <2>4
               DEF ConnInv, Before, CgiRequest, During, After, Descriptors
      <3>2. inq'[c] = 0 /\ got'[c] = 0 /\ outq'[c] = 0 /\ req'[c] = req[c]
            BY <1>1, <1>2 DEF ConnInv, Before
      <3>3. Input(c)'
            BY <3>2, <2>4, <1>2, LenIsInt DEF Input, ToFeed, ToTake
      <3>4. Output(c)'
            BY <3>2, <2>4, <1>2, LenIsInt DEF Output, ToWrite
      <3>5. QED
            BY <3>1, <3>3, <3>4 DEF ConnInv
    <2>9. QED
          BY <1>1, <1>3, <2>3, <2>4, <2>5, <2>7, <2>8, StepOf
  <1>4. CASE cannot_execute(c, {}) /\ child' = child
    <2>1. {} = {c} \X {} /\ {} \in SUBSET (Ends \ {"sock"})
          OBVIOUS
    <2>2. Reply(c, 500, "close", {c} \X {})
          BY <1>4, <2>1 DEF cannot_execute
    <2>3. QED
          BY <1>1, <1>2, <1>4, <2>1, <2>2, ReplyKeeps
  <1>5. QED
        BY <1>3, <1>4 DEF Fork

LEMMA ParentKeeps ==
  ASSUME HttpInv, NEW c \in Conn, ParentStarts(c) PROVE HttpInv'
  <1>1. /\ up /\ pc[c] = "parent"
        /\ UNCHANGED <<req, got, gone, inq, outq, child, toRead, toWrite>>
        BY DEF ParentStarts
  <1>2. HttpTypes /\ ConnInv(c)
        BY <1>1 DEF HttpInv
  <1> DEFINE n == IF req[c].method = "POST" THEN req[c].len ELSE 0
  <1>3. CASE /\ open' = [open EXCEPT ![Server] = @ \ {outw(c), inr(c)}]
             /\ left' = [left EXCEPT ![c] = n]
             /\ status' = [status EXCEPT ![c] = Append(@, 200)]
             /\ pc' = [pc EXCEPT ![c] = "feed"]
             /\ up' = up
    <2> DEFINE P == {"outw", "inr"}
    <2>1. {outw(c), inr(c)} = {c} \X P /\ P \in SUBSET Ends
          BY DEF outw, inr, Ends
    <2>2. open' = [open EXCEPT ![Server] = open[Server] \ ({c} \X P)]
          BY <1>3, <2>1
    <2> HIDE DEF P
    <2>3. /\ open' \in [Procs -> SUBSET (Conn \X Ends)] /\ \A d \in Conn : open'[d] = open[d]
          /\ Mine(c)' = Mine(c) \ P /\ \A d \in Conn \ {c} : Mine(d)' = Mine(d)
          BY <1>2, <2>1, <2>2, ServerCloses, Zenon
    <2>4. n \in Int
          BY <1>2, LenIsInt
    <2>5. /\ pc'[c] = "feed" /\ left'[c] = n
          /\ status'[c] = Append(status[c], 200) /\ status'[c] \in Seq(Nat)
          BY <1>2, <1>3 DEF HttpTypes
    <2> HIDE DEF n
    <2>6. HttpTypes'
          BY <1>1, <1>2, <1>3, <2>3, <2>4, <2>5 DEF HttpTypes, Places
    <2>7. OthersSame(c) /\ ChildHolds(c)'
          BY <1>1, <1>2, <1>3, <2>3 DEF HttpInv, HttpTypes, OthersSame, Same, ChildHolds, inr, outw
    <2>8. Mine(c)' = {"sock", "outr", "inw"}
      <3>1. Mine(c) = Ends
            BY <1>1, <1>2 DEF ConnInv, Descriptors
      <3>2. QED
            BY <2>3, <3>1 DEF P, Ends
    <2>9. ConnInv(c)'
      <3>1. Before(c)' /\ CgiRequest(c)' /\ After(c)' /\ Descriptors(c)'
            BY <1>1, <1>2, <2>5, <2>8 DEF ConnInv, Before, CgiRequest, After, Descriptors
      <3>s. Silent(c) => Silent(c)'
            BY <1>1, <2>5, AppendOne DEF Silent
      <3>2. During(c)'
        <4>1. Append(<<>>, 200) = <<200>> /\ Append(<<200>>, 200) = <<200, 200>>
              BY AppendOne
        <4>2. CASE Silent(c)
              BY <4>2, <3>s, <1>1, <1>2, <2>5 DEF ConnInv, During
        <4>3. CASE ~Silent(c)
          <5>1. status[c] = IF child[c] = "setup" THEN <<>> ELSE <<200>>
                BY <4>3, <1>1, <1>2 DEF ConnInv, During
          <5>2. status'[c] = IF child[c] = "setup" THEN <<200>> ELSE <<200, 200>>
                BY <5>1, <4>1, <2>5
          <5>3. QED
                BY <5>2, <1>1, <1>2, <2>5 DEF ConnInv, During
        <4>4. QED
              BY <4>2, <4>3
      <3>3. Input(c)'
        <4>1. n = ToFeed(c) /\ n = IF Posts(req[c]) THEN req[c].len ELSE 0
              BY <1>1 DEF n, ToFeed, Posts
        <4>2. n <= n
              BY <2>4
        <4>3. ToFeed(c)' = ToFeed(c) /\ ToTake(c)' = ToTake(c)
              BY <1>1, <2>5, <4>1 DEF ToFeed, ToTake
        <4>4. QED
              BY <1>1, <1>2, <2>5, <3>s, <4>1, <4>2, <4>3 DEF ConnInv, Input
      <3>4. Output(c)'
        <4>1. ToWrite(c)' = ToWrite(c)
              BY <1>1 DEF ToWrite
        <4>2. QED
              BY <1>1, <1>2, <2>5, <3>s, <4>1 DEF ConnInv, Output
      <3>5. QED
            BY <3>1, <3>2, <3>3, <3>4 DEF ConnInv
    <2>10. QED
           BY <1>1, <1>3, <2>3, <2>5, <2>6, <2>7, <2>9, StepOf
  <1>4. CASE Dies /\ UNCHANGED <<left, status, pc>>
    <2>2. outq' \in [Conn -> Int] /\ got' \in [Conn -> Int]
          BY <1>1, <1>2 DEF HttpTypes
    <2>3. QED
          BY <1>1, <1>4, <2>2, DownKeeps
  <1>5. QED
        BY <1>3, <1>4 DEF ParentStarts

(* A write into the pipe finds no reader only if the program, or what      *)
(* stands in its place, does not take the body.                            *)
LEMMA NoReaderHasCause ==
  ASSUME HttpInv, up, NEW c \in Conn, pc[c] = "feed", left[c] > 0, ~Held(inr(c))
  PROVE  gone[c] \/ ~Harmless(req[c])
  <1>1. HttpTypes /\ ConnInv(c) /\ ChildHolds(c)
        BY DEF HttpInv
  <1>2. left[c] \in Int /\ inq[c] \in Nat /\ req[c].len \in Int
        BY <1>1, LenIsInt DEF HttpTypes
  <1>3. Posts(req[c]) /\ req[c].len > 0 /\ req[c].target # "missing"
        BY <1>1, <1>2 DEF ConnInv, Input, CgiRequest
  <1>4. child[c] = "gone"
    <2>1. inr(c) \notin open[c]
          BY ServerIsProc DEF Held
    <2>2. child[c] # "none" /\ child[c] \in {"none", "setup", "run", "gone"}
          BY <1>1 DEF ConnInv, During, HttpTypes
    <2>3. QED
          BY <1>1, <2>1, <2>2 DEF ChildHolds
  <1>5. SUFFICES ASSUME Harmless(req[c]), ~gone[c] PROVE FALSE
        OBVIOUS
  <1>6. req[c].target = "exec" /\ req[c].prog \in {"drain", "echo", "eof"}
        BY <1>3, <1>5 DEF Harmless, Posts
  <1>7. ToFeed(c) = left[c] /\ ToTake(c) = 0
        BY <1>4 DEF ToFeed, ToTake
  <1>8. QED
        BY <1>1, <1>2, <1>3, <1>4, <1>5, <1>6, <1>7 DEF ConnInv, Input, Silent

LEMMA FeedKeeps ==
  ASSUME HttpInv, NEW c \in Conn, FeedByte(c) PROVE HttpInv'
  <1>1. /\ up /\ pc[c] = "feed" /\ left[c] > 0
        /\ UNCHANGED <<pc, req, status, got, gone, outq, child, toRead, toWrite>>
        BY DEF FeedByte
  <1>2. HttpTypes /\ ConnInv(c)
        BY <1>1 DEF HttpInv
  <1>3. CASE /\ inq' = [inq EXCEPT ![c] = @ + 1]
             /\ left' = [left EXCEPT ![c] = @ - 1]
             /\ UNCHANGED <<open, up>>
    <2>1. left[c] \in Int /\ inq[c] \in Nat /\ inq'[c] = inq[c] + 1 /\ left'[c] = left[c] - 1
          BY <1>2, <1>3 DEF HttpTypes
    <2>2. HttpTypes'
          BY <1>1, <1>2, <1>3, <2>1 DEF HttpTypes
    <2>3. OthersSame(c) /\ ChildHolds(c)'
          BY <1>1, <1>2, <1>3 DEF HttpInv, HttpTypes, OthersSame, Same, ChildHolds, inr, outw
    <2>4. \A d \in Conn : Mine(d)' = Mine(d)
          BY <1>3, MineKept
    <2>s. Silent(c)' = Silent(c)
          BY <1>1 DEF Silent
    <2>5. ConnInv(c)'
      <3>1. Before(c)' /\ CgiRequest(c)' /\ During(c)' /\ After(c)' /\ Descriptors(c)'
            BY <1>1, <1>2, <2>4, <2>s DEF ConnInv, Before, CgiRequest, During, After, Descriptors
      <3>2. Input(c)'
        <4>1. ToFeed(c)' + inq'[c] = ToFeed(c) + inq[c] /\ ToTake(c)' = ToTake(c)
              BY <1>1, <2>1 DEF ToFeed, ToTake
        <4>2. left'[c] <= IF Posts(req[c]) THEN req[c].len ELSE 0
              BY <1>1, <1>2, <2>1, LenIsInt DEF ConnInv, Input
        <4>3. QED
              BY <1>1, <1>2, <2>s, <4>1, <4>2 DEF ConnInv, Input
      <3>3. Output(c)'
        <4>1. ToWrite(c)' = ToWrite(c)
              BY <1>1 DEF ToWrite
        <4>2. QED
              BY <1>1, <1>2, <2>s, <4>1 DEF ConnInv, Output
      <3>4. QED
            BY <3>1, <3>2, <3>3 DEF ConnInv
    <2>6. QED
          BY <1>1, <1>3, <2>2, <2>3, <2>4, <2>5, StepOf
  <1>4. CASE Dies /\ UNCHANGED <<inq, left>>
    <2>2. outq' \in [Conn -> Int] /\ got' \in [Conn -> Int]
          BY <1>1, <1>2 DEF HttpTypes
    <2>3. QED
          BY <1>1, <1>4, <2>2, DownKeeps
  <1>5. QED
        BY <1>3, <1>4 DEF FeedByte

LEMMA FeedEndsKeeps ==
  ASSUME HttpInv, NEW c \in Conn, FeedEnds(c) PROVE HttpInv'
  <1>1. /\ up /\ pc[c] = "feed" /\ pc' = [pc EXCEPT ![c] = "relay"]
        /\ UNCHANGED <<open, req, status, gone, got, up, cgiVars>>
        BY DEF FeedEnds
  <1>2. HttpTypes /\ ConnInv(c)
        BY <1>1 DEF HttpInv
  <1>3. /\ pc'[c] = "relay" /\ \A d \in Conn \ {c} : pc'[d] = pc[d]
        /\ pc' \in [Conn -> Places]
        BY <1>1, <1>2 DEF HttpTypes, Places
  <1>4. Mine(c)' = Mine(c)
        BY <1>1, MineKept
  <1>s. Silent(c)' = Silent(c)
        BY <1>1, <1>3 DEF Silent, cgiVars
  <1>5. ConnInv(c)'
    <2>1. Before(c)' /\ CgiRequest(c)' /\ During(c)' /\ After(c)' /\ Descriptors(c)' /\ Input(c)'
          BY <1>1, <1>2, <1>3, <1>4, <1>s
             DEF cgiVars, ConnInv, Before, CgiRequest, During, After, Descriptors, Input
    <2>2. ToWrite(c)' = ToWrite(c)
          BY <1>1 DEF ToWrite, cgiVars
    <2>3. Output(c)'
          BY <1>1, <1>2, <1>3, <1>s, <2>2 DEF cgiVars, ConnInv, Output
    <2>4. QED
          BY <2>1, <2>3 DEF ConnInv
  <1>6. QED
        BY <1>1, <1>3, <1>5, GoesOnKeeps

LEMMA RelayKeeps ==
  ASSUME HttpInv, NEW c \in Conn, RelayByte(c) PROVE HttpInv'
  <1>1. /\ up /\ pc[c] = "relay" /\ outq[c] > 0 /\ outq' = [outq EXCEPT ![c] = @ - 1]
        /\ UNCHANGED <<pc, req, status, gone, left, inq, child, toRead, toWrite>>
        BY DEF RelayByte
  <1>2. HttpTypes /\ ConnInv(c)
        BY <1>1 DEF HttpInv
  <1>3. /\ outq' \in [Conn -> Int] /\ outq'[c] = outq[c] - 1 /\ outq[c] \in Int
        /\ \A d \in Conn \ {c} : outq'[d] = outq[d]
        BY <1>1, <1>2 DEF HttpTypes
  <1>s. ~Silent(c) /\ child[c] # "setup"
        BY <1>2, <1>1 DEF Silent, ConnInv, During
  <1>4. CASE got' = [got EXCEPT ![c] = @ + 1] /\ UNCHANGED <<open, up>>
    <2>1. /\ got' \in [Conn -> Int] /\ got'[c] = got[c] + 1 /\ got[c] \in Int
          /\ \A d \in Conn \ {c} : got'[d] = got[d]
          BY <1>2, <1>4 DEF HttpTypes
    <2>2. HttpTypes'
          BY <1>1, <1>2, <1>3, <1>4, <2>1 DEF HttpTypes
    <2>3. OthersSame(c) /\ ChildHolds(c)'
          BY <1>1, <1>3, <1>4, <2>1 DEF HttpInv, OthersSame, Same, ChildHolds, inr, outw
    <2>4. \A d \in Conn : Mine(d)' = Mine(d)
          BY <1>4, MineKept
    <2>5. ConnInv(c)'
      <3>1. Before(c)' /\ CgiRequest(c)' /\ During(c)' /\ After(c)' /\ Descriptors(c)' /\ Input(c)'
            BY <1>1, <1>2, <1>s, <2>4 DEF ConnInv, Before, CgiRequest, During, After, Descriptors, Input
      <3>2. ToWrite(c)' = ToWrite(c) /\ got'[c] + outq'[c] = got[c] + outq[c]
            BY <1>1, <1>3, <2>1 DEF ToWrite
      <3>3. Output(c)'
            BY <1>1, <1>2, <1>s, <3>2 DEF ConnInv, Output
      <3>4. QED
            BY <3>1, <3>3 DEF ConnInv
    <2>6. QED
          BY <1>1, <1>4, <2>2, <2>3, <2>4, <2>5, StepOf
  <1>5. CASE Dies /\ got' = got
    <2>2. got' \in [Conn -> Int]
          BY <1>2, <1>5 DEF HttpTypes
    <2>3. QED
          BY <1>1, <1>3, <1>5, <2>2, DownKeeps
  <1>6. QED
        BY <1>4, <1>5 DEF RelayByte

LEMMA RelayEndsKeeps ==
  ASSUME HttpInv, NEW c \in Conn, RelayEnds(c) PROVE HttpInv'
  <1>1. /\ up /\ up' = up /\ pc[c] = "relay" /\ outq[c] = 0 /\ ~Held(outw(c))
        /\ pc' = [pc EXCEPT ![c] = "reap"]
        /\ open' = [open EXCEPT ![Server] = @ \ {outr(c), inw(c)}]
        /\ UNCHANGED <<req, status, got, gone, left, inq, outq, child, toRead, toWrite>>
        BY DEF RelayEnds, cgiVars
  <1>2. HttpTypes /\ ConnInv(c) /\ ChildHolds(c)
        BY <1>1 DEF HttpInv
  <1> DEFINE P == {"outr", "inw"}
  <1>3. {outr(c), inw(c)} = {c} \X P /\ P \in SUBSET Ends
        BY DEF outr, inw, Ends
  <1>4. open' = [open EXCEPT ![Server] = open[Server] \ ({c} \X P)]
        BY <1>1, <1>3
  <1> HIDE DEF P
  <1>5. /\ open' \in [Procs -> SUBSET (Conn \X Ends)] /\ \A d \in Conn : open'[d] = open[d]
        /\ Mine(c)' = Mine(c) \ P /\ \A d \in Conn \ {c} : Mine(d)' = Mine(d)
        BY <1>2, <1>3, <1>4, ServerCloses, Zenon
  <1>6. pc'[c] = "reap"
        BY <1>1, <1>2 DEF HttpTypes
  <1>7. HttpTypes'
        BY <1>1, <1>2, <1>5 DEF HttpTypes, Places
  <1>8. OthersSame(c) /\ ChildHolds(c)'
        BY <1>1, <1>2, <1>5 DEF HttpTypes, OthersSame, Same, ChildHolds, inr, outw
  <1>9. child[c] = "gone"
    <2>1. outw(c) \notin open[c]
          BY <1>1, ServerIsProc DEF Held
    <2>2. child[c] # "none" /\ child[c] \in {"none", "setup", "run", "gone"}
          BY <1>1, <1>2 DEF ConnInv, During, HttpTypes
    <2>3. QED
          BY <1>2, <2>1, <2>2 DEF ChildHolds
  <1>10. Mine(c)' = {"sock"}
    <2>1. Mine(c) = {"sock", "outr", "inw"}
          BY <1>1, <1>2 DEF ConnInv, Descriptors
    <2>2. QED
          BY <1>5, <2>1 DEF P
  <1>s. Silent(c)' = Silent(c)
        BY <1>1, <1>6 DEF Silent
  <1>11. ConnInv(c)'
    <2>1. Before(c)' /\ CgiRequest(c)' /\ During(c)' /\ After(c)' /\ Descriptors(c)' /\ Input(c)'
          BY <1>1, <1>2, <1>6, <1>9, <1>10, <1>s
             DEF ConnInv, Before, CgiRequest, During, After, Descriptors, Input
    <2>2. ToWrite(c)' = ToWrite(c)
          BY <1>1 DEF ToWrite
    <2>3. Output(c)'
          BY <1>1, <1>2, <1>6, <1>s, <2>2 DEF ConnInv, Output
    <2>4. QED
          BY <2>1, <2>3 DEF ConnInv
  <1>12. QED
         BY <1>1, <1>5, <1>6, <1>7, <1>8, <1>11, StepOf

LEMMA ReapKeeps ==
  ASSUME HttpInv, NEW c \in Conn, Reap(c) PROVE HttpInv'
  <1>1. /\ up /\ pc[c] = "reap" /\ child[c] = "gone" /\ pc' = [pc EXCEPT ![c] = "close"]
        /\ UNCHANGED <<open, req, status, gone, got, up, cgiVars>>
        BY DEF Reap
  <1>2. HttpTypes /\ ConnInv(c)
        BY <1>1 DEF HttpInv
  <1>3. /\ pc'[c] = "close" /\ \A d \in Conn \ {c} : pc'[d] = pc[d]
        /\ pc' \in [Conn -> Places]
        BY <1>1, <1>2 DEF HttpTypes, Places
  <1>4. Mine(c)' = Mine(c)
        BY <1>1, MineKept
  <1>5. /\ \/ status[c] = <<200, 200>>
           \/ Silent(c) /\ status[c] = <<200>>
        /\ IsCgi(req[c])
        BY <1>1, <1>2 DEF ConnInv, During, Silent, CgiRequest
  <1>a. status[c] # <<500>> /\ status[c] # <<501>>
        BY <1>5
  <1>6. req[c].target = "exec" /\ ~Silent(c) => got[c] = OutLen + Extra(req[c])
    <2>1. ToWrite(c) = 0 /\ got[c] \in Int
          BY <1>1, <1>2 DEF ToWrite, HttpTypes
    <2>2. QED
          BY <1>1, <1>2, <2>1 DEF ConnInv, Output
  <1>7. ConnInv(c)'
    <2>1. Before(c)' /\ CgiRequest(c)' /\ During(c)' /\ Output(c)'
          BY <1>3 DEF Before, CgiRequest, During, Output
    <2>2. Descriptors(c)' /\ Input(c)'
          BY <1>1, <1>2, <1>3, <1>4, <1>5, <1>a DEF cgiVars, ConnInv, Descriptors, Input
    <2>3. After(c)'
      <3>1. CASE Silent(c) /\ status[c] = <<200>>
            BY <3>1, <1>1, <1>3, <1>5 DEF cgiVars, After, Silent
      <3>2. CASE status[c] = <<200, 200>>
        <4>1. ~Silent(c)
              BY <3>2, <1>1, TwoLines DEF Silent
        <4>2. QED
              BY <3>2, <4>1, <1>1, <1>3, <1>6 DEF cgiVars, After
      <3>3. QED
            BY <3>1, <3>2, <1>5
    <2>4. QED
          BY <2>1, <2>2, <2>3 DEF ConnInv
  <1>8. QED
        BY <1>1, <1>3, <1>7, GoesOnKeeps

-----------------------------------------------------------------------------
(* The forked process.  As long as it lives, and the server with it, the   *)
(* server holds the other ends of its pipes.                               *)
LEMMA ServerHolds ==
  ASSUME HttpInv, up, NEW c \in Conn, child[c] \in {"setup", "run"}
  PROVE  pc[c] \in {"parent", "feed", "relay"} /\ Held(outr(c)) /\ Held(inw(c))
  <1>1. HttpTypes /\ ConnInv(c)
        BY DEF HttpInv
  <1>2. pc[c] \in {"parent", "feed", "relay"}
    <2>1. pc[c] \in Places
          BY <1>1 DEF HttpTypes
    <2>2. QED
          BY <1>1, <2>1 DEF ConnInv, Before, During, After, Places
  <1>3. "outr" \in Mine(c) /\ "inw" \in Mine(c)
        BY <1>1, <1>2 DEF ConnInv, Descriptors, Ends
  <1>4. QED
        BY <1>2, <1>3, ServerIsProc DEF Mine, Held, outr, inw

(* A step of the process c.                                                *)
LEMMA ChildStepOf ==
  ASSUME HttpInv, NEW c \in Conn, child[c] \in {"setup", "run"}, HttpTypes', OthersSame(c),
         UNCHANGED <<pc, req, got, gone, up, left>>, open'[Server] = open[Server],
         ChildHolds(c)', child'[c] \in {"run", "gone"},
         up => During(c)' /\ Input(c)' /\ Output(c)'
  PROVE  HttpInv'
  <1>1. \A d \in Conn : Mine(d)' = Mine(d)
        BY MineKept
  <1>2. ASSUME up PROVE ConnInv(c)' /\ pc[c] # "idle"
    <2>1. ConnInv(c) /\ pc[c] \in {"parent", "feed", "relay"}
          BY <1>2, ServerHolds DEF HttpInv
    <2>2. Before(c)' /\ CgiRequest(c)' /\ After(c)' /\ Descriptors(c)'
          BY <2>1, <1>1 DEF ConnInv, Before, CgiRequest, After, Descriptors
    <2>3. QED
          BY <1>2, <2>1, <2>2 DEF ConnInv
  <1>3. CASE up
        BY <1>1, <1>2, <1>3, StepOf
  <1>4. CASE ~up
    <2>1. \A d \in Conn : ChildHolds(d)'
      <3>1. ASSUME NEW d \in Conn, d # c PROVE ChildHolds(d)'
            BY <3>1 DEF HttpInv, OthersSame, Same, ChildHolds, inr, outw
      <3>2. QED
            BY <3>1
    <2>2. \A d \in Conn : pc'[d] = "idle" => req'[d] = NoReq
          BY DEF HttpInv
    <2>3. QED
          BY <1>4, <2>1, <2>2 DEF HttpInv
  <1>5. QED
        BY <1>3, <1>4

LEMMA ExitsIs ==
  ASSUME HttpTypes, NEW c \in Conn, Exits(c)
  PROVE  /\ open' \in [Procs -> SUBSET (Conn \X Ends)]
         /\ open'[Server] = open[Server] /\ \A d \in Conn \ {c} : open'[d] = open[d]
         /\ child' \in [Conn -> {"none", "setup", "run", "gone"}]
         /\ child'[c] = "gone" /\ \A d \in Conn \ {c} : child'[d] = child[d]
         /\ ChildHolds(c)'
  <1>1. {} \in SUBSET (Conn \X Ends) /\ open' = [open EXCEPT ![c] = {}]
        /\ child' = [child EXCEPT ![c] = "gone"]
        BY DEF Exits
  <1>2. /\ open' \in [Procs -> SUBSET (Conn \X Ends)]
        /\ open'[Server] = open[Server] /\ \A d \in Conn \ {c} : open'[d] = open[d]
        BY <1>1, OpenChild
  <1>3. /\ child' \in [Conn -> {"none", "setup", "run", "gone"}]
        /\ child'[c] = "gone" /\ \A d \in Conn \ {c} : child'[d] = child[d]
        BY <1>1 DEF HttpTypes
  <1>4. QED
        BY <1>2, <1>3 DEF ChildHolds

LEMMA StatusSentKeeps ==
  ASSUME HttpInv, NEW c \in Conn, ChildStarts(c), status' = [status EXCEPT ![c] = Append(@, 200)],
         \/ /\ req[c].target = "exec"
            /\ child' = [child EXCEPT ![c] = "run"]
            /\ open' = [open EXCEPT ![c] = @ \ {outr(c), inw(c)}]
            /\ toRead' = [toRead EXCEPT ![c] = Reads(req[c])]
            /\ toWrite' = [toWrite EXCEPT ![c] = OutLen]
         \/ req[c].target # "exec" /\ Exits(c) /\ UNCHANGED <<toRead, toWrite>>
  PROVE  HttpInv'
  <1>1. /\ child[c] = "setup" /\ status' = [status EXCEPT ![c] = Append(@, 200)]
        /\ UNCHANGED <<pc, req, got, gone, up, left, inq, outq>>
        BY DEF ChildStarts
  <1>2. HttpTypes /\ ChildHolds(c)
        BY DEF HttpInv
  <1>3. /\ status' \in [Conn -> Seq(Nat)] /\ status'[c] = Append(status[c], 200)
        /\ \A d \in Conn \ {c} : status'[d] = status[d]
        BY <1>1, <1>2 DEF HttpTypes
  <1>4. ASSUME up, child'[c] \in {"run", "gone"} PROVE During(c)' /\ ConnInv(c) /\ pc[c] \in {"parent", "feed", "relay"}
    <2>1. ConnInv(c) /\ pc[c] \in {"parent", "feed", "relay"}
          BY <1>1, <1>4, ServerHolds DEF HttpInv
    <2>2. During(c)'
      <3>1. status[c] = IF pc[c] = "parent" THEN <<>> ELSE <<200>>
            BY <1>1, <2>1 DEF ConnInv, During, Silent
      <3>2. status'[c] = IF pc[c] = "parent" THEN <<200>> ELSE <<200, 200>>
            BY <1>3, <3>1, AppendOne
      <3>3. child'[c] # "setup" /\ child'[c] # "none" /\ pc[c] # "reap" /\ pc' = pc
            BY <1>1, <1>4, <2>1
      <3>4. QED
            BY <3>2, <3>3 DEF During
    <2>3. QED
          BY <2>1, <2>2
  <1>5. CASE /\ req[c].target = "exec"
             /\ child' = [child EXCEPT ![c] = "run"]
             /\ open' = [open EXCEPT ![c] = @ \ {outr(c), inw(c)}]
             /\ toRead' = [toRead EXCEPT ![c] = Reads(req[c])]
             /\ toWrite' = [toWrite EXCEPT ![c] = OutLen]
    <2> DEFINE S == open[c] \ {outr(c), inw(c)}
    <2>1. S \in SUBSET (Conn \X Ends)
          BY <1>2, OpenTypes
    <2>2. open' = [open EXCEPT ![c] = S]
          BY <1>5
    <2> HIDE DEF S
    <2>3. /\ open' \in [Procs -> SUBSET (Conn \X Ends)] /\ open'[c] = S
          /\ open'[Server] = open[Server] /\ \A d \in Conn \ {c} : open'[d] = open[d]
          BY <1>2, <2>1, <2>2, OpenChild
    <2>4. Reads(req[c]) \in Int /\ OutLen \in Int
          BY <1>2, LenIsInt DEF Reads
    <2>5. /\ child'[c] = "run" /\ toRead'[c] = Reads(req[c]) /\ toWrite'[c] = OutLen
          /\ \A d \in Conn \ {c} : child'[d] = child[d] /\ toRead'[d] = toRead[d] /\ toWrite'[d] = toWrite[d]
          BY <1>2, <1>5 DEF HttpTypes
    <2>6. HttpTypes'
          BY <1>1, <1>2, <1>3, <1>5, <2>3, <2>4 DEF HttpTypes
    <2>7. OthersSame(c)
          BY <1>1, <1>3, <2>3, <2>5 DEF OthersSame, Same
    <2>8. ChildHolds(c)'
      <3>1. inr(c) # outr(c) /\ inr(c) # inw(c) /\ outw(c) # outr(c) /\ outw(c) # inw(c)
            BY DEF inr, outr, inw, outw
      <3>2. inr(c) \in open'[c] /\ outw(c) \in open'[c]
            BY <1>1, <1>2, <2>3, <3>1 DEF ChildHolds, S
      <3>3. QED
            BY <3>2 DEF ChildHolds, inr, outw
    <2>9. ASSUME up PROVE Input(c)' /\ Output(c)'
      <3>1. ConnInv(c) /\ pc[c] \in {"parent", "feed", "relay"}
            BY <1>4, <2>5, <2>9
      <3>2. Input(c)'
        <4>1. Posts(req[c]) /\ req[c].prog \in {"drain", "echo"} => Reads(req[c]) = req[c].len
              BY DEF Reads, Posts
        <4>2. ~Posts(req[c]) /\ req[c].prog \in {"drain", "echo"} => Reads(req[c]) = 0
              BY DEF Reads, Posts
        <4>3. req[c].prog = "eof" => Reads(req[c]) = 1
              BY DEF Reads
        <4>4. ToFeed(c)' = ToFeed(c) /\ ToTake(c) = req[c].len /\ ToTake(c)' = Reads(req[c])
              BY <1>1, <2>5 DEF ToFeed, ToTake
        <4>5. QED
              BY <1>1, <2>5, <3>1, <4>1, <4>2, <4>3, <4>4 DEF ConnInv, Input, Silent
      <3>3. Output(c)'
        <4>1. req[c].prog = "echo" /\ Posts(req[c]) => Reads(req[c]) = req[c].len
              BY DEF Reads, Posts
        <4>2. ToWrite(c) = OutLen + Extra(req[c])
              BY <1>1 DEF ToWrite
        <4>3. ToWrite(c)' = OutLen + Extra(req[c])
              BY <1>1, <2>5, <4>1 DEF ToWrite, Extra
        <4>4. QED
              BY <1>1, <3>1, <4>2, <4>3 DEF ConnInv, Output, Silent
      <3>4. QED
            BY <3>2, <3>3
    <2>10. QED
           BY <1>1, <1>4, <2>3, <2>5, <2>6, <2>7, <2>8, <2>9, ChildStepOf
  <1>6. CASE req[c].target # "exec" /\ Exits(c) /\ UNCHANGED <<toRead, toWrite>>
    <2>1. /\ open' \in [Procs -> SUBSET (Conn \X Ends)]
          /\ open'[Server] = open[Server] /\ \A d \in Conn \ {c} : open'[d] = open[d]
          /\ child' \in [Conn -> {"none", "setup", "run", "gone"}]
          /\ child'[c] = "gone" /\ \A d \in Conn \ {c} : child'[d] = child[d]
          /\ ChildHolds(c)'
          BY <1>2, <1>6, ExitsIs
    <2>2. HttpTypes'
          BY <1>1, <1>2, <1>3, <1>6, <2>1 DEF HttpTypes
    <2>3. OthersSame(c)
          BY <1>1, <1>3, <1>6, <2>1 DEF OthersSame, Same
    <2>4. ASSUME up PROVE Input(c)' /\ Output(c)'
      <3>1. ConnInv(c)
            BY <1>4, <2>1, <2>4
      <3>2. QED
            BY <1>1, <1>6, <2>1, <3>1 DEF ConnInv, Input, Output
    <2>5. QED
          BY <1>1, <1>4, <2>1, <2>2, <2>3, <2>4, ChildStepOf
  <1>7. QED
        BY <1>5, <1>6

(* The status line ends the child, for the client has left.                *)
LEMMA StatusKillsKeeps ==
  ASSUME HttpInv, NEW c \in Conn, ChildStarts(c), gone[c], Exits(c),
         UNCHANGED <<status, toRead, toWrite>>
  PROVE  HttpInv'
  <1>1. /\ child[c] = "setup"
        /\ UNCHANGED <<pc, req, got, gone, up, left, inq, outq, status, toRead, toWrite>>
        BY DEF ChildStarts
  <1>2. HttpTypes
        BY DEF HttpInv
  <1>3. /\ open' \in [Procs -> SUBSET (Conn \X Ends)]
        /\ open'[Server] = open[Server] /\ \A d \in Conn \ {c} : open'[d] = open[d]
        /\ child' \in [Conn -> {"none", "setup", "run", "gone"}]
        /\ child'[c] = "gone" /\ \A d \in Conn \ {c} : child'[d] = child[d]
        /\ ChildHolds(c)'
        BY <1>2, ExitsIs
  <1>4. HttpTypes' /\ OthersSame(c)
        BY <1>1, <1>2, <1>3 DEF HttpTypes, OthersSame, Same
  <1>5. ASSUME up PROVE During(c)' /\ Input(c)' /\ Output(c)'
    <2>1. ConnInv(c) /\ pc[c] \in {"parent", "feed", "relay"}
          BY <1>1, <1>5, ServerHolds DEF HttpInv
    <2>2. Silent(c)'
          BY <1>1, <1>3, <2>1 DEF ConnInv, During, Silent
    <2>3. During(c)'
          BY <1>1, <1>3, <2>1, <2>2 DEF ConnInv, During
    <2>4. Input(c)'
          BY <1>1, <1>3, <2>1, <2>2 DEF ConnInv, Input
    <2>5. Output(c)'
          BY <1>1, <2>1, <2>2 DEF ConnInv, Output
    <2>6. QED
          BY <2>3, <2>4, <2>5
  <1>6. QED
        BY <1>1, <1>3, <1>4, <1>5, ChildStepOf

LEMMA ChildStartsKeeps ==
  ASSUME HttpInv, NEW c \in Conn, ChildStarts(c) PROVE HttpInv'
  <1>1. CASE status' = [status EXCEPT ![c] = Append(@, 200)]
             /\ \/ /\ req[c].target = "exec"
                   /\ child' = [child EXCEPT ![c] = "run"]
                   /\ open' = [open EXCEPT ![c] = @ \ {outr(c), inw(c)}]
                   /\ toRead' = [toRead EXCEPT ![c] = Reads(req[c])]
                   /\ toWrite' = [toWrite EXCEPT ![c] = OutLen]
                \/ req[c].target # "exec" /\ Exits(c) /\ UNCHANGED <<toRead, toWrite>>
        BY <1>1, StatusSentKeeps
  <1>2. CASE gone[c] /\ Exits(c) /\ UNCHANGED <<status, toRead, toWrite>>
        BY <1>2, StatusKillsKeeps
  <1>3. QED
        BY <1>1, <1>2 DEF ChildStarts

LEMMA ChildReadsKeeps ==
  ASSUME HttpInv, NEW c \in Conn, ChildReads(c) PROVE HttpInv'
  <1>1. /\ child[c] = "run" /\ toRead[c] > 0
        /\ UNCHANGED <<open, pc, req, status, got, gone, up, left, outq, child>>
        BY DEF ChildReads
  <1>2. HttpTypes /\ ChildHolds(c)
        BY DEF HttpInv
  <1>3. inq[c] \in Nat /\ toRead[c] \in Int /\ toWrite[c] \in Int
        BY <1>2 DEF HttpTypes
  <1>4. ChildHolds(c)'
        BY <1>1, <1>2 DEF ChildHolds, inr, outw
  <1>5. up => ConnInv(c) /\ pc[c] \in {"parent", "feed", "relay"} /\ Held(inw(c)) /\ During(c)'
        BY <1>1, ServerHolds DEF HttpInv, ConnInv, During, Silent
  <1>6. CASE /\ inq[c] > 0
             /\ inq' = [inq EXCEPT ![c] = @ - 1]
             /\ toRead' = [toRead EXCEPT ![c] = IF req[c].prog = "eof" THEN @ ELSE @ - 1]
             /\ toWrite' = [toWrite EXCEPT ![c] = IF req[c].prog = "echo" THEN @ + 1 ELSE @]
    <2>1. /\ inq'[c] = inq[c] - 1 /\ inq[c] - 1 \in Nat
          /\ toRead'[c] = (IF req[c].prog = "eof" THEN toRead[c] ELSE toRead[c] - 1)
          /\ toWrite'[c] = (IF req[c].prog = "echo" THEN toWrite[c] + 1 ELSE toWrite[c])
          /\ \A d \in Conn \ {c} : inq'[d] = inq[d] /\ toRead'[d] = toRead[d] /\ toWrite'[d] = toWrite[d]
          BY <1>2, <1>3, <1>6 DEF HttpTypes
    <2>2. /\ inq' \in [Conn -> Nat] /\ toRead' \in [Conn -> Int] /\ toWrite' \in [Conn -> Int]
      <3>1. /\ (IF req[c].prog = "eof" THEN toRead[c] ELSE toRead[c] - 1) \in Int
            /\ (IF req[c].prog = "echo" THEN toWrite[c] + 1 ELSE toWrite[c]) \in Int
            BY <1>3
      <3>2. QED
            BY <1>2, <1>6, <2>1, <3>1 DEF HttpTypes
    <2>3. HttpTypes'
          BY <1>1, <1>2, <2>2 DEF HttpTypes
    <2>4. OthersSame(c)
          BY <1>1, <2>1 DEF OthersSame, Same
    <2>5. ASSUME up PROVE Input(c)' /\ Output(c)'
      <3>1. ConnInv(c) /\ pc[c] \in {"parent", "feed", "relay"}
            BY <1>5, <2>5
      <3>2. Posts(req[c]) \/ req[c].prog \notin {"drain", "echo"}
            BY <1>1, <1>3, <3>1 DEF ConnInv, Input, Silent
      <3>3. Input(c)'
        <4>1. ToFeed(c)' = ToFeed(c) /\ ToTake(c) = toRead[c] /\ ToTake(c)' = toRead'[c]
              BY <1>1 DEF ToFeed, ToTake
        <4>2. ToFeed(c) \in Int
              BY <1>2, LenIsInt DEF ToFeed, HttpTypes
        <4>3. QED
              BY <1>1, <1>3, <2>1, <3>1, <3>2, <4>1, <4>2 DEF ConnInv, Input, Silent
      <3>4. Output(c)'
        <4>1. ToWrite(c)' = ToWrite(c)
              BY <1>1, <1>3, <2>1, <3>2 DEF ToWrite
        <4>2. QED
              BY <1>1, <3>1, <4>1 DEF ConnInv, Output, Silent
      <3>5. QED
            BY <3>3, <3>4
    <2>6. QED
          BY <1>1, <1>4, <1>5, <2>3, <2>4, <2>5, ChildStepOf
  <1>7. CASE /\ ~Held(inw(c)) /\ toRead' = [toRead EXCEPT ![c] = 0]
             /\ UNCHANGED <<inq, toWrite>>
    <2>1. HttpTypes'
          BY <1>1, <1>2, <1>7 DEF HttpTypes
    <2>2. OthersSame(c)
          BY <1>1, <1>2, <1>7 DEF HttpTypes, OthersSame, Same
    <2>3. QED
          BY <1>1, <1>4, <1>5, <1>7, <2>1, <2>2, ChildStepOf
  <1>8. QED
        BY <1>6, <1>7 DEF ChildReads

LEMMA ChildWritesKeeps ==
  ASSUME HttpInv, NEW c \in Conn, ChildWrites(c) PROVE HttpInv'
  <1>1. /\ child[c] = "run"
        /\ UNCHANGED <<pc, req, status, got, gone, up, left, inq, toRead>>
        BY DEF ChildWrites
  <1>2. HttpTypes /\ ChildHolds(c)
        BY DEF HttpInv
  <1>3. outq[c] \in Int /\ toWrite[c] \in Int /\ toRead[c] \in Int /\ got[c] \in Int
        BY <1>2 DEF HttpTypes
  <1>4. up => ConnInv(c) /\ pc[c] \in {"parent", "feed", "relay"} /\ Held(outr(c))
        BY <1>1, ServerHolds DEF HttpInv
  <1>5. CASE /\ outq' = [outq EXCEPT ![c] = @ + 1]
             /\ toWrite' = [toWrite EXCEPT ![c] = @ - 1]
             /\ UNCHANGED <<open, child>>
    <2>1. /\ outq' \in [Conn -> Int] /\ toWrite' \in [Conn -> Int]
          /\ outq'[c] = outq[c] + 1 /\ toWrite'[c] = toWrite[c] - 1
          /\ \A d \in Conn \ {c} : outq'[d] = outq[d] /\ toWrite'[d] = toWrite[d]
          BY <1>2, <1>3, <1>5 DEF HttpTypes
    <2>2. HttpTypes'
          BY <1>1, <1>2, <1>5, <2>1 DEF HttpTypes
    <2>3. OthersSame(c) /\ ChildHolds(c)'
          BY <1>1, <1>2, <1>5, <2>1 DEF OthersSame, Same, ChildHolds, inr, outw
    <2>4. ASSUME up PROVE During(c)' /\ Input(c)' /\ Output(c)'
      <3>1. ConnInv(c)
            BY <1>4, <2>4
      <3>2. During(c)' /\ Input(c)'
            BY <1>1, <1>5, <3>1 DEF ConnInv, During, Input, ToFeed, ToTake, Silent
      <3>3. Output(c)'
        <4>1. outq'[c] + ToWrite(c)' = outq[c] + ToWrite(c) /\ ToWrite(c) \in Int /\ ToWrite(c)' \in Int
              BY <1>1, <1>3, <1>5, <2>1 DEF ToWrite
        <4>2. pc[c] # "reap"
              BY <1>4, <2>4
        <4>3. got[c] + outq'[c] + ToWrite(c)' = got[c] + outq[c] + ToWrite(c)
              BY <4>1, <1>3, <2>1
        <4>4. QED
              BY <1>1, <3>1, <4>2, <4>3 DEF ConnInv, Output, Silent
      <3>4. QED
            BY <3>2, <3>3
    <2>5. QED
          BY <1>1, <1>5, <2>2, <2>3, <2>4, ChildStepOf
  <1>6. CASE ~Held(outr(c)) /\ Exits(c) /\ UNCHANGED <<outq, toWrite>>
    <2>1. /\ open' \in [Procs -> SUBSET (Conn \X Ends)]
          /\ open'[Server] = open[Server] /\ \A d \in Conn \ {c} : open'[d] = open[d]
          /\ child' \in [Conn -> {"none", "setup", "run", "gone"}]
          /\ child'[c] = "gone" /\ \A d \in Conn \ {c} : child'[d] = child[d]
          /\ ChildHolds(c)'
          BY <1>2, <1>6, ExitsIs
    <2>2. HttpTypes'
          BY <1>1, <1>2, <1>6, <2>1 DEF HttpTypes
    <2>3. OthersSame(c)
          BY <1>1, <1>6, <2>1 DEF OthersSame, Same
    <2>4. QED
          BY <1>1, <1>4, <1>6, <2>1, <2>2, <2>3, ChildStepOf
  <1>7. QED
        BY <1>5, <1>6 DEF ChildWrites

LEMMA ChildExitsKeeps ==
  ASSUME HttpInv, NEW c \in Conn, ChildExits(c) PROVE HttpInv'
  <1>1. /\ child[c] = "run" /\ toRead[c] = 0 /\ toWrite[c] = 0 /\ Exits(c)
        /\ UNCHANGED <<pc, req, status, got, gone, up, left, inq, outq, toRead, toWrite>>
        BY DEF ChildExits
  <1>2. HttpTypes
        BY DEF HttpInv
  <1>3. /\ open' \in [Procs -> SUBSET (Conn \X Ends)]
        /\ open'[Server] = open[Server] /\ \A d \in Conn \ {c} : open'[d] = open[d]
        /\ child' \in [Conn -> {"none", "setup", "run", "gone"}]
        /\ child'[c] = "gone" /\ \A d \in Conn \ {c} : child'[d] = child[d]
        /\ ChildHolds(c)'
        BY <1>1, <1>2, ExitsIs
  <1>4. HttpTypes' /\ OthersSame(c)
        BY <1>1, <1>2, <1>3 DEF HttpTypes, OthersSame, Same
  <1>5. ASSUME up PROVE During(c)' /\ Input(c)' /\ Output(c)'
    <2>1. ConnInv(c)
          BY <1>5 DEF HttpInv
    <2>2. During(c)'
          BY <1>1, <1>3, <2>1 DEF ConnInv, During, Silent
    <2>3. ToTake(c) = 0 /\ ToTake(c)' = 0 /\ ToFeed(c)' = ToFeed(c)
          BY <1>1, <1>3 DEF ToTake, ToFeed
    <2>4. Input(c)'
          BY <1>1, <1>3, <2>1, <2>3 DEF ConnInv, Input, Silent
    <2>5. ToWrite(c) = 0 /\ ToWrite(c)' = 0
          BY <1>1, <1>3 DEF ToWrite
    <2>6. Output(c)'
          BY <1>1, <2>1, <2>5 DEF ConnInv, Output, Silent
    <2>7. QED
          BY <2>2, <2>4, <2>6
  <1>6. QED
        BY <1>1, <1>3, <1>4, <1>5, ChildStepOf

LEMMA HttpStepKeeps ==
  ASSUME HttpInv, [Next]_httpVars PROVE HttpInv'
  <1>1. ASSUME NEW c \in Conn, ServerStep(c) PROVE HttpInv'
        BY <1>1, HttpAcceptKeeps, RequestKeeps, FileKeeps, CloseKeeps, PipesKeep, ForkKeeps, ParentKeeps,
           FeedKeeps, FeedEndsKeeps, RelayKeeps, RelayEndsKeeps, ReapKeeps DEF ServerStep
  <1>2. ASSUME NEW c \in Conn, ChildStep(c) PROVE HttpInv'
        BY <1>2, ChildStartsKeeps, ChildReadsKeeps, ChildWritesKeeps, ChildExitsKeeps DEF ChildStep
  <1>3. CASE UNCHANGED httpVars
    <2>1. /\ UNCHANGED <<open, pc, req, status, left, inq, outq, got, child, toRead, toWrite, gone, up>>
          BY <1>3 DEF httpVars
    <2>2. \A d \in Conn : Mine(d)' = Mine(d)
          BY <2>1, MineKept
    <2>3. up => \A d \in Conn : ConnInv(d)'
          BY <2>1, <2>2, SameKeeps DEF HttpInv, Same
    <2>4. HttpTypes' /\ (\A d \in Conn : ChildHolds(d)')
          BY <2>1 DEF HttpInv, HttpTypes, ChildHolds, inr, outw
    <2>5. QED
          BY <2>1, <2>3, <2>4 DEF HttpInv
  <1>4. QED
        BY <1>1, <1>2, <1>3, ConnectKeeps, LeavesKeeps DEF Next

(* The inductive invariant of the HTTP server.                             *)
LEMMA HttpInvHolds == Init /\ [][Next]_httpVars => []HttpInv
  <1>1. Init => HttpInv
        BY HttpInitially
  <1>2. HttpInv /\ [Next]_httpVars => HttpInv'
        BY HttpStepKeeps
  <1>3. QED
        BY <1>1, <1>2, PTL

(* What the process holds for a connection is what it may hold.            *)
LEMMA HoldsNoMore ==
  ASSUME HttpInv, up, NEW d \in Conn PROVE Mine(d) \subseteq MayHold(d)
  <1>1. pc[d] \in Places /\ Descriptors(d) /\ Mine(d) \subseteq Ends
        BY DEF HttpInv, HttpTypes, ConnInv, Mine
  <1>2. CASE pc[d] \in {"idle", "queued", "start", "lost"}
        BY <1>1, <1>2 DEF Descriptors, MayHold
  <1>3. CASE pc[d] = "done"
        BY <1>1, <1>3 DEF Descriptors, MayHold, Ends
  <1>4. CASE pc[d] \in {"pipes", "fork", "parent", "feed", "relay", "reap", "close"}
        BY <1>1, <1>4 DEF MayHold, Ends
  <1>5. QED
        BY <1>1, <1>2, <1>3, <1>4 DEF Places

LEMMA TableIsFull ==
  ASSUME HttpInv, up, NEW c \in Conn, Full(c), nofile \in Nat
  PROVE  Cardinality(InUse) >= nofile
  <1> DEFINE kinds == {"sock", "outr", "outw", "inr", "inw", "file"}
             all == Conn \X kinds
             taken == open[Server] \cup Files(c)
  <1>1. IsFiniteSet(all)
    <2>1. IsFiniteSet(kinds)
      <3>1. kinds = ({"sock", "outr"} \cup {"outw", "inr"}) \cup {"inw", "file"}
            OBVIOUS
      <3>2. \A x, y : IsFiniteSet({x, y})
        <4>1. TAKE x, y
        <4>2. IsFiniteSet({x}) /\ IsFiniteSet({y}) /\ {x, y} = {x} \cup {y}
              BY FS_Singleton
        <4>3. QED
              BY <4>2, FS_Union
      <3> HIDE DEF kinds
      <3>3. QED
            BY <3>1, <3>2, FS_Union
    <2> HIDE DEF kinds
    <2>2. QED
          BY <2>1, HttpAssumption, FS_Product
  <1>2. IsFiniteSet(InUse) /\ Cardinality(InUse) \in Nat
    <2>1. InUse \subseteq all
          BY DEF InUse
    <2>2. QED
          BY <1>1, <2>1, FS_Subset, FS_CardinalityType
  <1>3. ASSUME NEW fd \in open[Server] PROVE fd \in InUse
    <2>1. open[Server] \in SUBSET (Conn \X Ends)
          BY OpenTypes DEF HttpInv
    <2>2. PICK d \in Conn, e \in Ends : fd = <<d, e>>
          BY <1>3, <2>1
    <2>3. e \in Mine(d)
          BY <1>3, <2>2 DEF Mine
    <2>4. e \in MayHold(d) /\ e \in kinds
          BY <2>3, HoldsNoMore DEF Ends
    <2>5. QED
          BY <2>2, <2>4 DEF InUse
  <1>4. ASSUME NEW fd \in Files(c) PROVE fd \in InUse
    <2>1. PICK d \in Conn : pc[d] = "start" /\ fd = <<d, "file">>
          BY <1>4 DEF Files
    <2>2. "file" \in MayHold(d)
          BY <2>1 DEF MayHold
    <2>3. QED
          BY <2>1, <2>2 DEF InUse
  <1>5. taken \subseteq InUse
        BY <1>3, <1>4
  <1>6. Cardinality(taken) >= nofile
        BY DEF Full
  <1>7. IsFiniteSet(taken) /\ Cardinality(taken) <= Cardinality(InUse) /\ Cardinality(taken) \in Nat
        BY <1>2, <1>5, FS_Subset, FS_CardinalityType
  <1> HIDE DEF taken
  <1>8. QED
        BY <1>2, <1>6, <1>7

(* A page takes the server down only if the client has left.               *)
LEMMA ReplyKills ==
  ASSUME NEW c, NEW code, NEW next, NEW K, Reply(c, code, next, K), up, ~up'
  PROVE  gone[c]
  BY DEF Reply

Causes ==
  \/ \E c \in Conn : gone[c] \/ ~Harmless(req[c])
  \/ \E c \in Unlucky : pc[c] = "queued"
  \/ Cardinality(InUse) >= nofile

LEMMA DownHasCause ==
  ASSUME HttpInv, nofile \in Nat, Next, up, ~up' PROVE Causes
  <1>1. PICK c \in Conn : Connect(c) \/ ClientLeaves(c) \/ ServerStep(c) \/ ChildStep(c)
        BY DEF Next
  <1>2. ~Connect(c) /\ ~ClientLeaves(c) /\ ~ChildStep(c)
        BY DEF Connect, ClientLeaves, ChildStep, ChildStarts, ChildReads, ChildWrites, ChildExits
  <1>3. CASE Accept(c)
    <2>1. pc[c] = "queued" /\ (gone[c] \/ Full(c) \/ c \in Unlucky)
          BY <1>3 DEF Accept
    <2>2. QED
          BY <2>1, TableIsFull DEF Causes
  <1>4. CASE accept_request(c)
        BY <1>4, ReplyKills DEF accept_request, unimplemented, not_found, bad_request, Causes
  <1>5. CASE serve_file(c)
    <2>1. headers(c) \/ not_found(c) \/ req[c].target = "unreadable" \/ Full(c)
          BY <1>5 DEF serve_file
    <2>2. CASE headers(c) \/ not_found(c)
          BY <2>2, ReplyKills DEF headers, not_found, Causes
    <2>3. CASE req[c].target = "unreadable"
          BY <2>3 DEF Causes, Harmless
    <2>4. CASE Full(c)
          BY <2>4, TableIsFull DEF Causes
    <2>5. QED
          BY <2>1, <2>2, <2>3, <2>4
  <1>6. CASE MakePipes(c) \/ Fork(c)
        BY <1>6, ReplyKills DEF MakePipes, Fork, cannot_execute, Causes
  <1>7. CASE ParentStarts(c)
        BY <1>7 DEF ParentStarts, Causes
  <1>8. CASE FeedByte(c)
    <2>1. pc[c] = "feed" /\ left[c] > 0 /\ ~Held(inr(c))
          BY <1>8 DEF FeedByte
    <2>2. QED
          BY <2>1, NoReaderHasCause DEF Causes
  <1>9. CASE RelayByte(c)
        BY <1>9 DEF RelayByte, Causes
  <1>10. ~close_client(c) /\ ~FeedEnds(c) /\ ~RelayEnds(c) /\ ~Reap(c)
         BY DEF close_client, FeedEnds, RelayEnds, Reap
  <1>11. QED
         BY <1>1, <1>2, <1>3, <1>4, <1>5, <1>6, <1>7, <1>8, <1>9, <1>10 DEF ServerStep

(* httpd.c goes down only from outside, for any number of connections and   *)
(* any limit of descriptors: a client has left, a program does not read    *)
(* its input, a file cannot be opened, the system has no room, or the      *)
(* connections under way and those that leak fill the descriptor table.    *)
(* However the threads and the forked processes interleave, no write finds *)
(* a pipe without a reader, and no handler holds more than MayHold.        *)
THEOREM ServerStaysUp == Init /\ [][Next]_httpVars => StaysUp
  <1>1. Init => nofile \in Nat
        BY HttpAssumption DEF Init
  <1>2. nofile \in Nat /\ [Next]_httpVars => (nofile \in Nat)'
        BY DEF Next, httpVars
  <1>3. HttpInv /\ nofile \in Nat /\ [Next]_httpVars =>
          [up /\ ~up' =>
             \/ \E c \in Conn : gone[c] \/ ~Harmless(req[c])
             \/ \E c \in Unlucky : pc[c] = "queued"
             \/ Cardinality(InUse) >= nofile]_httpVars
        BY DownHasCause DEF Causes
  <1>4. QED
        BY <1>1, <1>2, <1>3, HttpInvHolds, PTL DEF StaysUp

(* A handler that returns has closed what it opened, but for the socket    *)
(* after an unknown method and the pipes of an execute_cgi that gives up.  *)
THEOREM HandlersClose == Init /\ [][Next]_httpVars => []DescriptorsClosed
  <1>1. ASSUME HttpInv PROVE DescriptorsClosed
    <2>1. SUFFICES ASSUME NEW c \in Conn, up, pc[c] = "done"
                   PROVE  CASE status[c] = <<501>> -> open[Server] \cap Fds(c) = {sock(c)}
                            [] status[c] = <<500>> -> sock(c) \notin open[Server]
                            [] OTHER -> open[Server] \cap Fds(c) = {}
          BY DEF DescriptorsClosed
    <2>2. Descriptors(c)
          BY <1>1, <2>1 DEF HttpInv, ConnInv
    <2>3. /\ Mine(c) = {"sock"} => open[Server] \cap Fds(c) = {sock(c)}
          /\ Mine(c) = {} => open[Server] \cap Fds(c) = {}
          /\ "sock" \notin Mine(c) => sock(c) \notin open[Server]
      <3>1. \A x : x \in Fds(c) <=> \E e \in Ends : x = <<c, e>>
            BY DEF Fds, Ends
      <3>2. \A e \in Ends : e \in Mine(c) <=> <<c, e>> \in open[Server]
            BY DEF Mine
      <3>3. "sock" \in Ends /\ sock(c) = <<c, "sock">>
            BY DEF Ends, sock
      <3>4. Mine(c) = {"sock"} => open[Server] \cap Fds(c) = {sock(c)}
            BY <3>1, <3>2, <3>3
      <3>5. Mine(c) = {} => open[Server] \cap Fds(c) = {}
            BY <3>1, <3>2
      <3>6. QED
            BY <3>2, <3>3, <3>4, <3>5
    <2>4. QED
          BY <2>1, <2>2, <2>3 DEF Descriptors
  <1>2. QED
        BY <1>1, HttpInvHolds, PTL

(* When a handler is done, its client has got all that the program wrote,  *)
(* or the file but for a last line without a newline.                      *)
THEOREM AnswersAreComplete == Init /\ [][Next]_httpVars => []AnswerComplete
  <1>1. ASSUME HttpInv PROVE AnswerComplete
    <2>1. SUFFICES ASSUME NEW c \in Conn, up, pc[c] = "done"
                   PROVE  /\ status[c] = <<200, 200>> /\ req[c].target = "exec" =>
                               got[c] = OutLen + (IF req[c].prog = "echo" /\ req[c].method = "POST" THEN req[c].len ELSE 0)
                          /\ status[c] = <<200>> =>
                               IF IsCgi(req[c]) THEN gone[c] /\ got[c] = 0
                               ELSE got[c] \in {OutLen, OutLen - 1} /\ (got[c] # OutLen => req[c].prog = "noeol")
          BY DEF AnswerComplete
    <2>2. After(c)
          BY <1>1, <2>1 DEF HttpInv, ConnInv
    <2>3. /\ status[c] = <<200, 200>> => status[c] \notin {<<404>>, <<400>>, <<500>>, <<501>>, <<200>>}
          /\ status[c] = <<200>> => status[c] \notin {<<404>>, <<400>>, <<500>>, <<501>>, <<200, 200>>}
      <3>1. /\ \A x, y \in Nat : <<x, y>> # <<200>>
            OBVIOUS
      <3>2. QED
            BY <3>1
    <2>4. status[c] = <<200>> => IF IsCgi(req[c]) THEN gone[c] /\ got[c] = 0 ELSE got[c] = cat(req[c])
          BY <2>1, <2>2, <2>3 DEF After
    <2>5. status[c] = <<200, 200>> /\ req[c].target = "exec" => got[c] = OutLen + Extra(req[c])
          BY <2>1, <2>2, <2>3 DEF After
    <2>6. QED
          BY <2>4, <2>5 DEF cat, Extra, Posts
  <1>2. QED
        BY <1>1, HttpInvHolds, PTL

-----------------------------------------------------------------------------
(* The timer manager.                                                      *)
Entry == [time : Nat, id : Ids]
TimerRec == [period : Nat, repeat : Int, total : Int, born : Int, calls : Nat]

ManagerTypes ==
  /\ clock \in Nat
  /\ m_timers \in Seq(Entry)
  /\ timer \in [Ids -> TimerRec]
  /\ upd \in [on : BOOLEAN, now : Nat, it : Nat]

(* The map is ordered by time and has one entry for a timer at most.  The  *)
(* loop of update never leaves begin(): what it puts back comes behind all *)
(* that is due before it.                                                  *)
Ordered(s) == \A j, k \in 1 .. Len(s) : j <= k => s[j].time <= s[k].time
OneEach(s) == \A j, k \in 1 .. Len(s) : s[j].id = s[k].id => j = k
InMap(s, i) == \E k \in 1 .. Len(s) : s[k].id = i

(* What is left of a timer's limit, and when it was called last.           *)
Exists(i) == timer[i].born >= 0
TimerTrue(i) ==
  /\ timer[i].period > 0
  /\ timer[i].born <= clock
  /\ upd.on => timer[i].born <= upd.now
  /\ timer[i].total < 0 => timer[i].repeat = timer[i].total
  /\ timer[i].total >= 0 =>
       timer[i].repeat = timer[i].total - timer[i].calls /\ timer[i].repeat >= 0
  /\ timer[i].calls >= 1 =>
       timer[i].born + (timer[i].calls - 1) * timer[i].period <= upd.now
  /\ ~InMap(m_timers, i) => timer[i].repeat = 0

(* An entry has the time of its timer's next call.                         *)
EntryTrue(e) ==
  /\ Exists(e.id)
  /\ e.time = timer[e.id].born + timer[e.id].calls * timer[e.id].period

ManagerInv ==
  /\ ManagerTypes
  /\ upd.it = 1 /\ upd.now <= clock
  /\ Ordered(m_timers) /\ OneEach(m_timers)
  /\ \A i \in Ids : timer[i] = NoTimer \/ Exists(i)
  /\ \A i \in Ids : Exists(i) => TimerTrue(i)
  /\ \A k \in 1 .. Len(m_timers) : EntryTrue(m_timers[k])

-----------------------------------------------------------------------------
(* Division.                                                               *)
LEMMA Times ==
  ASSUME NEW c \in Nat, NEW p \in Nat
  PROVE  c * p \in Nat /\ (c + 1) * p = c * p + p /\ 0 * p = 0
  OBVIOUS

LEMMA Quotient ==
  ASSUME NEW d \in Nat, NEW p \in Nat \ {0}
  PROVE  /\ d \div p \in Nat
         /\ (d \div p) * p <= d /\ d < (d \div p) * p + p
  OBVIOUS

LEMMA AtLeast ==
  ASSUME NEW d \in Nat, NEW p \in Nat \ {0}, NEW c \in Nat, c * p <= d
  PROVE  c <= d \div p
  <1> DEFINE q == d \div p
  <1>1. q \in Nat /\ d < q * p + p
        BY Quotient
  <1> HIDE DEF q
  <1>2. SUFFICES ASSUME q + 1 <= c PROVE FALSE
        BY <1>1 DEF q
  <1>3. (q + 1) * p <= c * p
        BY <1>1, <1>2
  <1>4. (q + 1) * p = q * p + p
        BY <1>1
  <1>5. q * p \in Nat /\ c * p \in Nat
        BY <1>1
  <1>6. QED
        BY <1>1, <1>3, <1>4, <1>5

LEMMA Exactly ==
  ASSUME NEW d \in Nat, NEW p \in Nat \ {0}, NEW c \in Nat, c * p <= d, d < c * p + p
  PROVE  d \div p = c
  <1> DEFINE q == d \div p
  <1>1. q \in Nat /\ q * p <= d /\ c <= q
        BY Quotient, AtLeast
  <1> HIDE DEF q
  <1>2. SUFFICES ASSUME c + 1 <= q PROVE FALSE
        BY <1>1 DEF q
  <1>3. (c + 1) * p <= q * p
        BY <1>1, <1>2
  <1>4. (c + 1) * p = c * p + p /\ q * p \in Nat /\ c * p \in Nat
        BY <1>1
  <1>5. QED
        BY <1>1, <1>3, <1>4

-----------------------------------------------------------------------------
(* multimap::insert.                                                       *)
LEMMA EntriesAre ==
  ASSUME NEW s \in Seq(Entry)
  PROVE  /\ Len(s) \in Nat
         /\ \A k \in 1 .. Len(s) : s[k] \in Entry /\ s[k].time \in Nat /\ s[k].id \in Ids
  <1>1. Len(s) \in Nat /\ \A k \in 1 .. Len(s) : s[k] \in Entry
        OBVIOUS
  <1>2. \A e \in Entry : e.time \in Nat /\ e.id \in Ids
        BY DEF Entry
  <1>3. QED
        BY <1>1, <1>2

LEMMA PositionIs ==
  ASSUME NEW s \in Seq(Entry), Ordered(s), NEW time \in Nat
  PROVE  /\ Position(s, time) \in 1 .. (Len(s) + 1)
         /\ \A k \in 1 .. Len(s) : k < Position(s, time) <=> s[k].time <= time
  <1> DEFINE before == {k \in 1 .. Len(s) : s[k].time <= time}
  <1>0. Len(s) \in Nat /\ \A k \in 1 .. Len(s) : s[k].time \in Nat
        BY EntriesAre
  <1>1. CASE before = {}
    <2>1. Position(s, time) = 1
          BY <1>1 DEF Position
    <2>2. QED
          BY <1>0, <1>1, <2>1
  <1>2. CASE before # {}
    <2>1. before \in SUBSET (0 .. Len(s))
          BY <1>0
    <2> HIDE DEF before
    <2>2. Max(before) \in before /\ \A j \in before : j <= Max(before)
          BY <1>0, <1>2, <2>1, MaxOfInterval
    <2> DEFINE m == CHOOSE k \in before : \A j \in before : j <= k
    <2>3. m \in before /\ \A j \in before : j <= m
          BY <2>2
    <2>4. Position(s, time) = 1 + m
          BY <1>2 DEF Position, before
    <2> HIDE DEF m
    <2>5. m \in 1 .. Len(s) /\ s[m].time <= time
          BY <2>3 DEF before
    <2>6. ASSUME NEW k \in 1 .. Len(s) PROVE k < 1 + m <=> s[k].time <= time
      <3>1. k <= m => s[k].time <= s[m].time
            BY <2>5 DEF Ordered
      <3>2. s[k].time <= time => k <= m
            BY <2>3 DEF before
      <3>3. s[k].time \in Nat /\ s[m].time \in Nat
            BY <1>0, <2>5
      <3>4. QED
            BY <2>5, <3>1, <3>2, <3>3
    <2>7. QED
          BY <1>0, <2>4, <2>5, <2>6
  <1>3. QED
        BY <1>1, <1>2

LEMMA InsertIs ==
  ASSUME NEW S, NEW s \in Seq(S), NEW n \in 1 .. (Len(s) + 1), NEW e \in S
  PROVE  /\ InsertAt(s, n, e) \in Seq(S)
         /\ Len(InsertAt(s, n, e)) = Len(s) + 1
         /\ \A k \in 1 .. (Len(s) + 1) :
              InsertAt(s, n, e)[k] = IF k < n THEN s[k] ELSE IF k = n THEN e ELSE s[k - 1]
  <1> DEFINE a == SubSeq(s, 1, n - 1)
             b == SubSeq(s, n, Len(s))
             c == a \o <<e>>
  <1>1. Len(s) \in Nat
        OBVIOUS
  <1>2. a \in Seq(S) /\ Len(a) = n - 1 /\ \A k \in 1 .. (n - 1) : a[k] = s[k]
        BY <1>1
  <1>3. b \in Seq(S) /\ Len(b) = Len(s) + 1 - n /\ \A k \in 1 .. Len(b) : b[k] = s[k + n - 1]
        BY <1>1
  <1> HIDE DEF a, b
  <1>4. c \in Seq(S) /\ Len(c) = n /\ c[n] = e /\ \A k \in 1 .. (n - 1) : c[k] = a[k]
        BY <1>1, <1>2
  <1> HIDE DEF c
  <1>5. /\ c \o b \in Seq(S) /\ Len(c \o b) = Len(s) + 1
        /\ \A k \in 1 .. n : (c \o b)[k] = c[k]
        /\ \A k \in (n + 1) .. (Len(s) + 1) : (c \o b)[k] = b[k - n]
        BY <1>1, <1>3, <1>4
  <1>6. \A k \in (n + 1) .. (Len(s) + 1) : b[k - n] = s[k - 1]
    <2> TAKE k \in (n + 1) .. (Len(s) + 1)
    <2>1. k - n \in 1 .. Len(b) /\ (k - n) + n - 1 = k - 1
          BY <1>1, <1>3
    <2>2. QED
          BY <1>3, <2>1
  <1>7. InsertAt(s, n, e) = c \o b
        BY DEF InsertAt, a, b, c
  <1>8. QED
        BY <1>1, <1>2, <1>4, <1>5, <1>6, <1>7

LEMMA RemoveIs ==
  ASSUME NEW S, NEW s \in Seq(S), Len(s) >= 1
  PROVE  /\ RemoveAt(s, 1) \in Seq(S) /\ Len(RemoveAt(s, 1)) = Len(s) - 1
         /\ \A k \in 1 .. (Len(s) - 1) : RemoveAt(s, 1)[k] = s[k + 1]
  <1> DEFINE a == SubSeq(s, 1, 0)
             b == SubSeq(s, 2, Len(s))
  <1>1. Len(s) \in Nat /\ a = <<>>
        OBVIOUS
  <1>2. b \in Seq(S) /\ Len(b) = Len(s) - 1 /\ \A k \in 1 .. (Len(s) - 1) : b[k] = s[k + 1]
    <2>1. b = Tail(s) /\ s # <<>>
          BY <1>1
    <2> HIDE DEF b
    <2>2. QED
          BY <1>1, <2>1, PopFront
  <1>3. RemoveAt(s, 1) = a \o b
        BY DEF RemoveAt
  <1> HIDE DEF a, b
  <1>4. a \o b = b
        BY <1>1, <1>2
  <1>5. QED
        BY <1>2, <1>3, <1>4

LEMMA Inserted ==
  ASSUME NEW s \in Seq(Entry), Ordered(s), OneEach(s),
         NEW time \in Nat, NEW i \in Ids, ~InMap(s, i),
         NEW r, r = InsertAt(s, Position(s, time), [time |-> time, id |-> i])
  PROVE  /\ r \in Seq(Entry) /\ Ordered(r) /\ OneEach(r)
         /\ InMap(r, i) /\ \A j \in Ids : InMap(s, j) => InMap(r, j)
         /\ \A k \in 1 .. Len(r) :
              r[k] = [time |-> time, id |-> i] \/ \E l \in 1 .. Len(s) : r[k] = s[l]
  <1> DEFINE n == Position(s, time)
             e == [time |-> time, id |-> i]
  <1>1. n \in 1 .. (Len(s) + 1) /\ \A k \in 1 .. Len(s) : k < n <=> s[k].time <= time
        BY PositionIs
  <1>2. e \in Entry /\ e.time = time /\ e.id = i /\ Len(s) \in Nat
        BY DEF Entry
  <1>3. \A k \in 1 .. Len(s) : s[k].time \in Nat /\ s[k] \in Entry
        BY EntriesAre
  <1> HIDE DEF n, e
  <1>4. /\ r \in Seq(Entry) /\ Len(r) = Len(s) + 1
        /\ \A k \in 1 .. (Len(s) + 1) :
             r[k] = IF k < n THEN s[k] ELSE IF k = n THEN e ELSE s[k - 1]
    <2>1. r = InsertAt(s, n, e)
          BY DEF n, e
    <2>2. /\ InsertAt(s, n, e) \in Seq(Entry)
          /\ Len(InsertAt(s, n, e)) = Len(s) + 1
          /\ \A k \in 1 .. (Len(s) + 1) :
               InsertAt(s, n, e)[k] = IF k < n THEN s[k] ELSE IF k = n THEN e ELSE s[k - 1]
      <3>1. n \in 1 .. (Len(s) + 1) /\ e \in Entry
            BY <1>1, <1>2
      <3> HIDE DEF Entry
      <3>2. QED
            BY <3>1, InsertIs
    <2>3. QED
          BY <2>1, <2>2
  <1>5. Ordered(r)
    <2> SUFFICES ASSUME NEW j \in 1 .. Len(r), NEW k \in 1 .. Len(r), j <= k
                 PROVE  r[j].time <= r[k].time
        BY DEF Ordered
    <2>1. CASE k < n
          BY <1>1, <1>2, <1>4, <2>1 DEF Ordered
    <2>2. CASE k = n
          BY <1>1, <1>2, <1>3, <1>4, <2>2
    <2>3. CASE k > n
      <3>0. k - 1 \in 1 .. Len(s) /\ ~(k - 1 < n)
            BY <1>1, <1>2, <1>4, <2>3
      <3>1. r[k] = s[k - 1] /\ k - 1 \in 1 .. Len(s) /\ time < s[k - 1].time
            BY <1>1, <1>2, <1>3, <1>4, <2>3, <3>0
      <3>2. CASE j < n
        <4>1. j \in 1 .. Len(s) /\ r[j] = s[j] /\ s[j].time <= time
              BY <1>1, <1>2, <1>4, <3>2
        <4>2. QED
              BY <1>3, <3>1, <4>1
      <3>3. CASE j = n
        <4>1. r[j].time = time
              BY <1>2, <1>4, <3>3
        <4>2. QED
              BY <1>3, <3>1, <4>1
      <3>4. CASE j > n
        <4>1. r[j] = s[j - 1] /\ j - 1 \in 1 .. Len(s) /\ j - 1 <= k - 1
              BY <1>1, <1>2, <1>4, <3>4
        <4>2. QED
              BY <3>1, <4>1 DEF Ordered
      <3>5. QED
            BY <1>1, <3>2, <3>3, <3>4
    <2>4. QED
          BY <1>1, <2>1, <2>2, <2>3
  <1>6. \A k \in 1 .. Len(r) : k # n =>
           LET l == IF k < n THEN k ELSE k - 1
           IN  l \in 1 .. Len(s) /\ r[k] = s[l]
        BY <1>1, <1>2, <1>4
  <1>7. r[n] = e /\ n \in 1 .. Len(r)
        BY <1>1, <1>2, <1>4
  <1>8. OneEach(r)
    <2> SUFFICES ASSUME NEW j \in 1 .. Len(r), NEW k \in 1 .. Len(r), r[j].id = r[k].id
                 PROVE  j = k
        BY DEF OneEach
    <2> DEFINE lj == IF j < n THEN j ELSE j - 1
               lk == IF k < n THEN k ELSE k - 1
    <2>1. CASE j = n \/ k = n
      <3>1. \A l \in 1 .. Len(r) : l # n => r[l].id # i
            BY <1>6 DEF InMap
      <3>2. QED
            BY <1>2, <1>7, <2>1, <3>1
    <2>2. CASE j # n /\ k # n
      <3>1. lj \in 1 .. Len(s) /\ lk \in 1 .. Len(s) /\ r[j] = s[lj] /\ r[k] = s[lk]
            BY <1>6, <2>2
      <3>2. lj = lk
            BY <3>1 DEF OneEach
      <3>3. QED
            BY <1>1, <1>4, <2>2, <3>2
    <2>3. QED
          BY <2>1, <2>2
  <1>9. InMap(r, i)
        BY <1>2, <1>7 DEF InMap
  <1>10. ASSUME NEW j \in Ids, InMap(s, j) PROVE InMap(r, j)
    <2>1. PICK l \in 1 .. Len(s) : s[l].id = j
          BY <1>10 DEF InMap
    <2> DEFINE k == IF l < n THEN l ELSE l + 1
    <2>2. k \in 1 .. Len(r) /\ r[k] = s[l]
      <3>1. l \in 1 .. Len(s) /\ n \in 1 .. (Len(s) + 1) /\ Len(s) \in Nat
            BY <1>1, <1>2
      <3>2. CASE l < n
            BY <1>4, <3>1, <3>2
      <3>3. CASE ~(l < n)
        <4>1. k = l + 1 /\ ~(k < n) /\ k # n /\ k - 1 = l /\ k \in 1 .. (Len(s) + 1)
              BY <3>1, <3>3
        <4>2. QED
              BY <1>4, <4>1
      <3>4. QED
            BY <3>2, <3>3
    <2>3. QED
          BY <2>1, <2>2 DEF InMap
  <1>11. QED
         BY <1>4, <1>5, <1>6, <1>7, <1>8, <1>9, <1>10 DEF e

(* map.erase(begin()).                                                     *)
LEMMA Erased ==
  ASSUME NEW s \in Seq(Entry), Ordered(s), OneEach(s), Len(s) >= 1,
         NEW r, r = RemoveAt(s, 1)
  PROVE  /\ r \in Seq(Entry) /\ Len(r) = Len(s) - 1
         /\ \A k \in 1 .. Len(r) : r[k] = s[k + 1]
         /\ Ordered(r) /\ OneEach(r)
         /\ ~InMap(r, s[1].id)
         /\ \A j \in Ids : InMap(s, j) /\ j # s[1].id => InMap(r, j)
  <1>1. /\ r \in Seq(Entry) /\ Len(r) = Len(s) - 1 /\ Len(s) \in Nat
        /\ \A k \in 1 .. Len(r) : r[k] = s[k + 1]
        BY RemoveIs
  <1>2. \A k \in 1 .. Len(r) : k + 1 \in 1 .. Len(s) /\ r[k] = s[k + 1]
        BY <1>1
  <1>3. Ordered(r)
    <2> SUFFICES ASSUME NEW j \in 1 .. Len(r), NEW k \in 1 .. Len(r), j <= k
                 PROVE  r[j].time <= r[k].time
        BY DEF Ordered
    <2>1. j + 1 <= k + 1
          OBVIOUS
    <2>2. QED
          BY <1>2, <2>1 DEF Ordered
  <1>4. OneEach(r)
    <2> SUFFICES ASSUME NEW j \in 1 .. Len(r), NEW k \in 1 .. Len(r), r[j].id = r[k].id
                 PROVE  j = k
        BY DEF OneEach
    <2>1. j + 1 = k + 1
          BY <1>2 DEF OneEach
    <2>2. QED
          BY <2>1
  <1>5. ~InMap(r, s[1].id)
    <2> SUFFICES ASSUME NEW k \in 1 .. Len(r), r[k].id = s[1].id PROVE FALSE
        BY DEF InMap
    <2>1. k + 1 = 1
          BY <1>1, <1>2 DEF OneEach
    <2>2. QED
          BY <2>1
  <1>6. ASSUME NEW j \in Ids, InMap(s, j), j # s[1].id PROVE InMap(r, j)
    <2>1. PICK k \in 1 .. Len(s) : s[k].id = j
          BY <1>6 DEF InMap
    <2>2. k # 1
          BY <1>6, <2>1
    <2>3. k - 1 \in 1 .. Len(r) /\ r[k - 1] = s[(k - 1) + 1] /\ (k - 1) + 1 = k
          BY <1>1, <2>2
    <2>4. QED
          BY <2>1, <2>3 DEF InMap
  <1>7. QED
        BY <1>1, <1>3, <1>4, <1>5, <1>6

-----------------------------------------------------------------------------
LEMMA TimersAre ==
  ASSUME ManagerTypes, NEW i \in Ids
  PROVE  /\ timer[i] \in TimerRec
         /\ timer[i].period \in Nat /\ timer[i].repeat \in Int /\ timer[i].total \in Int
         /\ timer[i].born \in Int /\ timer[i].calls \in Nat
  BY DEF ManagerTypes, TimerRec

LEMMA ManagerStarts == ManagerInit => ManagerInv
  <1> SUFFICES ASSUME ManagerInit PROVE ManagerInv
      OBVIOUS
  <1>1. NoTimer \in TimerRec /\ NoTimer.born = -1
        BY DEF NoTimer, TimerRec
  <1>2. m_timers = <<>> /\ m_timers \in Seq(Entry) /\ Len(m_timers) = 0
        BY DEF ManagerInit
  <1>3. ManagerTypes
        BY <1>1, <1>2 DEF ManagerInit, ManagerTypes
  <1>4. Ordered(m_timers) /\ OneEach(m_timers)
        BY <1>2 DEF Ordered, OneEach
  <1>5. \A i \in Ids : timer[i] = NoTimer /\ ~Exists(i)
        BY <1>1 DEF ManagerInit, Exists
  <1>6. upd.it = 1 /\ upd.now <= clock
        BY DEF ManagerInit
  <1>7. QED
        BY <1>2, <1>3, <1>4, <1>5, <1>6 DEF ManagerInv

(* A step that leaves timers and map alone, and the clock and the time of  *)
(* update no earlier.                                                      *)
LEMMA ManagerWaits ==
  ASSUME ManagerInv, UNCHANGED <<m_timers, timer>>,
         clock' \in Nat, clock' >= clock, upd'.it = 1,
         upd' \in [on : BOOLEAN, now : Nat, it : Nat],
         upd'.now >= upd.now, upd'.now <= clock',
         upd'.on => upd'.now = clock \/ upd.on
  PROVE  ManagerInv'
  <1> USE DEF ManagerInv
  <1>1. ManagerTypes'
        BY DEF ManagerTypes
  <1>2. Ordered(m_timers)' /\ OneEach(m_timers)'
        BY DEF Ordered, OneEach
  <1>3. \A i \in Ids : Exists(i)' <=> Exists(i)
        BY DEF Exists
  <1>4. ASSUME NEW i \in Ids, Exists(i) PROVE TimerTrue(i)'
    <2>1. TimerTrue(i)
          BY <1>4
    <2>2. InMap(m_timers, i)' <=> InMap(m_timers, i)
          BY DEF InMap
    <2>3. clock \in Nat /\ upd.now \in Nat /\ upd'.now \in Nat
          BY DEF ManagerTypes
    <2>4. timer[i].born + (timer[i].calls - 1) * timer[i].period \in Int
          BY TimersAre
    <2>5. QED
          BY <2>1, <2>2, <2>3, <2>4, TimersAre DEF TimerTrue
  <1>5. \A k \in 1 .. Len(m_timers) : EntryTrue(m_timers[k])'
        BY DEF EntryTrue, Exists
  <1>6. QED
        BY <1>1, <1>2, <1>3, <1>4, <1>5

LEMMA ManagerSchedules ==
  ASSUME ManagerInv, NEW i \in Ids, schedule(i)
  PROVE  ManagerInv'
  <1> USE DEF ManagerInv
  <1>1. PICK p \in Periods, r \in Limits :
          timer' = [timer EXCEPT ![i] = [period |-> p, repeat |-> r, total |-> r,
                                         born |-> clock, calls |-> 0]]
        BY DEF schedule
  <1>2. /\ ~upd.on /\ timer[i] = NoTimer /\ UNCHANGED <<clock, upd>>
        /\ m_timers' = InsertAt(m_timers, Position(m_timers, clock), [time |-> clock, id |-> i])
        BY DEF schedule
  <1>3. p \in Nat /\ p > 0 /\ r \in Int /\ clock \in Nat
        BY PeriodsAssumption, LimitsAssumption DEF ManagerTypes
  <1>4. m_timers \in Seq(Entry) /\ ~InMap(m_timers, i)
        BY <1>2 DEF ManagerTypes, InMap, EntryTrue, Exists, NoTimer
  <1>5. /\ m_timers' \in Seq(Entry) /\ Ordered(m_timers') /\ OneEach(m_timers')
        /\ InMap(m_timers', i) /\ \A j \in Ids : InMap(m_timers, j) => InMap(m_timers', j)
        /\ \A k \in 1 .. Len(m_timers') :
              \/ m_timers'[k] = [time |-> clock, id |-> i]
              \/ \E l \in 1 .. Len(m_timers) : m_timers'[k] = m_timers[l]
    <2>1. Ordered(m_timers) /\ OneEach(m_timers)
          OBVIOUS
    <2> HIDE DEF ManagerInv
    <2>2. QED
          BY <1>2, <1>3, <1>4, <2>1, Inserted
  <1>6. /\ timer'[i].period = p /\ timer'[i].repeat = r /\ timer'[i].total = r
        /\ timer'[i].born = clock /\ timer'[i].calls = 0
        /\ \A j \in Ids \ {i} : timer'[j] = timer[j]
        BY <1>1 DEF ManagerTypes
  <1>7. ManagerTypes'
    <2>1. [period |-> p, repeat |-> r, total |-> r, born |-> clock, calls |-> 0] \in TimerRec
          BY <1>3 DEF TimerRec
    <2>2. timer' \in [Ids -> TimerRec]
          BY <1>1, <2>1 DEF ManagerTypes
    <2>3. QED
          BY <1>2, <1>5, <2>2 DEF ManagerTypes
  <1>8. Exists(i)' /\ \A j \in Ids \ {i} : Exists(j)' <=> Exists(j)
        BY <1>3, <1>6 DEF Exists
  <1>9. TimerTrue(i)'
        BY <1>2, <1>3, <1>5, <1>6 DEF TimerTrue
  <1>10. ASSUME NEW j \in Ids \ {i}, Exists(j) PROVE TimerTrue(j)'
    <2>1. TimerTrue(j) /\ timer'[j] = timer[j] /\ (InMap(m_timers, j) => InMap(m_timers', j))
          BY <1>5, <1>6, <1>10
    <2>2. QED
          BY <1>2, <2>1 DEF TimerTrue
  <1>11. ASSUME NEW k \in 1 .. Len(m_timers') PROVE EntryTrue(m_timers[k])'
    <2>1. CASE m_timers'[k] = [time |-> clock, id |-> i]
      <3>1. m_timers'[k].time = clock /\ m_timers'[k].id = i
            BY <2>1
      <3>2. 0 * p = 0
            BY <1>3
      <3>3. QED
            BY <1>3, <1>6, <1>8, <3>1, <3>2 DEF EntryTrue
    <2>2. ASSUME NEW l \in 1 .. Len(m_timers), m_timers'[k] = m_timers[l]
          PROVE  EntryTrue(m_timers[k])'
      <3>1. EntryTrue(m_timers[l]) /\ m_timers[l].id \in Ids /\ m_timers[l].id # i
            BY <1>4, EntriesAre DEF InMap
      <3>2. QED
            BY <1>6, <1>8, <2>2, <3>1 DEF EntryTrue
    <2>3. QED
          BY <1>5, <2>1, <2>2
  <1>12. QED
         BY <1>2, <1>5, <1>7, <1>8, <1>9, <1>10, <1>11, <1>6

LEMMA OnTimer ==
  ASSUME NEW t \in TimerRec, NEW u, u = on_timer(t)
  PROVE  /\ u \in TimerRec /\ u.period = t.period /\ u.total = t.total /\ u.born = t.born
         /\ t.repeat = 0 => u = t
         /\ t.repeat # 0 =>
              u.calls = t.calls + 1 /\ u.repeat = IF t.repeat > 0 THEN t.repeat - 1 ELSE t.repeat
  <1>1. CASE t.repeat = 0
        BY <1>1 DEF on_timer
  <1>2. CASE t.repeat # 0
    <2> DEFINE r == IF t.repeat > 0 THEN t.repeat - 1 ELSE t.repeat
    <2>1. u = [t EXCEPT !.calls = t.calls + 1, !.repeat = r]
          BY <1>2 DEF on_timer
    <2>2. r \in Int /\ t.calls + 1 \in Nat
          BY DEF TimerRec
    <2> HIDE DEF r
    <2>3. /\ u \in TimerRec /\ u.period = t.period /\ u.total = t.total /\ u.born = t.born
          /\ u.calls = t.calls + 1 /\ u.repeat = r
          BY <2>1, <2>2 DEF TimerRec
    <2>4. QED
          BY <1>2, <2>3 DEF r
  <1>3. QED
        BY <1>1, <1>2

(* One turn of the loop in update, at the first entry of the map.          *)
LEMMA ManagerUpdates ==
  ASSUME ManagerInv, UpdateStep
  PROVE  ManagerInv'
  <1> USE DEF ManagerInv
  <1>1. upd.on /\ upd.it = 1 /\ upd.now \in Nat /\ upd.it <= Len(m_timers)
        /\ m_timers[1].time <= upd.now
        BY DEF UpdateStep, AtDueTimer, ManagerTypes
  <1>2. m_timers \in Seq(Entry) /\ Len(m_timers) \in Nat /\ 1 \in 1 .. Len(m_timers)
        BY <1>1, EntriesAre DEF ManagerTypes
  <1>a. PICK e \in Entry : e = m_timers[1]
        BY <1>2, EntriesAre
  <1>b. PICK i \in Ids : i = e.id
        BY <1>2, <1>a, EntriesAre
  <1> DEFINE t == on_timer(timer[i])
             rest == RemoveAt(m_timers, 1)
             next == e.time + (IF timer[i].repeat = 0 THEN 0 ELSE t.period)
  <1>3. e.time \in Nat /\ EntryTrue(e) /\ e.time <= upd.now
        BY <1>1, <1>2, <1>a, EntriesAre
  <1>4. /\ timer[i] \in TimerRec /\ timer[i].period \in Nat /\ timer[i].repeat \in Int
        /\ timer[i].total \in Int /\ timer[i].born \in Int /\ timer[i].calls \in Nat
        /\ TimerTrue(i) /\ Exists(i)
        BY <1>3, <1>b, TimersAre DEF EntryTrue
  <1>5. /\ UNCHANGED clock /\ timer' = [timer EXCEPT ![i] = t]
        /\ t.repeat # 0 =>
             /\ m_timers' = InsertAt(rest, Position(rest, next), [time |-> next, id |-> i])
             /\ upd' = [upd EXCEPT !.it =
                  IF 1 > Len(rest) \/ next < rest[1].time THEN Position(rest, next) ELSE @]
        /\ t.repeat = 0 => m_timers' = rest /\ upd' = upd
        BY <1>1, <1>a, <1>b DEF UpdateStep
  <1>6. /\ rest \in Seq(Entry) /\ Len(rest) = Len(m_timers) - 1
        /\ \A k \in 1 .. Len(rest) : rest[k] = m_timers[k + 1]
        /\ Ordered(rest) /\ OneEach(rest) /\ ~InMap(rest, i)
        /\ \A j \in Ids : InMap(m_timers, j) /\ j # i => InMap(rest, j)
        BY <1>1, <1>2, <1>a, <1>b, Erased
  <1>7. /\ t \in TimerRec /\ t.period = timer[i].period /\ t.total = timer[i].total
        /\ t.born = timer[i].born
        /\ timer[i].repeat = 0 => t = timer[i]
        /\ timer[i].repeat # 0 =>
             /\ t.calls = timer[i].calls + 1
             /\ t.repeat = IF timer[i].repeat > 0 THEN timer[i].repeat - 1 ELSE timer[i].repeat
        BY <1>4, OnTimer
  <1>8. next \in Nat /\ next = e.time + (IF timer[i].repeat = 0 THEN 0 ELSE timer[i].period)
        BY <1>3, <1>4, <1>7
  <1>9. timer'[i] = t /\ \A j \in Ids \ {i} : timer'[j] = timer[j]
        BY <1>3, <1>5 DEF ManagerTypes
  <1> HIDE DEF t, rest, next
  <1>10. t.repeat # 0 => Position(rest, next) = 1 \/ upd' = upd
    <2> SUFFICES ASSUME t.repeat # 0, 1 > Len(rest) \/ next < rest[1].time
                 PROVE  Position(rest, next) = 1
        BY <1>1, <1>5 DEF ManagerTypes
    <2>1. /\ Position(rest, next) \in 1 .. (Len(rest) + 1)
          /\ \A k \in 1 .. Len(rest) : k < Position(rest, next) <=> rest[k].time <= next
          BY <1>6, <1>8, PositionIs
    <2>2. Len(rest) \in Nat /\ \A k \in 1 .. Len(rest) : rest[k].time \in Nat
          BY <1>6, EntriesAre
    <2>3. CASE Len(rest) = 0
          BY <2>1, <2>3
    <2>4. CASE Len(rest) >= 1
      <3>1. 1 \in 1 .. Len(rest) /\ ~(rest[1].time <= next)
            BY <1>8, <2>2, <2>4
      <3>2. ~(1 < Position(rest, next))
            BY <2>1, <3>1
      <3>3. QED
            BY <2>1, <2>2, <3>2
    <2>5. QED
          BY <2>2, <2>3, <2>4
  <1>11. /\ upd' \in [on : BOOLEAN, now : Nat, it : Nat]
         /\ upd'.it = 1 /\ upd'.on = upd.on /\ upd'.now = upd.now
    <2>1. CASE upd' = upd
          BY <1>1, <2>1 DEF ManagerTypes
    <2>2. CASE upd' # upd
      <3>1. t.repeat # 0 /\ Position(rest, next) = 1
            BY <1>5, <1>10, <2>2
      <3>2. upd' = [upd EXCEPT !.it = IF 1 > Len(rest) \/ next < rest[1].time THEN 1 ELSE @]
            BY <1>5, <3>1
      <3>3. QED
            BY <1>1, <3>2 DEF ManagerTypes
    <2>3. QED
          BY <2>1, <2>2
  <1>12. t.repeat # 0 =>
           /\ m_timers' \in Seq(Entry) /\ Ordered(m_timers') /\ OneEach(m_timers')
           /\ InMap(m_timers', i) /\ \A j \in Ids : InMap(rest, j) => InMap(m_timers', j)
           /\ \A k \in 1 .. Len(m_timers') :
                 \/ m_timers'[k] = [time |-> next, id |-> i]
                 \/ \E l \in 1 .. Len(rest) : m_timers'[k] = rest[l]
    <2> HIDE DEF ManagerInv
    <2>1. QED
          BY <1>3, <1>5, <1>6, <1>8, Inserted
  <1>13. /\ m_timers' \in Seq(Entry) /\ Ordered(m_timers') /\ OneEach(m_timers')
         /\ \A j \in Ids \ {i} : InMap(m_timers, j) => InMap(m_timers', j)
         /\ InMap(m_timers', i) \/ t.repeat = 0
         /\ \A k \in 1 .. Len(m_timers') :
               \/ t.repeat # 0 /\ m_timers'[k] = [time |-> next, id |-> i]
               \/ \E l \in 1 .. Len(rest) : m_timers'[k] = rest[l]
         BY <1>5, <1>6, <1>12
  <1>14. ManagerTypes'
    <2>1. timer' \in [Ids -> TimerRec]
          BY <1>5, <1>7 DEF ManagerTypes
    <2>2. QED
          BY <1>5, <1>11, <1>13, <2>1 DEF ManagerTypes
  <1>15. \A j \in Ids : (timer'[j] = NoTimer \/ Exists(j)') /\ (Exists(j)' => Exists(j))
         BY <1>4, <1>7, <1>9 DEF Exists
  <1>16. TimerTrue(i)'
    <2>1. CASE timer[i].repeat = 0
          BY <1>4, <1>5, <1>7, <1>9, <1>11, <2>1 DEF TimerTrue
    <2>2. CASE timer[i].repeat # 0
      <3>1. t.calls - 1 = timer[i].calls
            BY <1>4, <1>7, <2>2
      <3>2. t.born + (t.calls - 1) * t.period <= upd.now
            BY <1>1, <1>3, <1>b, <1>7, <3>1 DEF EntryTrue
      <3>3. t.total < 0 => t.repeat = t.total
            BY <1>4, <1>7, <2>2 DEF TimerTrue
      <3>4. t.total >= 0 => t.repeat = t.total - t.calls /\ t.repeat >= 0
            BY <1>4, <1>7, <2>2 DEF TimerTrue
      <3>5. QED
            BY <1>4, <1>5, <1>7, <1>9, <1>11, <1>13, <3>2, <3>3, <3>4 DEF TimerTrue
    <2>3. QED
          BY <2>1, <2>2
  <1>17. ASSUME NEW j \in Ids \ {i}, Exists(j) PROVE TimerTrue(j)'
    <2>1. TimerTrue(j) /\ timer'[j] = timer[j] /\ (InMap(m_timers, j) => InMap(m_timers', j))
          BY <1>9, <1>13, <1>17
    <2>2. QED
          BY <1>5, <1>11, <2>1 DEF TimerTrue
  <1>18. ASSUME NEW k \in 1 .. Len(m_timers') PROVE EntryTrue(m_timers[k])'
    <2>1. CASE t.repeat # 0 /\ m_timers'[k] = [time |-> next, id |-> i]
      <3>1. m_timers'[k].time = next /\ m_timers'[k].id = i
            BY <2>1
      <3>2. timer[i].repeat # 0 /\ t.calls = timer[i].calls + 1
            BY <1>7, <2>1
      <3>3. (timer[i].calls + 1) * timer[i].period
              = timer[i].calls * timer[i].period + timer[i].period
            BY <1>4, Times
      <3>4. e.time = timer[i].born + timer[i].calls * timer[i].period
            BY <1>3, <1>b DEF EntryTrue
      <3>5. timer[i].calls * timer[i].period \in Nat
            BY <1>4, Times
      <3>6. next = t.born + t.calls * t.period
        <4>1. next = e.time + timer[i].period
              BY <1>8, <3>2
        <4>2. t.born + t.calls * t.period
                = timer[i].born + (timer[i].calls + 1) * timer[i].period
              BY <1>7, <3>2
        <4>3. QED
              BY <1>4, <3>3, <3>4, <3>5, <4>1, <4>2
      <3>7. Exists(i)'
            BY <1>4, <1>7, <1>9 DEF Exists
      <3>8. QED
            BY <1>9, <3>1, <3>6, <3>7 DEF EntryTrue
    <2>2. ASSUME NEW l \in 1 .. Len(rest), m_timers'[k] = rest[l]
          PROVE  EntryTrue(m_timers[k])'
      <3>1. rest[l] = m_timers[l + 1] /\ l + 1 \in 1 .. Len(m_timers)
            BY <1>2, <1>6
      <3>2. EntryTrue(rest[l])
            BY <3>1
      <3>3. rest[l].id \in Ids /\ rest[l].id # i
            BY <1>6, EntriesAre DEF InMap
      <3>4. QED
            BY <1>9, <2>2, <3>2, <3>3 DEF EntryTrue, Exists
    <2>3. QED
          BY <1>13, <2>1, <2>2
  <1>19. \A j \in Ids : Exists(j)' => TimerTrue(j)'
         BY <1>15, <1>16, <1>17
  <1>20. Ordered(m_timers)' /\ OneEach(m_timers)'
         BY <1>13 DEF Ordered, OneEach
  <1>21. upd'.it = 1 /\ upd'.now <= clock'
         BY <1>5, <1>11
  <1>22. QED
         BY <1>14, <1>15, <1>18, <1>19, <1>20, <1>21

LEMMA ManagerKeeps == ManagerInv /\ [ManagerNext]_managerVars => ManagerInv'
  <1> SUFFICES ASSUME ManagerInv, [ManagerNext]_managerVars PROVE ManagerInv'
      OBVIOUS
  <1>0. clock \in Nat /\ upd \in [on : BOOLEAN, now : Nat, it : Nat]
        /\ upd.it = 1 /\ upd.now <= clock
        BY DEF ManagerInv, ManagerTypes
  <1>1. CASE Tick
        BY <1>0, <1>1, ManagerWaits DEF Tick
  <1>2. CASE UpdateStarts
        BY <1>0, <1>2, ManagerWaits DEF UpdateStarts
  <1>3. CASE UpdateReturns
    <2>1. /\ upd' \in [on : BOOLEAN, now : Nat, it : Nat]
          /\ ~upd'.on /\ upd'.now = upd.now /\ upd'.it = 1
          BY <1>0, <1>3 DEF UpdateReturns
    <2>2. QED
          BY <1>0, <1>3, <2>1, ManagerWaits DEF UpdateReturns
  <1>4. CASE UNCHANGED managerVars
        BY <1>0, <1>4, ManagerWaits DEF managerVars
  <1>5. QED
        BY <1>1, <1>2, <1>3, <1>4, ManagerUpdates, ManagerSchedules DEF ManagerNext

(* When the first entry of the map is not due, no timer is, and each has   *)
(* been called as often as it was.                                         *)
LEMMA AllCalled ==
  ASSUME ManagerInv, upd.on, ~AtDueTimer, NEW i \in Ids, timer[i] # NoTimer
  PROVE  timer[i].calls = Due(timer[i], upd.now)
  <1> USE DEF ManagerInv
  <1> DEFINE t == timer[i]
             d == upd.now - t.born
             n == d \div t.period + 1
  <1>1. /\ t.period \in Nat \ {0} /\ t.repeat \in Int /\ t.total \in Int
        /\ t.born \in Nat /\ t.calls \in Nat /\ upd.now \in Nat
        /\ TimerTrue(i)
        BY TimersAre DEF ManagerTypes, Exists, TimerTrue
  <1>2. d \in Nat
        BY <1>1 DEF TimerTrue
  <1>3. d \div t.period \in Nat
        BY <1>1, <1>2, Quotient
  <1>4. Due(t, upd.now) = IF t.total >= 0 /\ t.total < n THEN t.total ELSE n
        BY DEF Due
  <1>5. t.total < 0 => t.repeat = t.total
        BY <1>1 DEF TimerTrue
  <1>6. t.total >= 0 => t.repeat = t.total - t.calls /\ t.repeat >= 0
        BY <1>1 DEF TimerTrue
  <1>7. t.calls >= 1 => t.born + (t.calls - 1) * t.period <= upd.now
        BY <1>1 DEF TimerTrue
  <1>8. t.calls >= 1 => t.calls - 1 \in Nat /\ (t.calls - 1) * t.period <= d
    <2> SUFFICES ASSUME t.calls >= 1 PROVE t.calls - 1 \in Nat /\ (t.calls - 1) * t.period <= d
        OBVIOUS
    <2>1. t.calls - 1 \in Nat
          BY <1>1
    <2>2. (t.calls - 1) * t.period \in Nat
          BY <1>1, <2>1, Times
    <2> HIDE DEF t
    <2>3. QED
          BY <1>1, <1>7, <2>1, <2>2
  <1>9. CASE InMap(m_timers, i)
    <2>1. PICK k \in 1 .. Len(m_timers) : m_timers[k].id = i
          BY <1>9 DEF InMap
    <2>2. m_timers[k].time = t.born + t.calls * t.period
          BY <2>1 DEF EntryTrue
    <2>3. m_timers[k].time > upd.now
      <3>1. m_timers \in Seq(Entry) /\ 1 \in 1 .. Len(m_timers) /\ 1 <= k
            BY <2>1, EntriesAre DEF ManagerTypes
      <3>2. m_timers[1].time <= m_timers[k].time
            BY <3>1 DEF Ordered
      <3>3. m_timers[1].time > upd.now
            BY <1>1, <3>1, EntriesAre DEF AtDueTimer
      <3>4. QED
            BY <1>1, <3>1, <3>2, <3>3, EntriesAre
    <2>4. t.calls * t.period \in Nat /\ d < t.calls * t.period
      <3>1. t.calls * t.period \in Nat
            BY <1>1, Times
      <3> HIDE DEF t
      <3>2. QED
            BY <1>1, <2>2, <2>3, <3>1
    <2>5. t.calls >= 1
      <3>1. t.calls = 0 => t.calls * t.period = 0
            BY <1>1, Times
      <3>2. QED
            BY <1>1, <1>2, <2>4, <3>1
    <2>6. t.calls * t.period = (t.calls - 1) * t.period + t.period
      <3>1. (t.calls - 1) + 1 = t.calls
            BY <1>1
      <3>2. QED
            BY <1>1, <1>8, <2>5, <3>1, Times
    <2>7. d \div t.period = t.calls - 1
          BY <1>1, <1>2, <1>8, <2>4, <2>5, <2>6, Exactly
    <2>8. n = t.calls
          BY <1>1, <2>7
    <2>9. t.total >= 0 => ~(t.total < n)
          BY <1>1, <1>6, <2>8
    <2>10. QED
           BY <1>4, <2>8, <2>9
  <1>10. CASE ~InMap(m_timers, i)
    <2>1. t.repeat = 0
          BY <1>1, <1>10 DEF TimerTrue
    <2>2. t.total >= 0 /\ t.total = t.calls
          BY <1>1, <1>5, <1>6, <2>1
    <2>3. t.calls <= n
      <3>1. CASE t.calls = 0
            BY <1>3, <3>1
      <3>2. CASE t.calls >= 1
        <4>1. t.calls - 1 <= d \div t.period
              BY <1>1, <1>2, <1>8, <3>2, AtLeast
        <4>2. QED
              BY <1>1, <1>3, <4>1
      <3>3. QED
            BY <1>1, <3>1, <3>2
    <2>4. QED
          BY <1>1, <1>3, <1>4, <2>2, <2>3
  <1>11. QED
         BY <1>9, <1>10

(* Whenever update returns, every timer has been called exactly as often   *)
(* as its period and its limit say, for any number of timers, however late *)
(* update was called.                                                      *)
THEOREM TimersFireExactly == ManagerInit /\ [][ManagerNext]_managerVars => FiredExactly
  <1>1. ManagerInv /\ [ManagerNext]_managerVars =>
          [upd.on /\ ~upd'.on => \A i \in Ids : timer[i] # NoTimer =>
             timer[i].calls = Due(timer[i], upd.now)]_managerVars
    <2> SUFFICES ASSUME ManagerInv, [ManagerNext]_managerVars, upd.on, ~upd'.on,
                        NEW i \in Ids, timer[i] # NoTimer
                 PROVE  timer[i].calls = Due(timer[i], upd.now)
        OBVIOUS
    <2>1. upd \in [on : BOOLEAN, now : Nat, it : Nat]
          BY DEF ManagerInv, ManagerTypes
    <2>2. ~AtDueTimer
      <3>1. CASE Tick \/ UpdateStarts \/ (\E j \in Ids : schedule(j)) \/ UNCHANGED managerVars
            BY <3>1 DEF Tick, UpdateStarts, schedule, managerVars
      <3>2. CASE UpdateStep
            BY <2>1, <3>2 DEF UpdateStep
      <3>3. CASE UpdateReturns
            BY <3>3 DEF UpdateReturns
      <3>4. QED
            BY <3>1, <3>2, <3>3 DEF ManagerNext
    <2>3. QED
          BY <2>2, AllCalled
  <1>2. QED
        BY <1>1, ManagerStarts, ManagerKeeps, PTL DEF FiredExactly
=============================================================================
