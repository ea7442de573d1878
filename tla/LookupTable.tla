----------------------------- MODULE LookupTable ----------------------------
(***************************************************************************)
(* threadsafe_lookup_table: buckets, each a list of pairs behind a reader- *)
(* writer lock.  value_for locks its bucket shared, add_or_update_mapping  *)
(* and remove_mapping lock it exclusively, get_map locks all of them, one  *)
(* after the other, before it copies any.                                  *)
(***************************************************************************)
EXTENDS Integers, Sequences, SequencesExt

CONSTANTS Keys, NumBuckets,
          Hash,        \* Hash[k]: the value of the hasher
          CallsOf      \* CallsOf[t]: the calls thread t may make, one of them

ASSUME TableAssumption ==
    /\ NumBuckets \in Nat \ {0} /\ Hash \in [Keys -> Nat]
    /\ 0 \notin DOMAIN CallsOf
    /\ \A t \in DOMAIN CallsOf : \A c \in CallsOf[t] :
          \/ c.op \in {"value_for", "add_or_update", "remove"} /\ c.key \in Keys
          \/ c.op = "get_map"

VARIABLES
    entries,   \* entries[b]: the list of bucket b, a sequence of <<key, value>>
    owner, shared,     \* who holds the lock of a bucket exclusively, and shared
    call,      \* call[t]: [op, key, value, pc, pos, map] of the thread
    seen       \* seen[t]: the tables there were since the call began

tableVars == <<entries, owner, shared, call, seen>>

Buckets == 0 .. NumBuckets - 1
Callers == DOMAIN CallsOf
Nobody == 0
NoKey == 0
get_bucket(k) == Hash[k] % NumBuckets

\* The index of the pair with this key, or Len + 1 for end().
find_entry_for(s, k) == IF \E i \in 1 .. Len(s) : s[i][1] = k
                        THEN CHOOSE i \in 1 .. Len(s) : s[i][1] = k /\ \A j \in 1 .. i - 1 : s[j][1] # k
                        ELSE Len(s) + 1
Lookup(s, k) == LET i == find_entry_for(s, k) IN IF i > Len(s) THEN NoKey ELSE s[i][2]
Table(e) == [k \in Keys |-> Lookup(e[get_bucket(k)], k)]

TableInit ==
    /\ entries = [b \in Buckets |-> <<>>]
    /\ owner = [b \in Buckets |-> Nobody]
    /\ shared = [b \in Buckets |-> {}]
    /\ call = [t \in Callers |-> [op |-> "none", key |-> NoKey, value |-> NoKey, pc |-> "none",
                                  pos |-> 0, map |-> [k \in Keys |-> NoKey]]]
    /\ seen = [t \in Callers |-> {}]

Free(b) == owner[b] = Nobody /\ shared[b] = {}
InCall(t) == call[t].pc \in {"lock", "body"}
\* Every change of the table is noted by the calls in progress.
Note(e) == seen' = [t \in Callers |-> IF InCall(t) THEN seen[t] \cup {Table(e)} ELSE seen[t]]

CallBegins(t) ==
    /\ call[t].pc = "none"
    /\ \E c \in CallsOf[t] :
          call' = [call EXCEPT ![t] = [@ EXCEPT !.op = c.op, !.key = c.key, !.value = c.value, !.pc = "lock"]]
    /\ seen' = [seen EXCEPT ![t] = {Table(entries)}]
    /\ UNCHANGED <<entries, owner, shared>>

value_for_lock(t) ==
    /\ call[t].op = "value_for" /\ call[t].pc = "lock"
    /\ owner[get_bucket(call[t].key)] = Nobody
    /\ shared' = [shared EXCEPT ![get_bucket(call[t].key)] = @ \cup {t}]
    /\ call' = [call EXCEPT ![t].pc = "body"]
    /\ UNCHANGED <<entries, owner, seen>>

value_for(t) ==
    /\ call[t].op = "value_for" /\ call[t].pc = "body"
    /\ LET b == get_bucket(call[t].key)
       IN  /\ call' = [call EXCEPT ![t].pc = "done", ![t].value = Lookup(entries[b], call[t].key)]
           /\ shared' = [shared EXCEPT ![b] = @ \ {t}]
    /\ UNCHANGED <<entries, owner, seen>>

\* The entry is looked up under the lock and used later, under the same lock.
WriterFinds(t) ==
    /\ call[t].op \in {"add_or_update", "remove"} /\ call[t].pc = "lock"
    /\ LET b == get_bucket(call[t].key)
       IN  /\ Free(b)
           /\ owner' = [owner EXCEPT ![b] = t]
           /\ call' = [call EXCEPT ![t].pc = "body", ![t].pos = find_entry_for(entries[b], call[t].key)]
    /\ UNCHANGED <<entries, shared, seen>>

Updated(s, i, k, v) == IF i > Len(s) THEN Append(s, <<k, v>>) ELSE [s EXCEPT ![i] = <<k, v>>]
Removed(s, i) == IF i > Len(s) THEN s ELSE RemoveAt(s, i)

WriterWrites(t) ==
    /\ call[t].op \in {"add_or_update", "remove"} /\ call[t].pc = "body"
    /\ LET b == get_bucket(call[t].key)
           c == call[t]
       IN  /\ entries' = [entries EXCEPT ![b] = IF c.op = "remove" THEN Removed(@, c.pos)
                                                ELSE Updated(@, c.pos, c.key, c.value)]
           /\ owner' = [owner EXCEPT ![b] = Nobody]
    /\ call' = [call EXCEPT ![t].pc = "done"]
    /\ Note(entries')
    /\ UNCHANGED shared

\* Mutant: each lock is a temporary that is released at once.
Mut_get_map_lock(t) ==
    /\ call[t].op = "get_map" /\ call[t].pc = "lock"
    /\ Free(call[t].pos)
    /\ call' = [call EXCEPT ![t].pos = IF @ = NumBuckets - 1 THEN 0 ELSE @ + 1,
                            ![t].pc = IF call[t].pos = NumBuckets - 1 THEN "body" ELSE "lock"]
    /\ UNCHANGED <<entries, owner, shared, seen>>

\* get_map: all the locks, in the order of the buckets; then the copies.
get_map_lock(t) ==
    /\ call[t].op = "get_map" /\ call[t].pc = "lock"
    /\ Free(call[t].pos)
    /\ owner' = [owner EXCEPT ![call[t].pos] = t]
    /\ call' = [call EXCEPT ![t].pos = IF @ = NumBuckets - 1 THEN 0 ELSE @ + 1,
                            ![t].pc = IF call[t].pos = NumBuckets - 1 THEN "body" ELSE "lock"]
    /\ UNCHANGED <<entries, shared, seen>>

get_map_copy(t) ==
    /\ call[t].op = "get_map" /\ call[t].pc = "body"
    /\ LET b == call[t].pos
       IN  /\ call' = [call EXCEPT ![t].map = [k \in Keys |-> IF get_bucket(k) = b THEN Lookup(entries[b], k) ELSE @[k]],
                                   ![t].pos = b + 1,
                                   ![t].pc = IF b = NumBuckets - 1 THEN "done" ELSE "body"]
           /\ owner' = IF b = NumBuckets - 1
                       THEN [x \in Buckets |-> IF owner[x] = t THEN Nobody ELSE owner[x]]
                       ELSE owner
    /\ UNCHANGED <<entries, shared, seen>>

TableNext ==
    \E t \in Callers :
        CallBegins(t) \/ value_for_lock(t) \/ value_for(t) \/ WriterFinds(t) \/ WriterWrites(t)
        \/ get_map_lock(t) \/ get_map_copy(t)

-----------------------------------------------------------------------------
\* Safety.  What get_map returns is the whole table as it was at one moment
\* of the call, and what value_for returns the value of its key at one moment;
\* no list holds a key twice.
Linearizable ==
    /\ \A t \in Callers : call[t].pc = "done" =>
          /\ call[t].op = "get_map" => call[t].map \in seen[t]
          /\ call[t].op = "value_for" => \E m \in seen[t] : m[call[t].key] = call[t].value
    /\ \A b \in Buckets : \A i, j \in 1 .. Len(entries[b]) :
          entries[b][i][1] = entries[b][j][1] => i = j

=============================================================================
