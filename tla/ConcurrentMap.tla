---------------------------- MODULE ConcurrentMap ----------------------------
(***************************************************************************)
(* ConcurrentMap (helpers/concurrent_map/concurrent_map.h): a map in       *)
(* buckets, each with a mutex.  operator[] returns an Access, which holds  *)
(* the mutex of its bucket until it is destroyed.  A thread has one Access *)
(* at a time, as in all of the program.                                    *)
(*                                                                         *)
(* A definition marked "Slip" is not the code: it is the definition after  *)
(* it with a mistake that the checks are shown to notice.                  *)
(***************************************************************************)
EXTENDS Integers, Maps

CONSTANTS
  Thread, Free, \* the threads, and none of them
  Key,
  bucket_count,
  Amount        \* what a client adds to a value at a time

\* Assumed of the constants.  Of the least int std::abs has no value.
MapAssumption ==
  /\ Free \notin Thread
  /\ Key # {} /\ Key \subseteq Int /\ Amount \subseteq Int
  /\ bucket_count \in Nat \ {0}

Bucket == 0 .. bucket_count - 1
abs(n) == IF n < 0 THEN -n ELSE n
Idx(key) == abs(key) % bucket_count

VARIABLES
  map_v_,     \* a map per bucket
  mutex_v_,   \* who holds it
  pc,         \* where a thread is
  access,     \* the key it has asked for
  register,   \* the value it has read
  i,          \* in BuildOrdinaryMap: the bucket
  m,          \* and the map
  added,      \* all that was ever added at a key, and
  taken       \* all that BuildOrdinaryMap has moved out: for the properties

mapVars == <<map_v_, mutex_v_, pc, access, register, i, m, added, taken>>

MapInit ==
  /\ map_v_ = [b \in Bucket |-> Empty]
  /\ mutex_v_ = [b \in Bucket |-> Free]
  /\ pc = [t \in Thread |-> "idle"]
  /\ access = [t \in Thread |-> CHOOSE k \in Key : TRUE]
  /\ register = [t \in Thread |-> 0]
  /\ i = [t \in Thread |-> 0]
  /\ m = [t \in Thread |-> Empty]
  /\ added = [k \in Key |-> 0]
  /\ taken = [k \in Key |-> 0]

Goto(t, from, to) == pc[t] = from /\ pc' = [pc EXCEPT ![t] = to]
Holds(t, b) == mutex_v_[b] = t

Acquire(t, b) == mutex_v_[b] = Free /\ mutex_v_' = [mutex_v_ EXCEPT ![b] = t]
Release(b) == mutex_v_' = [mutex_v_ EXCEPT ![b] = Free]

(***************************************************************************)
(* operator[]: the mutex, then the value, which is made when it is not     *)
(* there.                                                                  *)
(***************************************************************************)
Lock(t, key) ==
  /\ Goto(t, "idle", "locked")
  /\ Acquire(t, Idx(key))
  /\ access' = [access EXCEPT ![t] = key]
  /\ UNCHANGED <<map_v_, register, i, m, added, taken>>

\* Slip: the value is made anew when it is there.
ReferAnew(t) ==
  /\ Goto(t, "locked", "referring")
  /\ map_v_' = [map_v_ EXCEPT ![Idx(access[t])] = With(@, access[t], 0)]
  /\ UNCHANGED <<mutex_v_, access, register, i, m, added, taken>>

Refer(t) ==
  /\ Goto(t, "locked", "referring")
  /\ map_v_' = [map_v_ EXCEPT ![Idx(access[t])] = With(@, access[t], At(@, access[t], 0))]
  /\ UNCHANGED <<mutex_v_, access, register, i, m, added, taken>>

\* Slip: the client reads through an Access of its own while it has one.
LoadByASecondAccess(t) ==
  /\ Goto(t, "referring", "loaded")
  /\ mutex_v_[Idx(access[t])] = Free
  /\ register' = [register EXCEPT ![t] = map_v_[Idx(access[t])][access[t]]]
  /\ UNCHANGED <<map_v_, mutex_v_, access, i, m, added, taken>>

\* ref_to_value += amount, in the client: a read and a write.
Load(t) ==
  /\ Goto(t, "referring", "loaded")
  /\ register' = [register EXCEPT ![t] = map_v_[Idx(access[t])][access[t]]]
  /\ UNCHANGED <<map_v_, mutex_v_, access, i, m, added, taken>>

Store(t, amount) ==
  /\ Goto(t, "loaded", "stored")
  /\ map_v_' = [map_v_ EXCEPT ![Idx(access[t])] = With(@, access[t], register[t] + amount)]
  /\ added' = [added EXCEPT ![access[t]] = @ + amount]
  /\ UNCHANGED <<mutex_v_, access, register, i, m, taken>>

\* The destructor of Access, also of one that was only read.
Unlock(t) ==
  /\ pc[t] \in {"referring", "loaded", "stored"}
  /\ pc' = [pc EXCEPT ![t] = "idle"]
  /\ Release(Idx(access[t]))
  /\ UNCHANGED <<map_v_, access, register, i, m, added, taken>>

(***************************************************************************)
(* BuildOrdinaryMap: merge moves the values out of each bucket in turn.    *)
(***************************************************************************)
Build(t) ==
  /\ Goto(t, "idle", "building")
  /\ i' = [i EXCEPT ![t] = 0] /\ m' = [m EXCEPT ![t] = Empty]
  /\ UNCHANGED <<map_v_, mutex_v_, access, register, added, taken>>

BuildLock(t) ==
  /\ i[t] < bucket_count
  /\ Goto(t, "building", "merging")
  /\ Acquire(t, i[t])
  /\ UNCHANGED <<map_v_, access, register, i, m, added, taken>>

Merge(t) ==
  /\ Goto(t, "merging", "merged")
  /\ LET bucket == map_v_[i[t]]
         moved  == DOMAIN bucket \ DOMAIN m[t]
     IN  /\ m' = [m EXCEPT ![t] = Merged(@, bucket)]
         /\ map_v_' = [map_v_ EXCEPT ![i[t]] = Remaining(m[t], @)]
         /\ taken' = [k \in Key |-> IF k \in moved THEN taken[k] + bucket[k] ELSE taken[k]]
  /\ UNCHANGED <<mutex_v_, access, register, i, added>>

BuildUnlock(t) ==
  /\ Goto(t, "merged", "building")
  /\ Release(i[t])
  /\ i' = [i EXCEPT ![t] = @ + 1]
  /\ UNCHANGED <<map_v_, access, register, m, added, taken>>

\* The map is returned.
Return(t) ==
  /\ i[t] = bucket_count
  /\ Goto(t, "building", "idle")
  /\ UNCHANGED <<map_v_, mutex_v_, access, register, i, m, added, taken>>

\* The steps of a thread that has something to finish.
Step(t) ==
  \/ Refer(t) \/ Load(t) \/ Unlock(t) \/ (\E amount \in Amount : Store(t, amount))
  \/ BuildLock(t) \/ Merge(t) \/ BuildUnlock(t) \/ Return(t)

MapNext == \E t \in Thread : Step(t) \/ Build(t) \/ (\E key \in Key : Lock(t, key))

MapSpec == MapInit /\ [][MapNext]_mapVars

(***************************************************************************)
(* Properties.                                                             *)
(***************************************************************************)
IsMap(f) ==
  /\ f = [k \in DOMAIN f |-> f[k]]
  /\ DOMAIN f \subseteq Key /\ \A k \in DOMAIN f : f[k] \in Int

MapTypeOK ==
  /\ DOMAIN map_v_ = Bucket /\ map_v_ = [b \in Bucket |-> map_v_[b]]
  /\ \A b \in Bucket : IsMap(map_v_[b])
  /\ mutex_v_ \in [Bucket -> Thread \cup {Free}]
  /\ pc \in [Thread -> {"idle", "locked", "referring", "loaded", "stored",
                        "building", "merging", "merged"}]
  /\ access \in [Thread -> Key] /\ register \in [Thread -> Int]
  /\ i \in [Thread -> 0 .. bucket_count] /\ DOMAIN m = Thread
  /\ added \in [Key -> Int] /\ taken \in [Key -> Int]

\* The bucket that a thread works on.
Works(t, b) ==
  \/ pc[t] \in {"locked", "referring", "loaded", "stored"} /\ Idx(access[t]) = b
  \/ pc[t] \in {"merging", "merged"} /\ i[t] = b

\* At most one thread works on a bucket, and no mutex stays locked behind a
\* thread that has gone on.
MutualExclusion ==
  \A b \in Bucket : /\ \A t, u \in Thread : Works(t, b) /\ Works(u, b) => t = u
                    /\ mutex_v_[b] # Free => Works(mutex_v_[b], b)

\* Whatever threads add at the same time is in the map or was moved out of it:
\* no addition is lost, and none is counted twice.
NoLostUpdate ==
  \A k \in Key : At(map_v_[Idx(k)], k, 0) + taken[k] = added[k]
=============================================================================
