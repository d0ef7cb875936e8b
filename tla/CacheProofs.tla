----------------------------- MODULE CacheProofs -----------------------------
(***************************************************************************)
(* What is proved of the two caches that several goroutines fill, and of   *)
(* the client of the broker that tells one of them of changes.             *)
(*                                                                         *)
(* With one database behind GetReplica, GetSchemaById never returns a      *)
(* schema older than the one that was there when the lookup began, for any *)
(* number of callers and versions.                                         *)
(*                                                                         *)
(* NotOlder is not inductive: it rests on who leads and who waits for each *)
(* shared lookup (StampCalls, LoadCalls), on the stamp each caller holds   *)
(* being between its starting version and the database (Fresh), and on the *)
(* cached schema having the stamp of its own version (Cached).             *)
(*                                                                         *)
(* For any number of connections and faults, the client of the broker has  *)
(* a consumer for every topic when it has come to rest.  For any number of *)
(* readers and changes, a flight with an old value of a setting is shared  *)
(* only while an announcement is still to be dealt with.                   *)
(***************************************************************************)
EXTENDS SchemaCache, SystemSettings, FiniteSetTheorems, TLAPS

-----------------------------------------------------------------------------
(* Schemas. *)

\* The call in requestGroup for the stamp has its leader at work, and whoever
\* waits, waits for that leader and started no earlier.
StampCalls ==
  /\ \A p \in Callers : caller[p].pc \in {"stamp", "stamped"} <=> stampCall = p
  /\ \A q \in Callers : caller[q].pc = "stampWait" =>
       /\ stampCall \in Callers
       /\ caller[q].leader = stampCall
       /\ caller[q].since = caller[stampCall].since

\* The calls for the text are filed under the stamp of their leader.
LoadCalls ==
  /\ \A p \in Callers :
       caller[p].pc \in {"loading", "loaded"} => loadCall[caller[p].updatedAt] = p
  /\ \A v \in Version : loadCall[v] \in Callers =>
       /\ caller[loadCall[v]].pc \in {"loading", "loaded"}
       /\ caller[loadCall[v]].updatedAt = v
  /\ \A q \in Callers : caller[q].pc = "loadWait" =>
       /\ caller[q].leader \in Callers
       /\ loadCall[caller[q].updatedAt] = caller[q].leader

\* What a caller holds, by how far it has come.
Fresh ==
  \A p \in Callers :
    /\ caller[p].pc # "idle" =>
         caller[p].since \in Version /\ \A r \in replicas : caller[p].since <= replica[r]
    /\ caller[p].pc \in {"stamped", "check", "load", "loading", "loaded", "loadWait", "add"} =>
         /\ caller[p].updatedAt \in Version
         /\ caller[p].since <= caller[p].updatedAt
         /\ \A r \in replicas : caller[p].updatedAt <= replica[r]
    /\ caller[p].pc \in {"loaded", "add"} =>
         caller[p].schema \in Version /\ caller[p].updatedAt <= caller[p].schema
    /\ caller[p].pc = "returned" =>
         caller[p].schema \in Version /\ caller[p].since <= caller[p].schema

\* The cached schema has its own stamp.
Cached == cachedAt = cache

IInv == TypeOK /\ StampCalls /\ LoadCalls /\ Fresh /\ Cached

\* GetReplica has one database to choose from.
OneReplica == \E r \in Databases : replicas = {r}

\* With one database the oldest version a query can return is the database's.
LEMMA OldestIsReplica ==
  ASSUME TypeOK, OneReplica
  PROVE  Oldest \in Version /\ \A r \in replicas : Oldest = replica[r]
<1>1. PICK r \in Databases : replicas = {r}
  BY DEF OneReplica
<1>2. replica[r] \in Version
  BY <1>1 DEF TypeOK
<1>3. \A v \in Version : v >= v
  BY MaxVersionAssumption DEF Version
<1>4. \E v \in Version : /\ \E s \in replicas : replica[s] = v
                         /\ \A s \in replicas : replica[s] >= v
  BY <1>1, <1>2, <1>3
<1>5. QED
  BY <1>1, <1>4 DEF Oldest

\* The places a caller can be at.
LEMMA Pcs ==
  /\ "idle" \in Pc /\ "stamp" \in Pc /\ "stamped" \in Pc /\ "stampWait" \in Pc
  /\ "check" \in Pc /\ "load" \in Pc /\ "loading" \in Pc /\ "loaded" \in Pc
  /\ "loadWait" \in Pc /\ "add" \in Pc /\ "returned" \in Pc
BY DEF Pc

\* A step keeps the shapes of the state.
LEMMA TypeStep ==
  ASSUME TypeOK, Fresh, OneReplica, [Next]_vars
  PROVE  TypeOK'
<1>m. master \in Version
  BY DEF TypeOK
<1>r. replicas \subseteq Databases /\ replica \in [Databases -> Version]
  BY DEF TypeOK
<1>c. cache \in Version \cup {None} /\ cachedAt \in Version \cup {None}
  BY DEF TypeOK
<1>s. stampCall \in Callers \cup {None}
  BY DEF TypeOK
<1>l. loadCall \in [Version -> Callers \cup {None}]
  BY DEF TypeOK
<1>k. caller \in [Callers -> Caller]
  BY DEF TypeOK
<1>f. \A p \in Callers : caller[p].pc = "load" => caller[p].updatedAt \in Version
  BY DEF Fresh
<1>1. CASE Update
  <2>1. master + 1 \in Version
    BY <1>1, <1>m, MaxVersionAssumption DEF Update, Version
  <2> QED
    BY <1>1, <2>1, <1>r, <1>c, <1>s, <1>l, <1>k DEF Update, TypeOK
<1>2. CASE Evict
  BY <1>2, <1>m, <1>r, <1>c, <1>s, <1>l, <1>k DEF Evict, TypeOK
<1>3. ASSUME NEW r \in replicas, Replicate(r) PROVE TypeOK'
  BY <1>3, <1>m, <1>r, <1>c, <1>s, <1>l, <1>k DEF Replicate, TypeOK
<1>4. ASSUME NEW p \in Callers, StampLead(p) PROVE TypeOK'
  <2>1. caller' \in [Callers -> Caller]
    BY Zenon, <1>4, <1>k, Pcs, OldestIsReplica, NoneAssumption DEF StampLead, Idle, Caller
  <2> QED
    BY <1>4, <2>1, <1>m, <1>r, <1>c, <1>s, <1>l, <1>k, NoneAssumption DEF StampLead, Idle, TypeOK
<1>5. ASSUME NEW p \in Callers, StampJoin(p) PROVE TypeOK'
  <2>1. caller' \in [Callers -> Caller]
    BY Zenon, <1>5, <1>k, Pcs, <1>s, NoneAssumption DEF StampJoin, Idle, Caller
  <2> QED
    BY <1>5, <2>1, <1>m, <1>r, <1>c, <1>s, <1>l, <1>k, NoneAssumption DEF StampJoin, Idle, TypeOK
<1>6. ASSUME NEW p \in Callers, GetUpdatedAt(p) PROVE TypeOK'
  <2>1. PICK r \in replicas :
          caller' = [caller EXCEPT ![p] = [@ EXCEPT !.pc = "stamped", !.updatedAt = replica[r]]]
    BY Zenon, <1>6 DEF GetUpdatedAt
  <2>2. replica[r] \in Version
    BY <1>r
  <2>3. caller' \in [Callers -> Caller]
    BY Zenon, <2>1, <2>2, <1>k, Pcs DEF Caller
  <2> QED
    BY <1>6, <2>3, <1>m, <1>r, <1>c, <1>s, <1>l DEF GetUpdatedAt, TypeOK
<1>7. ASSUME NEW p \in Callers, StampDone(p) PROVE TypeOK'
  <2>1. caller' \in [Callers -> Caller]
    BY ZenonT(40), <1>7, <1>k, Pcs DEF StampDone, Shares, Caller
  <2> QED
    BY Zenon, <1>7, <2>1, <1>m, <1>r, <1>c, <1>s, <1>l, <1>k, NoneAssumption DEF StampDone, Shares, TypeOK
<1>8. ASSUME NEW p \in Callers, StampFails(p) PROVE TypeOK'
  <2>1. caller' \in [Callers -> Caller]
    BY <1>8, <1>k, Pcs DEF StampFails, Idle, Shares, Caller
  <2> QED
    BY <1>8, <2>1, <1>m, <1>r, <1>c, <1>s, <1>l, <1>k, NoneAssumption DEF StampFails, Idle, Shares, TypeOK
<1>9. ASSUME NEW p \in Callers, CheckCache(p) PROVE TypeOK'
  <2>1. caller' \in [Callers -> Caller]
    BY ZenonT(40), <1>9, <1>k, Pcs, <1>c DEF CheckCache, Caller
  <2> QED
    BY <1>9, <2>1, <1>m, <1>r, <1>c, <1>s, <1>l, <1>k, NoneAssumption DEF CheckCache, TypeOK
<1>10. ASSUME NEW p \in Callers, LoadLead(p) PROVE TypeOK'
  <2>1. caller' \in [Callers -> Caller]
    BY <1>10, <1>k, Pcs DEF LoadLead, CallKey, Step, Caller
  <2> QED
    BY Zenon, <1>10, <2>1, <1>m, <1>r, <1>c, <1>s, <1>l, <1>k, NoneAssumption DEF LoadLead, CallKey, Step, TypeOK
<1>11. ASSUME NEW p \in Callers, LoadJoin(p) PROVE TypeOK'
  <2>1. caller[p].updatedAt \in Version
    BY <1>11, <1>f DEF LoadJoin, CallKey
  <2>2. loadCall[caller[p].updatedAt] \in Callers \cup {None}
    BY <2>1, <1>l
  <2>3. caller' \in [Callers -> Caller]
    BY Zenon, <1>11, <2>2, <1>k, Pcs DEF LoadJoin, CallKey, Caller
  <2> QED
    BY <1>11, <2>3, <1>m, <1>r, <1>c, <1>s, <1>l, <1>k DEF LoadJoin, CallKey, TypeOK
<1>12. ASSUME NEW p \in Callers, Load(p) PROVE TypeOK'
  <2>1. PICK r \in replicas :
          caller' = [caller EXCEPT ![p] = [@ EXCEPT !.pc = "loaded", !.schema = replica[r]]]
    BY Zenon, <1>12 DEF Load
  <2>2. replica[r] \in Version
    BY <1>r
  <2>3. caller' \in [Callers -> Caller]
    BY Zenon, <2>1, <2>2, <1>k, Pcs DEF Caller
  <2> QED
    BY <1>12, <2>3, <1>m, <1>r, <1>c, <1>s, <1>l DEF Load, TypeOK
<1>13. ASSUME NEW p \in Callers, LoadDone(p) PROVE TypeOK'
  <2>1. caller' \in [Callers -> Caller]
    BY ZenonT(60), <1>13, <1>k, Pcs DEF LoadDone, CallKey, Shares, Caller
  <2> QED
    BY Zenon, <1>13, <2>1, <1>m, <1>r, <1>c, <1>s, <1>l, <1>k, NoneAssumption DEF LoadDone, CallKey, Shares, TypeOK
<1>14. ASSUME NEW p \in Callers, LoadFails(p) PROVE TypeOK'
  <2>1. caller' \in [Callers -> Caller]
    BY <1>14, <1>k, Pcs DEF LoadFails, Idle, CallKey, Shares, Caller
  <2> QED
    BY Zenon, <1>14, <2>1, <1>m, <1>r, <1>c, <1>s, <1>l, <1>k, NoneAssumption DEF LoadFails, Idle, CallKey, Shares, TypeOK
<1>15. ASSUME NEW p \in Callers, AddToCache(p) PROVE TypeOK'
  <2>1. caller' \in [Callers -> Caller]
    BY <1>15, <1>k, Pcs DEF AddToCache, Step, Caller
  <2>2. caller[p].schema \in Version \cup {None}
    BY <1>k DEF Caller
  <2> QED
    BY <1>15, <2>1, <2>2, <1>m, <1>r, <1>s, <1>l DEF AddToCache, Step, TypeOK
<1>16. ASSUME NEW p \in Callers, Return(p) PROVE TypeOK'
  <2>1. caller' \in [Callers -> Caller]
    BY <1>16, <1>k, Pcs DEF Return, Idle, Caller
  <2> QED
    BY <1>16, <2>1, <1>m, <1>r, <1>c, <1>s, <1>l, <1>k, NoneAssumption DEF Return, Idle, TypeOK
<1>17. CASE UNCHANGED vars
  BY <1>17 DEF vars, TypeOK
<1>18. QED
  BY <1>1, <1>2, <1>3, <1>4, <1>5, <1>6, <1>7, <1>8, <1>9, <1>10, <1>11, <1>12, <1>13, <1>14, <1>15, <1>16, <1>17 DEF Next, Work

\* Who gets the stamp, and who is left alone, when a stamp lookup ends.
LEMMA StampDoneFields ==
  ASSUME TypeOK, NEW p \in Callers, StampDone(p)
  PROVE  \A q \in Callers :
          IF q \in Shares(p, "stampWait")
          THEN /\ caller'[q].pc = "check"
               /\ caller'[q].leader = None
               /\ caller'[q].updatedAt = caller[p].updatedAt
               /\ caller'[q].since = caller[q].since
          ELSE caller'[q] = caller[q]
BY Zenon DEF StampDone, TypeOK, Caller

\* Likewise for the text.
LEMMA LoadDoneFields ==
  ASSUME TypeOK, NEW p \in Callers, LoadDone(p)
  PROVE  \A q \in Callers :
          IF q \in Shares(p, "loadWait")
          THEN /\ caller'[q].pc = "add"
               /\ caller'[q].leader = None
               /\ caller'[q].schema = caller[p].schema
               /\ caller'[q].since = caller[q].since
               /\ caller'[q].updatedAt = caller[q].updatedAt
          ELSE caller'[q] = caller[q]
BY Zenon DEF LoadDone, TypeOK, Caller

\* A step keeps the leader and the waiters of the stamp lookup together.
LEMMA StampCallsStep ==
  ASSUME TypeOK, StampCalls, [Next]_vars
  PROVE  StampCalls'
<1> USE NoneAssumption DEF TypeOK, Caller, StampCalls
<1>1. CASE Update
  BY <1>1 DEF Update
<1>2. CASE Evict
  BY <1>2 DEF Evict
<1>3. ASSUME NEW r \in replicas, Replicate(r) PROVE StampCalls'
  BY <1>3 DEF Replicate
<1>4. ASSUME NEW p \in Callers, StampLead(p) PROVE StampCalls'
  BY <1>4 DEF StampLead, Idle
<1>5. ASSUME NEW p \in Callers, StampJoin(p) PROVE StampCalls'
  BY <1>5 DEF StampJoin, Idle
<1>6. ASSUME NEW p \in Callers, GetUpdatedAt(p) PROVE StampCalls'
  BY <1>6 DEF GetUpdatedAt
<1>7. ASSUME NEW p \in Callers, StampDone(p) PROVE StampCalls'
  <2>1. caller[p].pc = "stamped" /\ stampCall' = None /\ UNCHANGED <<replicas, replica, loadCall>>
    BY Zenon, <1>7 DEF StampDone, CallKey
  <2> QED
    BY <1>7, <2>1, StampDoneFields DEF Shares
<1>8. ASSUME NEW p \in Callers, StampFails(p) PROVE StampCalls'
  BY <1>8 DEF StampFails, Idle, Shares
<1>9. ASSUME NEW p \in Callers, CheckCache(p) PROVE StampCalls'
  BY <1>9 DEF CheckCache
<1>10. ASSUME NEW p \in Callers, LoadLead(p) PROVE StampCalls'
  BY <1>10 DEF LoadLead, CallKey, Step
<1>11. ASSUME NEW p \in Callers, LoadJoin(p) PROVE StampCalls'
  BY <1>11 DEF LoadJoin, CallKey
<1>12. ASSUME NEW p \in Callers, Load(p) PROVE StampCalls'
  BY <1>12 DEF Load
<1>13. ASSUME NEW p \in Callers, LoadDone(p) PROVE StampCalls'
  <2>1. caller[p].pc = "loaded" /\ loadCall' = [loadCall EXCEPT ![caller[p].updatedAt] = None] /\ UNCHANGED <<replicas, replica, stampCall>>
    BY Zenon, <1>13 DEF LoadDone, CallKey
  <2> QED
    BY <1>13, <2>1, LoadDoneFields DEF Shares
<1>14. ASSUME NEW p \in Callers, LoadFails(p) PROVE StampCalls'
  BY SMTT(40), <1>14 DEF LoadFails, Idle, CallKey, Shares
<1>15. ASSUME NEW p \in Callers, AddToCache(p) PROVE StampCalls'
  BY <1>15 DEF AddToCache, Step
<1>16. ASSUME NEW p \in Callers, Return(p) PROVE StampCalls'
  BY <1>16 DEF Return, Idle
<1>17. CASE UNCHANGED vars
  BY <1>17 DEF vars
<1>18. QED
  BY <1>1, <1>2, <1>3, <1>4, <1>5, <1>6, <1>7, <1>8, <1>9, <1>10, <1>11, <1>12, <1>13, <1>14, <1>15, <1>16, <1>17 DEF Next, Work

\* A step keeps the text lookups filed under the stamps of their leaders.
LEMMA LoadCallsStep ==
  ASSUME TypeOK, LoadCalls, Fresh, [Next]_vars
  PROVE  LoadCalls'
<1> USE NoneAssumption DEF TypeOK, Caller, LoadCalls, Fresh
<1>1. CASE Update
  BY <1>1 DEF Update
<1>2. CASE Evict
  BY <1>2 DEF Evict
<1>3. ASSUME NEW r \in replicas, Replicate(r) PROVE LoadCalls'
  BY <1>3 DEF Replicate
<1>4. ASSUME NEW p \in Callers, StampLead(p) PROVE LoadCalls'
  BY <1>4 DEF StampLead, Idle
<1>5. ASSUME NEW p \in Callers, StampJoin(p) PROVE LoadCalls'
  BY <1>5 DEF StampJoin, Idle
<1>6. ASSUME NEW p \in Callers, GetUpdatedAt(p) PROVE LoadCalls'
  BY <1>6 DEF GetUpdatedAt
<1>7. ASSUME NEW p \in Callers, StampDone(p) PROVE LoadCalls'
  <2>1. caller[p].pc = "stamped" /\ stampCall' = None /\ UNCHANGED <<replicas, replica, loadCall>>
    BY Zenon, <1>7 DEF StampDone, CallKey
  <2> QED
    BY <1>7, <2>1, StampDoneFields DEF Shares
<1>8. ASSUME NEW p \in Callers, StampFails(p) PROVE LoadCalls'
  BY <1>8 DEF StampFails, Idle, Shares
<1>9. ASSUME NEW p \in Callers, CheckCache(p) PROVE LoadCalls'
  BY <1>9 DEF CheckCache
<1>10. ASSUME NEW p \in Callers, LoadLead(p) PROVE LoadCalls'
  BY <1>10 DEF LoadLead, CallKey, Step
<1>11. ASSUME NEW p \in Callers, LoadJoin(p) PROVE LoadCalls'
  BY <1>11 DEF LoadJoin, CallKey
<1>12. ASSUME NEW p \in Callers, Load(p) PROVE LoadCalls'
  BY <1>12 DEF Load
<1>13. ASSUME NEW p \in Callers, LoadDone(p) PROVE LoadCalls'
  <2>1. caller[p].pc = "loaded" /\ loadCall' = [loadCall EXCEPT ![caller[p].updatedAt] = None] /\ UNCHANGED <<replicas, replica, stampCall>>
    BY Zenon, <1>13 DEF LoadDone, CallKey
  <2> QED
    BY <1>13, <2>1, LoadDoneFields DEF Shares
<1>14. ASSUME NEW p \in Callers, LoadFails(p) PROVE LoadCalls'
  <2>1. caller[p].pc = "loading" /\ loadCall' = [loadCall EXCEPT ![caller[p].updatedAt] = None]
    BY <1>14 DEF LoadFails, CallKey
  <2>2. \A q \in Callers : \/ caller'[q].pc = "idle" /\ q \in Shares(p, "loadWait")
                           \/ caller'[q] = caller[q] /\ q \notin Shares(p, "loadWait")
    BY <1>14 DEF LoadFails, Idle
  <2>3. caller[p].updatedAt \in Version /\ loadCall[caller[p].updatedAt] = p
    BY <2>1
  <2> QED
    BY <2>1, <2>2, <2>3 DEF Shares
<1>15. ASSUME NEW p \in Callers, AddToCache(p) PROVE LoadCalls'
  BY <1>15 DEF AddToCache, Step
<1>16. ASSUME NEW p \in Callers, Return(p) PROVE LoadCalls'
  BY <1>16 DEF Return, Idle
<1>17. CASE UNCHANGED vars
  BY <1>17 DEF vars
<1>18. QED
  BY Zenon, <1>1, <1>2, <1>3, <1>4, <1>5, <1>6, <1>7, <1>8, <1>9, <1>10, <1>11, <1>12, <1>13, <1>14, <1>15, <1>16, <1>17 DEF Next, Work

\* A step keeps what the callers hold fresh: a stamp is read after the caller
\* started, a text after its stamp, and the database only moves forward.
LEMMA FreshStep ==
  ASSUME TypeOK, StampCalls, LoadCalls, Fresh, Cached, OneReplica, [Next]_vars
  PROVE  Fresh'
<1> USE MaxVersionAssumption, NoneAssumption DEF TypeOK, Caller, Fresh, Version
<1>1. CASE Update
  BY <1>1 DEF Update
<1>2. CASE Evict
  BY <1>2 DEF Evict
<1>3. ASSUME NEW r \in replicas, Replicate(r) PROVE Fresh'
  BY <1>3 DEF Replicate
<1>4. ASSUME NEW p \in Callers, StampLead(p) PROVE Fresh'
  BY <1>4, OldestIsReplica DEF StampLead, Idle
<1>5. ASSUME NEW p \in Callers, StampJoin(p) PROVE Fresh'
  BY <1>5 DEF StampJoin, Idle, StampCalls
<1>6. ASSUME NEW p \in Callers, GetUpdatedAt(p) PROVE Fresh'
  BY <1>6, OneReplica DEF GetUpdatedAt, OneReplica
<1>7. ASSUME NEW p \in Callers, StampDone(p) PROVE Fresh'
  <2>1. caller[p].pc = "stamped" /\ stampCall' = None /\ UNCHANGED <<replicas, replica, loadCall>>
    BY Zenon, <1>7 DEF StampDone, CallKey
  <2> QED
    BY <1>7, <2>1, StampDoneFields DEF Shares, StampCalls
<1>8. ASSUME NEW p \in Callers, StampFails(p) PROVE Fresh'
  BY <1>8 DEF StampFails, Idle, Shares
<1>9. ASSUME NEW p \in Callers, CheckCache(p) PROVE Fresh'
  BY <1>9 DEF CheckCache, Cached
<1>10. ASSUME NEW p \in Callers, LoadLead(p) PROVE Fresh'
  BY <1>10 DEF LoadLead, CallKey, Step
<1>11. ASSUME NEW p \in Callers, LoadJoin(p) PROVE Fresh'
  BY <1>11 DEF LoadJoin, CallKey
<1>12. ASSUME NEW p \in Callers, Load(p) PROVE Fresh'
  BY <1>12 DEF Load, OneReplica
<1>13. ASSUME NEW p \in Callers, LoadDone(p) PROVE Fresh'
  <2>1. caller[p].pc = "loaded" /\ loadCall' = [loadCall EXCEPT ![caller[p].updatedAt] = None] /\ UNCHANGED <<replicas, replica, stampCall>>
    BY Zenon, <1>13 DEF LoadDone, CallKey
  <2> QED
    BY SMTT(30), <1>13, <2>1, LoadDoneFields DEF Shares, LoadCalls
<1>14. ASSUME NEW p \in Callers, LoadFails(p) PROVE Fresh'
  BY SMTT(90), <1>14 DEF LoadFails, Idle, CallKey, Shares
<1>15. ASSUME NEW p \in Callers, AddToCache(p) PROVE Fresh'
  BY <1>15 DEF AddToCache, Step
<1>16. ASSUME NEW p \in Callers, Return(p) PROVE Fresh'
  BY <1>16 DEF Return, Idle
<1>17. CASE UNCHANGED vars
  BY <1>17 DEF vars
<1>18. QED
  BY Zenon, <1>1, <1>2, <1>3, <1>4, <1>5, <1>6, <1>7, <1>8, <1>9, <1>10, <1>11, <1>12, <1>13, <1>14, <1>15, <1>16, <1>17 DEF Next, Work

\* A step keeps the cached schema and its stamp together.
LEMMA CachedStep ==
  ASSUME Cached, [Next]_vars
  PROVE  Cached'
<1>1. ASSUME NEW p \in Callers, Work(p) PROVE Cached'
  BY Zenon, <1>1 DEF Work, GetUpdatedAt, StampDone, CheckCache, LoadLead, LoadJoin, Load, LoadDone,
     AddToCache, Return, Cached
<1>2. QED
  BY <1>1 DEF Next, vars, Update, Evict, Replicate, StampLead, StampJoin, StampFails, LoadFails,
     Cached

\* No step changes the databases GetReplica chooses from.
LEMMA ReplicasFixed ==
  ASSUME [Next]_vars
  PROVE  replicas' = replicas
<1>1. ASSUME NEW p \in Callers, Work(p) PROVE replicas' = replicas
  BY Zenon, <1>1 DEF Work, GetUpdatedAt, StampDone, CheckCache, LoadLead, LoadJoin, Load, LoadDone,
     AddToCache, Return
<1>2. QED
  BY <1>1 DEF Next, vars, Update, Evict, Replicate, StampLead, StampJoin, StampFails, LoadFails

\* With one database the invariant holds in every state.
LEMMA Invariance == Spec => [](OneReplica => IInv)
<1>1. Init => (OneReplica => IInv)
  BY MaxVersionAssumption, NoneAssumption DEF Init, Idle, IInv, TypeOK, StampCalls, LoadCalls,
     Fresh, Cached, Caller, Pc, Version
<1>2. (OneReplica => IInv) /\ [Next]_vars => (OneReplica => IInv)'
  <2> SUFFICES ASSUME OneReplica => IInv, [Next]_vars, OneReplica'
               PROVE  IInv'
    OBVIOUS
  <2>1. OneReplica
    BY ReplicasFixed DEF OneReplica
  <2> QED
    BY <2>1, TypeStep, StampCallsStep, LoadCallsStep, FreshStep, CachedStep DEF IInv
<1>3. QED
  BY <1>1, <1>2, PTL DEF Spec

\* With one database, GetSchemaById returns a schema at least as new as the one
\* there when the shared lookup began, whatever the callers, updates and
\* evictions.
THEOREM NeverOlder == Spec => []NotOlder
<1>1. (OneReplica => IInv) => NotOlder
  BY MaxVersionAssumption DEF OneReplica, IInv, Fresh, NotOlder, Version
<1>2. QED
  BY <1>1, Invariance, PTL

-----------------------------------------------------------------------------
(* The client of the broker. *)

\* The numbers of the consumers and of the runs of initConnection.
RunsTypeOK ==
  /\ subs \in [Topic -> [Chan -> Nat]]
  /\ runs \in [Place -> Nat]
  /\ \A t \in Topic : runs[t] > 0 => channel \in Chan

\* The places from which a run still subscribes to topic t.
Before(t) ==
  {"init", "dial", "channel", "call"}
    \cup (IF t # "call" THEN {"cc"} ELSE {}) \cup (IF t = "settings" THEN {"settings"} ELSE {})

\* Topic t has a consumer, or will have one, or is the one that is given up.
Covered(t) ==
  \/ \E c \in Chan : subs[t][c] > 0 /\ Alive(c)
  \/ \E p \in Before(t) : runs[p] > 0
  \/ t = "settings" /\ silenced = "yes"

BrokerInv == RunsTypeOK /\ (exited = "no" => \A t \in Topic : Covered(t))

\* How many consumers end with the channels lost: none only if there are none.
LEMMA ConsumersCount ==
  ASSUME RunsTypeOK, NEW t \in Topic, NEW cs \in SUBSET Chan
  PROVE  /\ Cardinality(Consumers(t, cs)) \in Nat
         /\ Cardinality(Consumers(t, cs)) = 0 => \A c \in cs : subs[t][c] = 0
<1> DEFINE On(c) == {c} \X (1..subs[t][c])
           Sets == {On(c) : c \in cs}
           f == [c \in cs |-> On(c)]
<1>1. IsFiniteSet(cs)
  <2>1. MaxConns \in Int
    BY BrokerAssumption
  <2>2. IsFiniteSet(Chan)
    BY <2>1, FS_Interval DEF Chan, Conn
  <2> QED BY Zenon, <2>2, FS_Subset
<1>2. \A c \in cs : subs[t][c] \in Nat
  BY DEF RunsTypeOK
<1>3. IsFiniteSet(Sets)
  <2>1. f \in Surjection(cs, Sets)
    BY Zenon DEF Surjection
  <2> QED BY Zenon, <1>1, <2>1, FS_Surjection
<1>4. \A s \in Sets : IsFiniteSet(s)
  <2> SUFFICES ASSUME NEW c \in cs PROVE IsFiniteSet(On(c))
    OBVIOUS
  <2>1. IsFiniteSet(1..subs[t][c])
    BY <1>2, FS_Interval
  <2>2. IsFiniteSet({c})
    BY Zenon, FS_Singleton
  <2> QED BY Zenon, <2>1, <2>2, FS_Product
<1>5. Consumers(t, cs) = UNION Sets
  BY Zenon DEF Consumers
<1>6. IsFiniteSet(Consumers(t, cs))
  BY Zenon, <1>3, <1>4, <1>5, FS_UNION
<1>7. ASSUME NEW c \in cs, subs[t][c] # 0 PROVE Consumers(t, cs) # {}
  <2>1. <<c, 1>> \in On(c)
    BY <1>2, <1>7
  <2> HIDE DEF On
  <2> QED BY Zenon, <1>5, <2>1
<1> QED BY Zenon, <1>6, <1>7, FS_CardinalityType, FS_EmptySet

\* A run that goes on to the next place, or ends.
LEMMA RunMoves ==
  ASSUME RunsTypeOK, NEW p \in Place, runs[p] > 0, NEW q \in Place, q # p,
         Move(p, q) \/ Leave(p)
  PROVE  /\ runs' \in [Place -> Nat]
         /\ Move(p, q) => runs'[q] > 0
         /\ \A r \in Place \ {p} : runs'[r] >= runs[r]
BY DEF RunsTypeOK, Move, Leave

\* The part of initConnection before it subscribes, and the calls.
LEMMA LinkStep ==
  ASSUME BrokerInv, exited = "no",
         \/ GiveUp \/ Attempt \/ DialFails \/ Dial \/ OpenChannel
         \/ \E c \in Chan : DeliverCall(c) \/ HandleCall(c) \/ AckCall(c)
  PROVE  BrokerInv'
<1> USE DEF BrokerInv
<1>0. subs' = subs /\ silenced' = silenced /\ dead' = dead
  BY Zenon DEF GiveUp, Attempt, DialFails, Dial, OpenChannel, DeliverCall, HandleCall, AckCall, linkVars
<1>1. CASE GiveUp
  BY <1>1 DEF GiveUp, linkVars, RunsTypeOK
<1>2. CASE \E c \in Chan : DeliverCall(c) \/ HandleCall(c) \/ AckCall(c)
  <2>1. UNCHANGED <<subs, runs, silenced, dead, on, channel, exited>>
    BY Zenon, <1>2 DEF DeliverCall, HandleCall, AckCall, linkVars
  <2> QED BY Zenon, <2>1 DEF RunsTypeOK, Covered, Alive
<1>3. ASSUME NEW p \in {"init", "dial", "channel"}, NEW q \in {"init", "dial", "channel", "call"},
             p # q, runs[p] > 0, Move(p, q), q = "call" => channel' \in Chan,
             channel' = channel \/ channel' \in Chan
      PROVE  BrokerInv'
  <2>1. p \in Place /\ q \in Place /\ \A t \in Topic : q \in Before(t) /\ t \in Place /\ t # p
    BY <1>3 DEF Place, Topic, Before
  <2>2. runs' \in [Place -> Nat] /\ runs'[q] > 0 /\ \A r \in Place \ {p} : runs'[r] >= runs[r]
    BY Zenon, <1>3, <2>1, RunMoves
  <2>3. \A t \in Topic : Covered(t)'
    BY Zenon, <2>1, <2>2 DEF Covered
  <2>4. \A t \in Topic : runs'[t] > 0 => channel' \in Chan
    <3> SUFFICES ASSUME NEW t \in Topic, runs'[t] > 0, channel' = channel PROVE channel' \in Chan
      BY Zenon, <1>3
    <3>1. CASE t = q
      BY Zenon, <1>3, <3>1 DEF Topic
    <3>2. CASE t # q
      BY Zenon, <1>3, <2>1, <3>2 DEF RunsTypeOK, Move
    <3> QED BY <3>1, <3>2
  <2> QED BY Zenon, <1>0, <2>2, <2>3, <2>4 DEF RunsTypeOK
<1>4. CASE Attempt \/ DialFails \/ Dial
  BY Zenon, <1>3, <1>4 DEF Attempt, DialFails, Dial
<1>5. CASE OpenChannel
  <2>1. CASE connection \in dead \cup {0}
    <3>1. exited' = "channel" /\ UNCHANGED <<subs, runs, channel>>
      BY Zenon, <1>5, <2>1 DEF OpenChannel
    <3> QED BY <3>1 DEF RunsTypeOK
  <2>2. CASE connection \notin dead \cup {0}
    BY Zenon, <1>3, <1>5, <2>2 DEF OpenChannel
  <2> QED BY <2>1, <2>2
<1> QED BY Zenon, <1>1, <1>2, <1>4, <1>5

\* A run subscribes to its topic on a live channel, or the process exits.
LEMMA SubscribeStep ==
  ASSUME BrokerInv, exited = "no", SubscribeCall \/ SubscribeCC \/ SubscribeSystemSettings
  PROVE  BrokerInv'
<1> USE DEF BrokerInv
<1>1. PICK t \in Topic, next \in {"cc", "settings", "end"} :
        /\ Subscribe(t, next)
        /\ t = "call" => next = "cc"
        /\ t = "cc" => next = "settings"
        /\ t = "settings" => next = "end"
  BY Zenon DEF SubscribeCall, SubscribeCC, SubscribeSystemSettings, Topic
<1>2. runs[t] > 0 /\ channel \in Chan /\ channel' = channel /\ on' = on /\ dead' = dead
  BY Zenon, <1>1 DEF Subscribe, RunsTypeOK, linkVars
<1>3. CASE Alive(channel) /\ ~(t = "call" /\ subs["call"][channel] > 0)
  <2>1. /\ subs' = [subs EXCEPT ![t][channel] = @ + 1]
        /\ silenced' = IF t = "settings" THEN "no" ELSE silenced
        /\ IF next = "end" THEN Leave(t) ELSE Move(t, next)
    BY Zenon, <1>1, <1>3 DEF Subscribe
  <2>2. /\ subs' \in [Topic -> [Chan -> Nat]]
        /\ subs'[t][channel] > 0
        /\ \A s \in Topic, c \in Chan : subs'[s][c] >= subs[s][c]
    <3>1. subs[t] \in [Chan -> Nat] /\ subs[t][channel] + 1 \in Nat
      BY <1>2 DEF RunsTypeOK
    <3>2. subs' \in [Topic -> [Chan -> Nat]]
      BY Zenon, <2>1, <3>1 DEF RunsTypeOK
    <3>3. \A s \in Topic, c \in Chan :
            subs'[s][c] = IF s = t /\ c = channel THEN subs[s][c] + 1 ELSE subs[s][c]
      BY <2>1, <3>1 DEF RunsTypeOK
    <3>4. \A s \in Topic, c \in Chan : subs[s][c] \in Nat
      BY DEF RunsTypeOK
    <3> QED BY <1>2, <3>1, <3>2, <3>3, <3>4
  <2>3. /\ runs' \in [Place -> Nat]
        /\ next # "end" => runs'[next] > 0
        /\ \A p \in Place \ {t} : runs'[p] >= runs[p]
    BY <1>1, <1>2, <2>1 DEF RunsTypeOK, Move, Leave, Place, Topic
  <2>4. \A s \in Topic : Covered(s)'
    <3> TAKE s \in Topic
    <3>1. Alive(channel)' /\ \A c \in Chan : Alive(c)' <=> Alive(c)
      BY Zenon, <1>2, <1>3 DEF Alive
    <3>2. CASE s = t
      BY Zenon, <1>2, <2>2, <3>1, <3>2 DEF Covered
    <3>3. CASE s # t /\ t \in Before(s)
      <4>1. next \in Before(s) /\ next # "end"
        BY <1>1, <3>3 DEF Before, Topic
      <4> QED BY Zenon, <2>3, <4>1 DEF Covered
    <3>4. CASE s # t /\ t \notin Before(s)
      <4>1. \A p \in Before(s) : p \in Place \ {t} /\ runs[p] \in Nat /\ runs'[p] \in Nat
        BY <2>3, <3>4 DEF Before, Place, Topic, RunsTypeOK
      <4>2. \A p \in Before(s) : runs[p] > 0 => runs'[p] > 0
        BY <2>3, <4>1
      <4>3. \A c \in Chan : subs[s][c] > 0 => subs'[s][c] > 0
        BY <2>2 DEF RunsTypeOK
      <4>4. s = "settings" => FALSE
        BY <3>4 DEF Before, Topic
      <4> QED BY Zenon, <3>1, <4>2, <4>3, <4>4 DEF Covered
    <3> QED BY <3>2, <3>3, <3>4
  <2> QED BY Zenon, <1>2, <2>2, <2>3, <2>4 DEF RunsTypeOK
<1>4. CASE ~(Alive(channel) /\ ~(t = "call" /\ subs["call"][channel] > 0))
  <2>1. exited' \in {"tag", "channel"} /\ UNCHANGED <<subs, runs, channel>>
    BY Zenon, <1>1, <1>2, <1>4 DEF Subscribe
  <2> QED BY <2>1 DEF RunsTypeOK
<1> QED BY <1>3, <1>4

\* Consumers whose deliveries end connect again, unless they are the settings'.
LEMMA EndedStep ==
  ASSUME BrokerInv, exited = "no", exited' = "no", NEW n \in [Topic -> Nat], Ended(n),
         subs' \in [Topic -> [Chan -> Nat]], UNCHANGED <<channel>>,
         \A t \in Topic : n[t] = 0 =>
           \A c \in Chan : subs[t][c] > 0 /\ Alive(c) => subs'[t][c] > 0 /\ Alive(c)'
  PROVE  BrokerInv'
<1> USE DEF BrokerInv
<1>1. /\ runs' = [runs EXCEPT !["init"] = @ + (n["call"] + n["cc"])]
      /\ silenced' = IF n["settings"] > 0 /\ n["call"] + n["cc"] = 0 THEN "yes" ELSE silenced
      /\ \A t \in Topic : n[t] \in Nat
  BY Zenon DEF Ended, Resumes
<1>2. /\ runs' \in [Place -> Nat]
      /\ \A p \in Place : runs'[p] >= runs[p] /\ (p # "init" => runs'[p] = runs[p])
      /\ n["call"] + n["cc"] > 0 => runs'["init"] > 0
  BY <1>1 DEF RunsTypeOK, Topic, Place
<1>3. RunsTypeOK'
  BY <1>2 DEF RunsTypeOK, Topic, Place
<1>4. ASSUME NEW t \in Topic PROVE Covered(t)'
  <2>1. "init" \in Before(t) /\ Before(t) \subseteq Place
    BY <1>4 DEF Before, Place, Topic
  <2>2. CASE n["call"] + n["cc"] > 0
    BY Zenon, <1>2, <2>1, <2>2 DEF Covered
  <2>3. CASE n["call"] + n["cc"] = 0
    <3>1. n["call"] = 0 /\ n["cc"] = 0
      BY <1>1, <2>3 DEF Topic
    <3>2. CASE n[t] = 0
      <4>1. \A p \in Before(t) : runs[p] > 0 => runs'[p] > 0
        BY <1>2, <2>1 DEF RunsTypeOK
      <4>2. silenced = "yes" => silenced' = "yes"
        BY Zenon, <1>1
      <4> QED BY Zenon, <3>2, <4>1, <4>2 DEF Covered
    <3>3. CASE n[t] # 0
      <4>1. t = "settings" /\ n["settings"] > 0
        BY <1>1, <3>1, <3>3 DEF Topic
      <4> QED BY Zenon, <1>1, <2>3, <4>1 DEF Covered
    <3> QED BY <3>2, <3>3
  <2> QED BY <1>1, <2>2, <2>3 DEF Topic
<1> QED BY Zenon, <1>3, <1>4

\* A connection is lost, or the broker cancels a consumer.
LEMMA FaultStep ==
  ASSUME BrokerInv, exited = "no", Faults PROVE BrokerInv'
<1> USE DEF BrokerInv
<1>1. ASSUME NEW k \in Conn, Drop(k) PROVE BrokerInv'
  <2> DEFINE cs == {c \in Chan : on[c] = k}
             n == [t \in Topic |-> Cardinality(Consumers(t, cs))]
  <2>1. /\ subs' = [t \in Topic |-> [c \in Chan |-> IF c \in cs THEN 0 ELSE subs[t][c]]]
        /\ Ended(n)
        /\ dead' = dead \cup {k} /\ UNCHANGED <<on, channel, exited>>
    BY Zenon, <1>1 DEF Drop
  <2>2. \A t \in Topic : n[t] \in Nat /\ (n[t] = 0 => \A c \in cs : subs[t][c] = 0)
    <3>1. cs \in SUBSET Chan
      OBVIOUS
    <3> HIDE DEF cs
    <3> QED BY Zenon, <3>1, ConsumersCount
  <2>3. n \in [Topic -> Nat]
    BY Zenon, <2>2
  <2>4. subs' \in [Topic -> [Chan -> Nat]]
    BY <2>1 DEF RunsTypeOK
  <2>5. ASSUME NEW t \in Topic, n[t] = 0, NEW c \in Chan, subs[t][c] > 0, Alive(c)
        PROVE  subs'[t][c] > 0 /\ Alive(c)'
    <3> HIDE DEF n
    <3>1. c \notin cs
      BY <2>2, <2>5
    <3> QED BY Zenon, <2>1, <2>5, <3>1 DEF Alive
  <2> HIDE DEF n
  <2> QED BY Zenon, <2>1, <2>3, <2>4, <2>5, EndedStep
<1>2. ASSUME NEW t \in Topic, NEW c \in Chan, CancelConsumer(t, c) PROVE BrokerInv'
  <2> DEFINE n == [s \in Topic |-> IF s = t THEN 1 ELSE 0]
  <2>1. /\ subs' = [subs EXCEPT ![t][c] = @ - 1] /\ subs[t][c] > 0
        /\ Ended(n) /\ UNCHANGED <<dead, on, channel, exited>>
    BY Zenon, <1>2 DEF CancelConsumer, linkVars
  <2>2. n \in [Topic -> Nat]
    OBVIOUS
  <2>3. subs[t] \in [Chan -> Nat] /\ subs[t][c] - 1 \in Nat
    BY <2>1 DEF RunsTypeOK
  <2>4. subs' \in [Topic -> [Chan -> Nat]]
    BY <2>1, <2>3 DEF RunsTypeOK
  <2>5. ASSUME NEW s \in Topic, n[s] = 0, NEW d \in Chan, subs[s][d] > 0, Alive(d)
        PROVE  subs'[s][d] > 0 /\ Alive(d)'
    <3>1. s # t
      BY <2>5
    <3>2. subs'[s] = subs[s]
      BY <2>1, <3>1 DEF RunsTypeOK
    <3> QED BY Zenon, <2>1, <2>5, <3>2 DEF Alive
  <2> HIDE DEF n
  <2> QED BY Zenon, <2>1, <2>2, <2>4, <2>5, EndedStep
<1> QED BY <1>1, <1>2 DEF Faults

\* The client begins with a run that subscribes to everything, and keeps it so.
LEMMA BrokerInvariant == SettingsSpec => []BrokerInv
<1>1. SettingsInit => BrokerInv
  BY DEF SettingsInit, BrokerInit, BrokerInv, RunsTypeOK, Covered, Before, Place, Topic
<1>2. ASSUME BrokerInv, [SettingsNext]_allVars PROVE BrokerInv'
  <2>1. CASE exited = "no" /\ (BrokerGoroutines \/ Faults)
    BY Zenon, <1>2, <2>1, LinkStep, SubscribeStep, FaultStep DEF BrokerGoroutines
  <2>2. CASE UNCHANGED <<subs, runs, silenced, dead, on, channel, exited>>
    BY Zenon, <1>2, <2>2 DEF BrokerInv, RunsTypeOK, Covered, Alive
  <2>3. CASE CallStep \/ SettingsStep \/ UNCHANGED allVars
    <3>1. UNCHANGED <<subs, runs, silenced, dead, on, channel, exited>>
      BY Zenon, <2>3 DEF CallStep, PublishCall, SettingsStep, SettingChanged, Listens, RemoveSetting,
         ForgetFlight, ReceiveSettings, Expire, GetMisses, Reads, Do, Query, Land, FillCache,
         allVars, brokerVars, linkVars
    <3> QED BY <2>2, <3>1
  <2> QED BY Zenon, <1>2, <2>1, <2>3 DEF SettingsNext, ClientStep
<1> QED BY <1>1, <1>2, PTL DEF SettingsSpec

\* When no run of initConnection goes on and the process has not exited, every
\* topic has a consumer on a live connection, for any number of connections,
\* faults and runs at the same time, but for the settings if their consumers
\* ended alone.
THEOREM AllListening == SettingsSpec => []Listening
<1>1. BrokerInv => Listening
  <2> SUFFICES ASSUME BrokerInv, Settled, NEW t \in Topic,
                      ~(\E c \in Chan : subs[t][c] > 0 /\ Alive(c))
               PROVE  t = "settings" /\ silenced = "yes"
    BY Zenon DEF Listening
  <2>1. \A p \in Before(t) : p \in Place
    BY DEF Before, Place, Topic
  <2>2. \A p \in Before(t) : ~(runs[p] > 0)
    BY <2>1 DEF Settled
  <2> QED BY Zenon, <2>2 DEF BrokerInv, Settled, Covered
<1> QED BY <1>1, BrokerInvariant, PTL

-----------------------------------------------------------------------------
(* Settings. *)

\* The consumers, and what is on its way to them.
CarryTypeOK ==
  /\ subs \in [Topic -> [Chan -> Nat]]
  /\ sent \in [Chan -> Nat] /\ changes \in Nat /\ db \in Nat

\* A reader has a value only between its query and the cache, and is in its own
\* flight until that ends.
OwnFlight ==
  /\ DOMAIN reader = Readers /\ DOMAIN flight = Readers /\ DOMAIN val = Readers
  /\ group \in Readers \cup {0}
  /\ \A r \in Readers :
       /\ reader[r] \notin {"land", "fill"} => val[r] = 0
       /\ reader[r] \in {"query", "land"} => flight[r] = r
       /\ reader[r] \in {"idle", "miss", "fill"} => flight[r] = 0
  /\ group # 0 => flight[group] = group

\* A change that the listener has not dealt with.
Outstanding ==
  (\E c \in Chan : sent[c] > 0) \/ changes > 0 \/ clear = "forget" \/ lost = "yes"

\* The flight that readers join has an old value only then.
OldFlight == group # 0 => val[group] \in {0, db} \/ Outstanding

SettingsInv == CarryTypeOK /\ OwnFlight /\ OldFlight

\* The steps of the client keep the numbers of the consumers.
LEMMA SubsType ==
  ASSUME CarryTypeOK, BrokerGoroutines \/ Faults
  PROVE  subs' \in [Topic -> [Chan -> Nat]]
<1> USE DEF CarryTypeOK
<1>1. ASSUME NEW t \in Topic, NEW n, Subscribe(t, n) PROVE subs' \in [Topic -> [Chan -> Nat]]
  <2>1. CASE UNCHANGED subs
    BY <2>1
  <2>2. CASE subs' = [subs EXCEPT ![t][channel] = @ + 1]
    <3>1. subs[t] \in [Chan -> Nat]
      OBVIOUS
    <3>2. CASE channel \in Chan
      <4>1. subs[t][channel] + 1 \in Nat
        BY <3>1, <3>2
      <4> QED
        BY <2>2, <3>1, <3>2, <4>1
    <3>3. CASE channel \notin Chan
      <4>1. [subs[t] EXCEPT ![channel] = subs[t][channel] + 1] \in [Chan -> Nat]
        BY Zenon, <3>1, <3>3
      <4> QED
        BY <2>2, <4>1
    <3> QED
      BY <3>2, <3>3
  <2> QED
    BY <1>1, <2>1, <2>2 DEF Subscribe
<1>2. CASE SubscribeCall \/ SubscribeCC \/ SubscribeSystemSettings
  BY <1>1, <1>2 DEF SubscribeCall, SubscribeCC, SubscribeSystemSettings, Topic
<1>3. CASE GiveUp \/ Attempt \/ DialFails \/ Dial \/ OpenChannel
           \/ \E c \in Chan : DeliverCall(c) \/ HandleCall(c) \/ AckCall(c)
  BY <1>3 DEF GiveUp, Attempt, DialFails, Dial, OpenChannel, DeliverCall, HandleCall, AckCall
<1>4. ASSUME NEW k \in Conn, Drop(k) PROVE subs' \in [Topic -> [Chan -> Nat]]
  <2>1. subs' = [t \in Topic |-> [c \in Chan |-> IF c \in {d \in Chan : on[d] = k} THEN 0 ELSE subs[t][c]]]
    BY <1>4 DEF Drop
  <2> QED
    BY <2>1
<1>5. ASSUME NEW t \in Topic, NEW c \in Chan, CancelConsumer(t, c)
      PROVE  subs' \in [Topic -> [Chan -> Nat]]
  <2>1. subs' = [subs EXCEPT ![t][c] = @ - 1] /\ subs[t][c] > 0
    BY <1>5 DEF CancelConsumer
  <2>2. subs[t][c] - 1 \in Nat
    BY <2>1
  <2> QED
    BY <2>1, <2>2
<1> QED
  BY <1>2, <1>3, <1>4, <1>5 DEF BrokerGoroutines, Faults

\* The cache starts in the invariant.
LEMMA SettingsInvInit == SettingsInit => SettingsInv
BY DEF SettingsInit, BrokerInit, SettingsInv, CarryTypeOK, OwnFlight, OldFlight

\* Every step keeps it.
LEMMA SettingsInvNext ==
  ASSUME SettingsInv, SettingsNext PROVE SettingsInv'
<1> USE DEF SettingsInv
<1>1. CASE ClientStep
  <2>1. /\ LoseQueues /\ subs' \in [Topic -> [Chan -> Nat]]
        /\ UNCHANGED <<db, changes, clear, group, reader, flight, val>>
    BY <1>1, SubsType DEF ClientStep, LoseQueues, readVars
  <2>2. sent' \in [Chan -> Nat]
    BY <2>1 DEF LoseQueues, CarryTypeOK
  <2>3. CarryTypeOK' /\ OwnFlight'
    BY <2>1, <2>2 DEF CarryTypeOK, OwnFlight
  <2>4. Outstanding => Outstanding'
    <3>1. CASE sent' = sent
      BY <2>1, <3>1 DEF LoseQueues, Outstanding
    <3>2. CASE sent' # sent
      BY <2>1, <3>2 DEF LoseQueues, Outstanding
    <3> QED
      BY <3>1, <3>2
  <2>5. OldFlight'
    BY <2>1, <2>4 DEF OldFlight
  <2> QED
    BY <2>3, <2>5
<1>2. CASE CallStep
  <2>1. UNCHANGED <<subs, settingsVars>>
    BY <1>2 DEF CallStep, PublishCall
  <2>2. CarryTypeOK' /\ OwnFlight'
    BY <2>1 DEF CarryTypeOK, OwnFlight, settingsVars, readVars
  <2>3. OldFlight'
    BY <2>1 DEF OldFlight, Outstanding, settingsVars, readVars
  <2> QED
    BY <2>2, <2>3
<1>3. CASE SettingChanged
  <2>1. /\ db' = db + 1 /\ UNCHANGED <<subs, changes, clear, group, reader, flight, val>>
        /\ sent' = [c \in Chan |-> sent[c] + subs["settings"][c]]
    BY <1>3 DEF SettingChanged, brokerVars, readVars
  <2>2. sent' \in [Chan -> Nat] /\ \A c \in Chan : sent'[c] = sent[c] + subs["settings"][c]
    BY <2>1 DEF CarryTypeOK, Topic
  <2>3. CarryTypeOK' /\ OwnFlight'
    BY <2>1, <2>2 DEF CarryTypeOK, OwnFlight
  <2>4. Outstanding'
    <3>1. CASE Listeners = {}
      BY <1>3, <3>1 DEF SettingChanged, Outstanding
    <3>2. ASSUME NEW c \in Chan, subs["settings"][c] > 0 PROVE Outstanding'
      <4>1. sent'[c] > 0
        BY <2>2, <3>2 DEF CarryTypeOK, Topic
      <4> QED
        BY <4>1 DEF Outstanding
    <3> QED
      BY <3>1, <3>2 DEF Listeners
  <2> QED
    BY <2>3, <2>4 DEF OldFlight
<1>4. ASSUME NEW c \in Chan, ReceiveSettings(c) PROVE SettingsInv'
  <2>1. /\ sent' = [sent EXCEPT ![c] = sent[c] - 1] /\ sent[c] > 0 /\ changes' = changes + 1
        /\ UNCHANGED <<subs, db, clear, group, reader, flight, val>>
    BY <1>4 DEF ReceiveSettings, brokerVars, readVars
  <2>2. CarryTypeOK' /\ OwnFlight'
    BY <2>1 DEF CarryTypeOK, OwnFlight
  <2>3. Outstanding'
    BY <2>1 DEF Outstanding, CarryTypeOK
  <2> QED
    BY <2>2, <2>3 DEF OldFlight
<1>5. CASE RemoveSetting
  <2>1. /\ changes' = changes - 1 /\ changes > 0 /\ clear' = "forget"
        /\ UNCHANGED <<subs, db, sent, group, reader, flight, val>>
    BY <1>5 DEF RemoveSetting, brokerVars, readVars
  <2> QED
    BY <2>1 DEF CarryTypeOK, OwnFlight, OldFlight, Outstanding
<1>6. CASE ForgetFlight
  <2>1. group' = 0 /\ UNCHANGED <<subs, db, sent, changes, reader, flight, val>>
    BY <1>6 DEF ForgetFlight, brokerVars
  <2> QED
    BY <2>1 DEF CarryTypeOK, OwnFlight, OldFlight
<1>7. CASE Expire
  <2>1. UNCHANGED <<subs, db, sent, changes, clear, group, reader, flight, val, lost>>
    BY <1>7 DEF Expire, brokerVars, readVars
  <2> QED
    BY <2>1 DEF CarryTypeOK, OwnFlight, OldFlight, Outstanding
<1>8. ASSUME NEW r \in Readers, GetMisses(r) \/ Reads(r) PROVE SettingsInv'
  <2>0. /\ UNCHANGED <<subs, db, sent, changes, clear, lost>>
        /\ r # 0
    BY <1>8, SettingsAssumption DEF GetMisses, Reads, Do, Query, Land, FillCache, brokerVars
  <2>1. CarryTypeOK' /\ Outstanding' = Outstanding
    BY <2>0 DEF CarryTypeOK, Outstanding
  <2>2. CASE GetMisses(r)
    <3>1. /\ reader[r] = "idle" /\ reader' = [reader EXCEPT ![r] = "miss"]
          /\ UNCHANGED <<group, flight, val>>
      BY <2>2 DEF GetMisses, At
    <3> QED
      BY <2>0, <2>1, <3>1 DEF OwnFlight, OldFlight
  <2>3. CASE Do(r)
    <3>1. reader[r] = "miss" /\ UNCHANGED val /\ val[r] = 0
      BY <2>3 DEF Do, OwnFlight
    <3>2. CASE group = 0
      <4>1. /\ group' = r /\ reader' = [reader EXCEPT ![r] = "query"]
            /\ flight' = [flight EXCEPT ![r] = r]
        BY <2>3, <3>2 DEF Do, At
      <4> QED
        BY <2>1, <3>1, <4>1 DEF OwnFlight, OldFlight
    <3>3. CASE group # 0
      <4>1. /\ group' = group /\ reader' = [reader EXCEPT ![r] = "wait"]
            /\ flight' = [flight EXCEPT ![r] = group]
        BY <2>3, <3>3 DEF Do, At
      <4> QED
        BY <2>0, <2>1, <3>1, <4>1 DEF OwnFlight, OldFlight
    <3> QED
      BY <3>2, <3>3
  <2>4. CASE Query(r)
    <3>1. /\ reader[r] = "query" /\ reader' = [reader EXCEPT ![r] = "land"]
          /\ val' = [val EXCEPT ![r] = db] /\ UNCHANGED <<group, flight>>
      BY <2>4 DEF Query, At
    <3>2. OwnFlight'
      BY <3>1 DEF OwnFlight
    <3>3. OldFlight'
      BY <2>0, <2>1, <3>1 DEF OwnFlight, OldFlight
    <3> QED
      BY <2>1, <3>2, <3>3
  <2>5. CASE Land(r)
    <3>1. PICK fillers \in {{}, Fillers(r)} :
            /\ reader' = [q \in Readers |->
                            IF flight[q] # r THEN reader[q]
                            ELSE IF q \in fillers THEN "fill" ELSE "idle"]
            /\ val' = [q \in Readers |->
                         IF flight[q] # r THEN val[q]
                         ELSE IF q \in fillers THEN val[r] ELSE 0]
      BY Zenon, <2>5 DEF Land
    <3>2. /\ reader[r] = "land" /\ flight[r] = r
          /\ group' = IF group = r THEN 0 ELSE group
          /\ flight' = [q \in Readers |-> IF flight[q] = r THEN 0 ELSE flight[q]]
      BY <2>5 DEF Land, OwnFlight
    <3>3. \A q \in Readers :
            IF flight[q] = r
              THEN /\ flight'[q] = 0 /\ reader'[q] \in {"fill", "idle"}
                   /\ reader'[q] = "idle" => val'[q] = 0
              ELSE flight'[q] = flight[q] /\ reader'[q] = reader[q] /\ val'[q] = val[q]
      BY Zenon, <3>1, <3>2
    <3>4. OwnFlight'
      <4>1. /\ DOMAIN reader' = Readers /\ DOMAIN flight' = Readers /\ DOMAIN val' = Readers
            /\ group' \in Readers \cup {0}
        BY <3>1, <3>2 DEF OwnFlight
      <4>2. ASSUME NEW q \in Readers
            PROVE  /\ reader'[q] \notin {"land", "fill"} => val'[q] = 0
                   /\ reader'[q] \in {"query", "land"} => flight'[q] = q
                   /\ reader'[q] \in {"idle", "miss", "fill"} => flight'[q] = 0
        <5>1. CASE flight[q] = r
          BY <3>3, <5>1
        <5>2. CASE flight[q] # r
          BY Zenon, <3>3, <5>2 DEF OwnFlight
        <5> QED
          BY Zenon, <5>1, <5>2
      <4>3. ASSUME group' # 0 PROVE flight'[group'] = group'
        BY Zenon, <3>2, <3>3, <4>3 DEF OwnFlight
      <4> QED
        BY Zenon, <4>1, <4>2, <4>3 DEF OwnFlight
    <3>5. OldFlight'
      <4>1. CASE group' = 0
        BY Zenon, <4>1 DEF OldFlight
      <4>2. CASE group' # 0
        <5>1. group' = group /\ group \in Readers /\ flight[group] # r
          BY Zenon, <3>2, <4>2 DEF OwnFlight
        <5>2. val'[group] = val[group]
          BY Zenon, <3>3, <5>1
        <5> QED
          BY Zenon, <2>0, <2>1, <4>2, <5>1, <5>2 DEF OldFlight
      <4> QED
        BY Zenon, <4>1, <4>2
    <3> QED
      BY <2>1, <3>4, <3>5
  <2>6. CASE FillCache(r)
    <3>1. /\ reader[r] = "fill" /\ reader' = [reader EXCEPT ![r] = "idle"]
          /\ val' = [val EXCEPT ![r] = 0] /\ UNCHANGED <<group, flight>>
      BY <2>6 DEF FillCache, At
    <3>2. OwnFlight'
      BY <3>1 DEF OwnFlight
    <3>3. OldFlight'
      BY <2>0, <2>1, <3>1 DEF OwnFlight, OldFlight
    <3> QED
      BY <2>1, <3>2, <3>3
  <2> QED
    BY <1>8, <2>2, <2>3, <2>4, <2>5, <2>6 DEF Reads
<1> QED
  BY <1>1, <1>2, <1>3, <1>4, <1>5, <1>6, <1>7, <1>8 DEF SettingsNext, SettingsStep, Listens

\* A reader never joins a flight with an old value once the listener has dealt
\* with every announcement, for any number of readers and changes, unless an
\* announcement was lost (listenSystemSettingsEvents, systemc_settings.go).
THEOREM FlightsFresh == SettingsSpec => []FreshFlights
<1>1. ASSUME SettingsInv, UNCHANGED allVars PROVE SettingsInv'
  BY <1>1 DEF SettingsInv, CarryTypeOK, OwnFlight, OldFlight, Outstanding, allVars,
              settingsVars, brokerVars, readVars
<1>2. SettingsInv => FreshFlights
  BY DEF SettingsInv, CarryTypeOK, OldFlight, Outstanding, FreshFlights
<1> QED
  BY <1>1, <1>2, SettingsInvInit, SettingsInvNext, PTL DEF SettingsSpec

=============================================================================
