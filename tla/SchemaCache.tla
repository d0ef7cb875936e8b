----------------------------- MODULE SchemaCache -----------------------------
(***************************************************************************)
(* GetSchemaById and GetSchema of app/schema.go for one schema: concurrent *)
(* callers share a cache and two kinds of singleflight lookups, one for    *)
(* the updated_at stamp of the schema and one, per stamp, for its text.    *)
(* Every query goes to some replica of the database; a version is the      *)
(* updated_at of the row.                                                  *)
(*                                                                         *)
(* A singleflight call is named by the caller that leads it: the others    *)
(* wait and get its result when it ends.                                   *)
(***************************************************************************)
EXTENDS Naturals

CONSTANTS Callers,     \* goroutines that call GetSchemaById
          Databases,   \* databases of the cluster
          MaxVersion,  \* bound on updates of the schema
          None

Version == 0..MaxVersion

ASSUME MaxVersionAssumption == MaxVersion \in Nat
ASSUME NoneAssumption == None \notin Callers /\ None \notin Version

VARIABLES replicas,    \* the databases GetReplica chooses from, by configuration
          master,      \* version in the master database
          replica,     \* version in each replica
          cache,       \* schemaCache: version of the cached schema ...
          cachedAt,    \* ... and its UpdatedAt
          stampCall,   \* requestGroup: leader of the GetSchemaById call
          loadCall,    \* requestGroup: leader of the GetSchema call of a stamp
          caller       \* the callers

vars == <<replicas, master, replica, cache, cachedAt, stampCall, loadCall, caller>>

Pc == {"idle", "stamp", "stamped", "stampWait", "check", "load", "loading",
       "loaded", "loadWait", "add", "returned"}

Caller == [pc: Pc, leader: Callers \cup {None}, since: Version \cup {None},
           updatedAt: Version \cup {None}, schema: Version \cup {None}]

Idle == [pc |-> "idle", leader |-> None, since |-> None, updatedAt |-> None, schema |-> None]

\* The shapes of the state.
TypeOK ==
  /\ master \in Version
  /\ replicas \subseteq Databases
  /\ replica \in [Databases -> Version]
  /\ cache \in Version \cup {None}
  /\ cachedAt \in Version \cup {None}
  /\ stampCall \in Callers \cup {None}
  /\ loadCall \in [Version -> Callers \cup {None}]
  /\ caller \in [Callers -> Caller]

Init ==
  /\ replicas \in SUBSET Databases \ {{}}
  /\ master = 0
  /\ replica = [r \in Databases |-> 0]
  /\ cache = None /\ cachedAt = None
  /\ stampCall = None
  /\ loadCall = [v \in Version |-> None]
  /\ caller = [p \in Callers |-> Idle]

-----------------------------------------------------------------------------
(* The database. *)

Update ==
  /\ master < MaxVersion
  /\ master' = master + 1
  /\ UNCHANGED <<replicas, replica, cache, cachedAt, stampCall, loadCall, caller>>

Replicate(r) ==
  /\ replica[r] < master
  /\ replica' = [replica EXCEPT ![r] = master]
  /\ UNCHANGED <<replicas, master, cache, cachedAt, stampCall, loadCall, caller>>

\* The LRU cache may forget at any time.
Evict ==
  /\ cache # None
  /\ cache' = None /\ cachedAt' = None
  /\ UNCHANGED <<replicas, master, replica, stampCall, loadCall, caller>>

-----------------------------------------------------------------------------
(* A caller. *)

Step(p, from, to) == caller[p].pc = from /\ caller' = [caller EXCEPT ![p].pc = to]

\* The oldest version a query started now can return.
Oldest == CHOOSE v \in Version : /\ \E r \in replicas : replica[r] = v
                                 /\ \A r \in replicas : replica[r] >= v

\* requestGroup.Do("GetSchemaById-..."): lead a new call ...
StampLead(p) ==
  /\ caller[p].pc = "idle"
  /\ stampCall = None
  /\ stampCall' = p
  /\ caller' = [caller EXCEPT ![p] = [Idle EXCEPT !.pc = "stamp", !.since = Oldest]]
  /\ UNCHANGED <<replicas, master, replica, cache, cachedAt, loadCall>>

\* ... or join the one that is under way.
StampJoin(p) ==
  /\ caller[p].pc = "idle"
  /\ stampCall # None
  /\ caller' = [caller EXCEPT ![p] = [Idle EXCEPT !.pc = "stampWait", !.leader = stampCall,
                                                  !.since = caller[stampCall].since]]
  /\ UNCHANGED <<replicas, master, replica, cache, cachedAt, stampCall, loadCall>>

GetUpdatedAt(p) ==
  /\ caller[p].pc = "stamp"
  /\ \E r \in replicas :
       caller' = [caller EXCEPT ![p] = [@ EXCEPT !.pc = "stamped", !.updatedAt = replica[r]]]
  /\ UNCHANGED <<replicas, master, replica, cache, cachedAt, stampCall, loadCall>>

\* The leader of a call and all who joined it.
Shares(p, wait) == {p} \cup {q \in Callers : caller[q].pc = wait /\ caller[q].leader = p}

\* The call ends: its result goes to the leader and to all who joined it.
StampDone(p) ==
  /\ caller[p].pc = "stamped"
  /\ stampCall' = None
  /\ caller' = [q \in Callers |->
       IF q \in Shares(p, "stampWait")
       THEN [caller[q] EXCEPT !.pc = "check", !.leader = None, !.updatedAt = caller[p].updatedAt]
       ELSE caller[q]]
  /\ UNCHANGED <<replicas, master, replica, cache, cachedAt, loadCall>>

\* An error of the query goes to all of them.
StampFails(p) ==
  /\ caller[p].pc = "stamp"
  /\ stampCall' = None
  /\ caller' = [q \in Callers |->
       IF q \in Shares(p, "stampWait")
       THEN Idle ELSE caller[q]]
  /\ UNCHANGED <<replicas, master, replica, cache, cachedAt, loadCall>>

\* A cached schema is used only if its stamp is the one just read.
CheckCache(p) ==
  /\ caller[p].pc = "check"
  /\ caller' = [caller EXCEPT ![p] =
       IF cachedAt = caller[p].updatedAt
       THEN [@ EXCEPT !.pc = "returned", !.schema = cache]
       ELSE [@ EXCEPT !.pc = "load"]]
  /\ UNCHANGED <<replicas, master, replica, cache, cachedAt, stampCall, loadCall>>

\* Mutant: the key of the call leaves the stamp out.
CallKeyNoStamp(p) == 0

\* The key of the call: domain, schema and stamp.
CallKey(p) == caller[p].updatedAt

\* requestGroup.Do("GetSchema-...-updatedAt"): likewise.
LoadLead(p) ==
  /\ Step(p, "load", "loading")
  /\ loadCall[CallKey(p)] = None
  /\ loadCall' = [loadCall EXCEPT ![CallKey(p)] = p]
  /\ UNCHANGED <<replicas, master, replica, cache, cachedAt, stampCall>>

LoadJoin(p) ==
  /\ caller[p].pc = "load"
  /\ loadCall[CallKey(p)] # None
  /\ caller' = [caller EXCEPT ![p] = [@ EXCEPT !.pc = "loadWait", !.leader = loadCall[CallKey(p)]]]
  /\ UNCHANGED <<replicas, master, replica, cache, cachedAt, stampCall, loadCall>>

Load(p) ==
  /\ caller[p].pc = "loading"
  /\ \E r \in replicas :
       caller' = [caller EXCEPT ![p] = [@ EXCEPT !.pc = "loaded", !.schema = replica[r]]]
  /\ UNCHANGED <<replicas, master, replica, cache, cachedAt, stampCall, loadCall>>

LoadDone(p) ==
  /\ caller[p].pc = "loaded"
  /\ loadCall' = [loadCall EXCEPT ![CallKey(p)] = None]
  /\ caller' = [q \in Callers |->
       IF q \in Shares(p, "loadWait")
       THEN [caller[q] EXCEPT !.pc = "add", !.leader = None, !.schema = caller[p].schema]
       ELSE caller[q]]
  /\ UNCHANGED <<replicas, master, replica, cache, cachedAt, stampCall>>

LoadFails(p) ==
  /\ caller[p].pc = "loading"
  /\ loadCall' = [loadCall EXCEPT ![CallKey(p)] = None]
  /\ caller' = [q \in Callers |->
       IF q \in Shares(p, "loadWait")
       THEN Idle ELSE caller[q]]
  /\ UNCHANGED <<replicas, master, replica, cache, cachedAt, stampCall>>

\* Mutant: the schema is cached under the stamp that was asked for.
AddToCacheAsked(p) ==
  /\ Step(p, "add", "returned")
  /\ cache' = caller[p].schema /\ cachedAt' = caller[p].updatedAt
  /\ UNCHANGED <<replicas, master, replica, stampCall, loadCall>>

\* Everyone who got the schema from the database caches it, in any order, with
\* the UpdatedAt that came with it.
AddToCache(p) ==
  /\ Step(p, "add", "returned")
  /\ cache' = caller[p].schema /\ cachedAt' = caller[p].schema
  /\ UNCHANGED <<replicas, master, replica, stampCall, loadCall>>

Return(p) ==
  /\ caller[p].pc = "returned"
  /\ caller' = [caller EXCEPT ![p] = Idle]
  /\ UNCHANGED <<replicas, master, replica, cache, cachedAt, stampCall, loadCall>>

Work(p) ==
  \/ GetUpdatedAt(p) \/ StampDone(p) \/ CheckCache(p) \/ LoadLead(p) \/ LoadJoin(p)
  \/ Load(p) \/ LoadDone(p) \/ AddToCache(p) \/ Return(p)

Next ==
  \/ Update \/ Evict \/ \E r \in replicas : Replicate(r)
  \/ \E p \in Callers : \/ Work(p) \/ StampLead(p) \/ StampJoin(p)
                        \/ StampFails(p) \/ LoadFails(p)

Spec == Init /\ [][Next]_vars

\* Goroutines run and replicas catch up; nobody has to call or to update.
FairSpec ==
  /\ Spec
  /\ \A p \in Callers : WF_vars(Work(p))
  /\ \A r \in Databases : WF_vars(r \in replicas /\ Replicate(r))

-----------------------------------------------------------------------------
(* Properties. *)

\* With one database, a caller never gets a schema older than the one that was
\* there when the lookup it shares began, although the cache may go back to an
\* older version and a load may be shared with earlier callers.
NotOlder ==
  (\E r \in Databases : replicas = {r}) =>
    \A p \in Callers :
      caller[p].pc = "returned" => caller[p].schema >= caller[p].since

\* With several replicas that may be behind each other, callers get the last
\* version for good some time after it has reached every replica.
CatchesUp ==
  (\A r \in replicas : replica[r] = MaxVersion)
    ~> [](\A p \in Callers : caller[p].pc = "returned" => caller[p].schema = MaxVersion)

=============================================================================
