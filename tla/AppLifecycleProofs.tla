----------------------- MODULE AppLifecycleProofs -----------------------
(***************************************************************************)
(* LifecycleInv is an invariant of AppLifecycle for every number of        *)
(* processes, outages, logins and fixture users, and every size of pool    *)
(* and warm up: fixtures are loaded completely or not at all, connections  *)
(* are given back, and failures have a cause.                              *)
(***************************************************************************)
EXTENDS AppLifecycle, FiniteSetTheorems, TLAPS

(* Type correctness is preserved. *)
LEMMA TypeStep ==
    ASSUME LifecycleInv, [Next]_vars
    PROVE  TypeOK'
<1> USE LifecycleAssumption DEF LifecycleInv, LifecycleAssumption
<1>1. ASSUME Start
      PROVE  TypeOK'
  <2>1. runs' \in 0 .. MaxRuns /\ UNCHANGED <<up, outages, migrated, stored, batch>>
    BY <1>1 DEF Start, rows, TypeOK
  <2>2. outage' \in BOOLEAN
    BY <1>1 DEF Start
  <2> QED
    BY <1>1, <2>1, <2>2 DEF Start, ReadsConfiguration, TypeOK
<1>2. ASSUME InstallKoin
      PROVE  TypeOK'
  BY <1>2 DEF InstallKoin, Installed, database, rows, TypeOK
<1>3. ASSUME InstallHikariCP
      PROVE  TypeOK'
  BY <1>3 DEF InstallHikariCP, Installed, database, rows, TypeOK
<1>4. ASSUME InstallWebRouting
      PROVE  TypeOK'
  BY <1>4 DEF InstallWebRouting, Installed, database, rows, TypeOK
<1>5. ASSUME CreatePool
      PROVE  TypeOK'
  BY <1>5 DEF CreatePool, Goes, database, rows, TypeOK
<1>6. ASSUME TakeDropConnection
      PROVE  TypeOK'
  BY <1>6 DEF TakeDropConnection, Goes, database, rows, TypeOK
<1>7. ASSUME PrepareDrop
      PROVE  TypeOK'
  BY <1>7
     DEF PrepareDrop, Steps, Installing, Goes, database, rows, TypeOK,
         PoolInv
<1>8. ASSUME Migrate
      PROVE  TypeOK'
  BY <1>8 DEF Migrate, Goes, rows, TypeOK
<1>9. ASSUME BeginLoad
      PROVE  TypeOK'
  BY <1>9 DEF BeginLoad, Goes, database, rows, TypeOK
<1>10. ASSUME InsertUser
      PROVE  TypeOK'
  BY <1>10 DEF InsertUser, Goes, database, TypeOK, WithNext, Counts
<1>11. ASSUME CommitLoad
      PROVE  TypeOK'
  BY <1>11
     DEF CommitLoad, Steps, Installing, Goes, database, TypeOK, Plus, Counts,
         NoUsers, PoolInv
<1>12. ASSUME Exit
      PROVE  TypeOK'
  BY <1>12 DEF Exit, Moves, database, rows, TypeOK, Gone
<1>13. ASSUME TakeWarmUpConnection
      PROVE  TypeOK'
  BY <1>13 DEF TakeWarmUpConnection, Goes, database, rows, TypeOK
<1>14. ASSUME EvictWarmUpConnection
      PROVE  TypeOK'
  BY <1>14
     DEF EvictWarmUpConnection, EvictUnless, Steps, Installing, Goes,
         Installed, database, rows, TypeOK, PoolInv
<1>15. ASSUME FailStart
      PROVE  TypeOK'
  BY <1>15 DEF FailStart, Moves, database, TypeOK, Counts, NoUsers
<1>16. ASSUME Serve
      PROVE  TypeOK'
  BY <1>16 DEF Serve, Moves, database, rows, TypeOK
<1>17. ASSUME AddShutdownHook
      PROVE  TypeOK'
  BY <1>17 DEF AddShutdownHook, code, database, rows, TypeOK
<1>18. ASSUME NEW r \in Requests, Accept(r)
      PROVE  TypeOK'
  BY <1>18 DEF Accept, Becomes, code, database, rows, TypeOK
<1>19. ASSUME NEW r \in Requests, Connect(r)
      PROVE  TypeOK'
  BY <1>19 DEF Connect, Becomes, code, database, rows, TypeOK
<1>20. ASSUME NEW r \in Requests, LogIn(r)
      PROVE  TypeOK'
  BY <1>20 DEF LogIn, Becomes, Answer, code, database, rows, TypeOK, Outcome
<1>21. ASSUME NEW r \in Requests, FailLogIn(r)
      PROVE  TypeOK'
  BY <1>21 DEF FailLogIn, Becomes, Answer, code, database, rows, TypeOK
<1>22. ASSUME Signal
      PROVE  TypeOK'
  BY <1>22 DEF Signal, Moves, database, rows, TypeOK
<1>23. ASSUME StopEngine
      PROVE  TypeOK'
  BY <1>23 DEF StopEngine, Moves, database, rows, TypeOK
<1>24. ASSUME CloseKoin
      PROVE  TypeOK'
  BY <1>24 DEF CloseKoin, DropRequests, database, rows, TypeOK, Gone
<1>25. ASSUME Kill
      PROVE  TypeOK'
  BY <1>25
     DEF Kill, Moves, DropRequests, database, TypeOK, Gone, Counts, NoUsers
<1>26. ASSUME GoDown
      PROVE  TypeOK'
  <2>1. outages' \in 0 .. MaxOutages
    BY <1>26 DEF GoDown, TypeOK
  <2> QED
    BY <1>26, <2>1 DEF GoDown, TypeOK, Counts, NoUsers
<1>27. ASSUME GoDownAfterCommit
      PROVE  TypeOK'
  <2>1. outages' \in 0 .. MaxOutages
    BY <1>27 DEF GoDownAfterCommit, TypeOK
  <2>2. stored' \in Counts /\ batch' \in Counts
    BY <1>27 DEF GoDownAfterCommit, TypeOK, Plus, Counts, NoUsers
  <2>3. up' \in BOOLEAN /\ outage' \in BOOLEAN
    BY <1>27 DEF GoDownAfterCommit
  <2> QED
    BY <1>27, <2>1, <2>2, <2>3 DEF GoDownAfterCommit, Goes, TypeOK
<1>28. ASSUME ComeUp
      PROVE  TypeOK'
  BY <1>28 DEF ComeUp, code, rows, TypeOK
<1>29. CASE UNCHANGED vars
  BY <1>29 DEF vars, code, database, rows, TypeOK
<1> QED
  BY <1>1, <1>2, <1>3, <1>4, <1>5, <1>6, <1>7, <1>8, <1>9, <1>10, <1>11, <1>12, <1>13, <1>14, <1>15, <1>16, <1>17, <1>18, <1>19, <1>20, <1>21, <1>22, <1>23, <1>24, <1>25, <1>26, <1>27, <1>28, <1>29
     DEF Next, Install, Stop, Terminated

(* What is stored of the fixtures, and what is about to be. *)
LEMMA LoadStep ==
    ASSUME LifecycleInv, [Next]_vars
    PROVE  LoadInv'
<1> USE DEF LifecycleInv
<1>1. ASSUME Start
      PROVE  LoadInv'
  BY <1>1 DEF Start, rows, LoadInv, FixturesAreAtomic, Gone
<1>2. ASSUME InstallKoin
      PROVE  LoadInv'
  BY <1>2 DEF InstallKoin, Steps, Installed, rows, LoadInv, FixturesAreAtomic
<1>3. ASSUME InstallHikariCP
      PROVE  LoadInv'
  BY <1>3
     DEF InstallHikariCP, Steps, Installed, rows, LoadInv, FixturesAreAtomic
<1>4. ASSUME InstallWebRouting
      PROVE  LoadInv'
  BY <1>4
     DEF InstallWebRouting, Steps, Installed, rows, LoadInv,
         FixturesAreAtomic
<1>5. ASSUME CreatePool
      PROVE  LoadInv'
  BY <1>5 DEF CreatePool, Steps, Goes, rows, LoadInv, FixturesAreAtomic
<1>6. ASSUME TakeDropConnection
      PROVE  LoadInv'
  BY <1>6
     DEF TakeDropConnection, Steps, Goes, rows, LoadInv, FixturesAreAtomic
<1>7. ASSUME PrepareDrop
      PROVE  LoadInv'
  BY <1>7 DEF PrepareDrop, Steps, Goes, rows, LoadInv, FixturesAreAtomic
<1>8. ASSUME Migrate
      PROVE  LoadInv'
  BY <1>8 DEF Migrate, Steps, Goes, rows, LoadInv, FixturesAreAtomic
<1>9. ASSUME BeginLoad
      PROVE  LoadInv'
  BY <1>9 DEF BeginLoad, Goes, rows, LoadInv, FixturesAreAtomic
<1>10. ASSUME InsertUser
      PROVE  LoadInv'
  BY <1>10
     DEF InsertUser, Steps, Installing, Goes, LoadInv, FixturesAreAtomic,
         WithNext, TypeOK, Counts
<1>11. ASSUME CommitLoad
      PROVE  LoadInv'
  BY <1>11
     DEF CommitLoad, Steps, Goes, LoadInv, FixturesAreAtomic, NoUsers, Plus,
         TypeOK, Counts
<1>12. ASSUME Exit
      PROVE  LoadInv'
  BY <1>12 DEF Exit, Steps, Moves, rows, LoadInv, FixturesAreAtomic
<1>13. ASSUME TakeWarmUpConnection
      PROVE  LoadInv'
  BY <1>13
     DEF TakeWarmUpConnection, Steps, Goes, rows, LoadInv, FixturesAreAtomic
<1>14. ASSUME EvictWarmUpConnection
      PROVE  LoadInv'
  BY <1>14
     DEF EvictWarmUpConnection, EvictUnless, Steps, Goes, Installed, rows,
         LoadInv, FixturesAreAtomic
<1>15. ASSUME FailStart
      PROVE  LoadInv'
  BY <1>15 DEF FailStart, Moves, LoadInv, FixturesAreAtomic, NoUsers
<1>16. ASSUME Serve
      PROVE  LoadInv'
  BY <1>16 DEF Serve, Steps, Moves, rows, LoadInv, FixturesAreAtomic
<1>17. ASSUME AddShutdownHook
      PROVE  LoadInv'
  BY <1>17 DEF AddShutdownHook, code, rows, LoadInv, FixturesAreAtomic
<1>18. ASSUME NEW r \in Requests, Accept(r)
      PROVE  LoadInv'
  BY <1>18 DEF Accept, code, rows, LoadInv, FixturesAreAtomic
<1>19. ASSUME NEW r \in Requests, Connect(r)
      PROVE  LoadInv'
  BY <1>19 DEF Connect, code, rows, LoadInv, FixturesAreAtomic
<1>20. ASSUME NEW r \in Requests, LogIn(r)
      PROVE  LoadInv'
  BY <1>20 DEF LogIn, code, rows, LoadInv, FixturesAreAtomic
<1>21. ASSUME NEW r \in Requests, FailLogIn(r)
      PROVE  LoadInv'
  BY <1>21 DEF FailLogIn, code, rows, LoadInv, FixturesAreAtomic
<1>22. ASSUME Signal
      PROVE  LoadInv'
  BY <1>22 DEF Signal, Moves, rows, LoadInv, FixturesAreAtomic
<1>23. ASSUME StopEngine
      PROVE  LoadInv'
  BY <1>23 DEF StopEngine, Moves, rows, LoadInv, FixturesAreAtomic
<1>24. ASSUME CloseKoin
      PROVE  LoadInv'
  BY <1>24 DEF CloseKoin, rows, LoadInv, FixturesAreAtomic
<1>25. ASSUME Kill
      PROVE  LoadInv'
  BY <1>25 DEF Kill, Moves, LoadInv, FixturesAreAtomic, NoUsers
<1>26. ASSUME GoDown
      PROVE  LoadInv'
  BY <1>26 DEF GoDown, LoadInv, FixturesAreAtomic, NoUsers
<1>27. ASSUME GoDownAfterCommit
      PROVE  LoadInv'
  BY <1>27
     DEF GoDownAfterCommit, Steps, Goes, LoadInv, FixturesAreAtomic, NoUsers,
         Plus, TypeOK, Counts
<1>28. ASSUME ComeUp
      PROVE  LoadInv'
  BY <1>28 DEF ComeUp, code, rows, LoadInv, FixturesAreAtomic
<1>29. CASE UNCHANGED vars
  BY <1>29 DEF vars, code, rows, LoadInv, FixturesAreAtomic
<1> QED
  BY <1>1, <1>2, <1>3, <1>4, <1>5, <1>6, <1>7, <1>8, <1>9, <1>10, <1>11, <1>12, <1>13, <1>14, <1>15, <1>16, <1>17, <1>18, <1>19, <1>20, <1>21, <1>22, <1>23, <1>24, <1>25, <1>26, <1>27, <1>28, <1>29
     DEF Next, Install, Stop, Terminated

(* The order of the features depends on the environment only. *)
LEMMA FeaturesStay ==
    ASSUME environment' = environment
    PROVE  Features' = Features
  BY DEF Features, LoadsFixtures, IsProd

(* How the connections that requests hold are counted. *)
LEMMA BusyCount ==
    ASSUME TypeOK
    PROVE  /\ IsFiniteSet(Busy)
           /\ Cardinality(Busy) \in Nat
           /\ Busy = {} => Cardinality(Busy) = 0
<1>1. IsFiniteSet(Busy)
  BY LifecycleAssumption, FS_Subset DEF LifecycleAssumption, Busy
<1> QED
  BY <1>1, FS_CardinalityType, FS_EmptySet

(* A step that adds no request to those that hold a connection. *)
LEMMA BusyShrinks ==
    ASSUME TypeOK, TypeOK', Busy' \subseteq Busy
    PROVE  Cardinality(Busy') \in Nat /\ Cardinality(Busy') <= Cardinality(Busy)
  BY BusyCount, FS_Subset, FS_CardinalityType

(* What connections are held, and by whom. *)
LEMMA PoolStep ==
    ASSUME LifecycleInv, TypeOK', [Next]_vars
    PROVE  PoolInv'
<1> USE DEF LifecycleInv, LifecycleAssumption
<1>0. poolMaxSize \in Nat \ {0} /\ held \in Nat /\ poolMaxSize' \in Nat \ {0}
  BY LifecycleAssumption DEF TypeOK
<1>1. ASSUME Start
      PROVE  PoolInv'
  <2>1. Busy' = {}
    BY <1>1 DEF Start, Busy
  <2>2. Cardinality(Busy') = 0
    BY <2>1, FS_EmptySet
  <2> QED
    BY <1>0, <1>1, <2>1, <2>2, BusyCount
       DEF Start, PoolInv, ConnectionsAreGivenBack, Taken
<1>2. ASSUME InstallKoin
      PROVE  PoolInv'
  <2>1. Busy' = Busy
    BY <1>2 DEF InstallKoin, Busy
  <2>2. Cardinality(Busy') \in Nat /\ Cardinality(Busy') <= Cardinality(Busy)
    BY <2>1, BusyCount, BusyShrinks
  <2> QED
    BY <1>0, <1>2, <2>1, <2>2, BusyCount
       DEF InstallKoin, Steps, Installed, PoolInv, ConnectionsAreGivenBack,
           Alive, Taken
<1>3. ASSUME InstallHikariCP
      PROVE  PoolInv'
  <2>1. Busy' = Busy
    BY <1>3 DEF InstallHikariCP, Busy
  <2>2. Cardinality(Busy') \in Nat /\ Cardinality(Busy') <= Cardinality(Busy)
    BY <2>1, BusyCount, BusyShrinks
  <2> QED
    BY <1>0, <1>3, <2>1, <2>2, BusyCount
       DEF InstallHikariCP, Steps, Installed, PoolInv,
           ConnectionsAreGivenBack, Alive, Taken
<1>4. ASSUME InstallWebRouting
      PROVE  PoolInv'
  <2>1. Busy' = Busy
    BY <1>4 DEF InstallWebRouting, Busy
  <2>2. Cardinality(Busy') \in Nat /\ Cardinality(Busy') <= Cardinality(Busy)
    BY <2>1, BusyCount, BusyShrinks
  <2> QED
    BY <1>0, <1>4, <2>1, <2>2, BusyCount
       DEF InstallWebRouting, Steps, Installed, PoolInv,
           ConnectionsAreGivenBack, Alive, Taken
<1>5. ASSUME CreatePool
      PROVE  PoolInv'
  <2>1. Busy' = Busy
    BY <1>5 DEF CreatePool, Busy
  <2>2. Cardinality(Busy') \in Nat /\ Cardinality(Busy') <= Cardinality(Busy)
    BY <2>1, BusyCount, BusyShrinks
  <2> QED
    BY <1>0, <1>5, <2>1, <2>2, BusyCount
       DEF CreatePool, Steps, Installing, Goes, PoolInv,
           ConnectionsAreGivenBack, Alive, Taken
<1>6. ASSUME TakeDropConnection
      PROVE  PoolInv'
  <2>1. Busy' = Busy
    BY <1>6 DEF TakeDropConnection, Busy
  <2>2. Cardinality(Busy') \in Nat /\ Cardinality(Busy') <= Cardinality(Busy)
    BY <2>1, BusyCount, BusyShrinks
  <2> QED
    BY <1>0, <1>6, <2>1, <2>2, BusyCount
       DEF TakeDropConnection, Steps, Installing, Goes, PoolInv,
           ConnectionsAreGivenBack, Alive, Taken
<1>7. ASSUME PrepareDrop
      PROVE  PoolInv'
  <2>1. Busy' = Busy
    BY <1>7 DEF PrepareDrop, Busy
  <2>2. Cardinality(Busy') \in Nat /\ Cardinality(Busy') <= Cardinality(Busy)
    BY <2>1, BusyCount, BusyShrinks
  <2> QED
    BY <1>0, <1>7, <2>1, <2>2, BusyCount
       DEF PrepareDrop, Steps, Installing, Goes, PoolInv,
           ConnectionsAreGivenBack, Taken
<1>8. ASSUME Migrate
      PROVE  PoolInv'
  <2>1. Busy' = Busy
    BY <1>8 DEF Migrate, Busy
  <2>2. Cardinality(Busy') \in Nat /\ Cardinality(Busy') <= Cardinality(Busy)
    BY <2>1, BusyCount, BusyShrinks
  <2> QED
    BY <1>0, <1>8, <2>1, <2>2, BusyCount
       DEF Migrate, Steps, Goes, PoolInv, ConnectionsAreGivenBack, Alive,
           Taken
<1>9. ASSUME BeginLoad
      PROVE  PoolInv'
  <2>1. Busy' = Busy
    BY <1>9 DEF BeginLoad, Busy
  <2>2. Cardinality(Busy') \in Nat /\ Cardinality(Busy') <= Cardinality(Busy)
    BY <2>1, BusyCount, BusyShrinks
  <2> QED
    BY <1>0, <1>9, <2>1, <2>2, BusyCount
       DEF BeginLoad, Steps, Installing, Goes, PoolInv,
           ConnectionsAreGivenBack, Alive, Taken
<1>10. ASSUME InsertUser
      PROVE  PoolInv'
  <2>1. Busy' = Busy
    BY <1>10 DEF InsertUser, Busy
  <2>2. Cardinality(Busy') \in Nat /\ Cardinality(Busy') <= Cardinality(Busy)
    BY <2>1, BusyCount, BusyShrinks
  <2> QED
    BY <1>0, <1>10, <2>1, <2>2, BusyCount
       DEF InsertUser, Steps, Goes, PoolInv, ConnectionsAreGivenBack, Alive,
           Taken
<1>11. ASSUME CommitLoad
      PROVE  PoolInv'
  <2>1. Busy' = Busy
    BY <1>11 DEF CommitLoad, Busy
  <2>2. Cardinality(Busy') \in Nat /\ Cardinality(Busy') <= Cardinality(Busy)
    BY <2>1, BusyCount, BusyShrinks
  <2> QED
    BY <1>0, <1>11, <2>1, <2>2, BusyCount
       DEF CommitLoad, Steps, Installing, Goes, PoolInv,
           ConnectionsAreGivenBack, Taken
<1>12. ASSUME Exit
      PROVE  PoolInv'
  <2>1. Busy' = Busy
    BY <1>12 DEF Exit, Busy
  <2>2. Cardinality(Busy') \in Nat /\ Cardinality(Busy') <= Cardinality(Busy)
    BY <2>1, BusyCount, BusyShrinks
  <2> QED
    BY <1>0, <1>12, <2>1, <2>2, BusyCount
       DEF Exit, Steps, Installing, Moves, PoolInv, ConnectionsAreGivenBack,
           Alive, Taken
<1>13. ASSUME TakeWarmUpConnection
      PROVE  PoolInv'
  <2>1. Busy' = Busy
    BY <1>13 DEF TakeWarmUpConnection, Busy
  <2>2. Cardinality(Busy') \in Nat /\ Cardinality(Busy') <= Cardinality(Busy)
    BY <2>1, BusyCount, BusyShrinks
  <2>3. Features' = Features
    BY <1>13, FeaturesStay DEF TakeWarmUpConnection, Goes
  <2> QED
    BY <1>0, <1>13, <2>1, <2>2, <2>3, BusyCount
       DEF TakeWarmUpConnection, Steps, Installing, Goes, database, rows,
           PoolInv, ConnectionsAreGivenBack, Alive, Taken, TypeOK, CanGoOn,
           Connects
<1>14. ASSUME EvictWarmUpConnection
      PROVE  PoolInv'
  <2>1. Busy' = Busy
    BY <1>14 DEF EvictWarmUpConnection, EvictUnless, Busy
  <2>2. Cardinality(Busy') \in Nat /\ Cardinality(Busy') <= Cardinality(Busy)
    BY <2>1, BusyCount, BusyShrinks
  <2>3. Features' = Features
    BY <1>14, FeaturesStay
       DEF EvictWarmUpConnection, EvictUnless, Goes, Installed
  <2> QED
    BY <1>0, <1>14, <2>1, <2>2, <2>3, BusyCount
       DEF EvictWarmUpConnection, EvictUnless, Steps, Installing, Goes,
           Installed, PoolInv, ConnectionsAreGivenBack, Alive, Taken
<1>15. ASSUME FailStart
      PROVE  PoolInv'
  <2>1. Busy' = Busy
    BY <1>15 DEF FailStart, Busy
  <2>2. Cardinality(Busy') \in Nat /\ Cardinality(Busy') <= Cardinality(Busy)
    BY <2>1, BusyCount, BusyShrinks
  <2> QED
    BY <1>0, <1>15, <2>1, <2>2, BusyCount
       DEF FailStart, Moves, PoolInv, ConnectionsAreGivenBack, Alive, Taken
<1>16. ASSUME Serve
      PROVE  PoolInv'
  <2>1. Busy' = Busy
    BY <1>16 DEF Serve, Busy
  <2>2. Cardinality(Busy') \in Nat /\ Cardinality(Busy') <= Cardinality(Busy)
    BY <2>1, BusyCount, BusyShrinks
  <2> QED
    BY <1>0, <1>16, <2>1, <2>2, BusyCount
       DEF Serve, Steps, Installing, Moves, PoolInv, ConnectionsAreGivenBack,
           Alive, Taken
<1>17. ASSUME AddShutdownHook
      PROVE  PoolInv'
  <2>1. Busy' = Busy
    BY <1>17 DEF AddShutdownHook, Busy
  <2>2. Cardinality(Busy') \in Nat /\ Cardinality(Busy') <= Cardinality(Busy)
    BY <2>1, BusyCount, BusyShrinks
  <2> QED
    BY <1>0, <1>17, <2>1, <2>2, BusyCount
       DEF AddShutdownHook, code, PoolInv, ConnectionsAreGivenBack, Alive,
           Taken
<1>18. ASSUME NEW r \in Requests, Accept(r)
      PROVE  PoolInv'
  <2>1. Busy' = Busy
    BY <1>18 DEF Accept, Becomes, Busy
  <2>2. Cardinality(Busy') \in Nat /\ Cardinality(Busy') <= Cardinality(Busy)
    BY <2>1, BusyCount, BusyShrinks
  <2> QED
    BY <1>0, <1>18, <2>1, <2>2, BusyCount
       DEF Accept, code, PoolInv, ConnectionsAreGivenBack, Alive, Taken
<1>19. ASSUME NEW r \in Requests, Connect(r)
      PROVE  PoolInv'
  <2>1. Busy' = Busy \cup {r} /\ r \notin Busy
    BY <1>19 DEF Connect, Becomes, Busy, TypeOK
  <2>2. Cardinality(Busy') = Cardinality(Busy) + 1
    BY <2>1, BusyCount, FS_AddElement
  <2> QED
    BY <1>0, <1>19, <2>2, BusyCount
       DEF Connect, code, Connects, PoolInv, ConnectionsAreGivenBack, Alive,
           Taken
<1>20. ASSUME NEW r \in Requests, LogIn(r)
      PROVE  PoolInv'
  <2>1. Busy' \subseteq Busy
    BY <1>20 DEF LogIn, Becomes, Answer, Busy
  <2>2. Cardinality(Busy') \in Nat /\ Cardinality(Busy') <= Cardinality(Busy)
    BY <2>1, BusyCount, BusyShrinks
  <2> QED
    BY <1>0, <1>20, <2>1, <2>2, BusyCount
       DEF LogIn, Alive, code, PoolInv, ConnectionsAreGivenBack, Taken
<1>21. ASSUME NEW r \in Requests, FailLogIn(r)
      PROVE  PoolInv'
  <2>1. Busy' \subseteq Busy
    BY <1>21 DEF FailLogIn, Becomes, Answer, Busy
  <2>2. Cardinality(Busy') \in Nat /\ Cardinality(Busy') <= Cardinality(Busy)
    BY <2>1, BusyCount, BusyShrinks
  <2> QED
    BY <1>0, <1>21, <2>1, <2>2, BusyCount
       DEF FailLogIn, Alive, code, PoolInv, ConnectionsAreGivenBack, Taken
<1>22. ASSUME Signal
      PROVE  PoolInv'
  <2>1. Busy' = Busy
    BY <1>22 DEF Signal, Busy
  <2>2. Cardinality(Busy') \in Nat /\ Cardinality(Busy') <= Cardinality(Busy)
    BY <2>1, BusyCount, BusyShrinks
  <2> QED
    BY <1>0, <1>22, <2>1, <2>2, BusyCount
       DEF Signal, Moves, PoolInv, ConnectionsAreGivenBack, Alive, Taken
<1>23. ASSUME StopEngine
      PROVE  PoolInv'
  <2>1. Busy' = Busy
    BY <1>23 DEF StopEngine, Busy
  <2>2. Cardinality(Busy') \in Nat /\ Cardinality(Busy') <= Cardinality(Busy)
    BY <2>1, BusyCount, BusyShrinks
  <2> QED
    BY <1>0, <1>23, <2>1, <2>2, BusyCount
       DEF StopEngine, Moves, PoolInv, ConnectionsAreGivenBack, Alive, Taken
<1>24. ASSUME CloseKoin
      PROVE  PoolInv'
  <2>1. Busy' = {}
    BY <1>24 DEF CloseKoin, DropRequests, Busy, DropRequests
  <2>2. Cardinality(Busy') = 0
    BY <2>1, FS_EmptySet
  <2> QED
    BY <1>0, <1>24, <2>1, <2>2, BusyCount
       DEF CloseKoin, PoolInv, ConnectionsAreGivenBack, Alive, Taken
<1>25. ASSUME Kill
      PROVE  PoolInv'
  <2>1. Busy' = {}
    BY <1>25 DEF Kill, DropRequests, Busy, DropRequests
  <2>2. Cardinality(Busy') = 0
    BY <2>1, FS_EmptySet
  <2> QED
    BY <1>0, <1>25, <2>1, <2>2, BusyCount
       DEF Kill, Moves, PoolInv, ConnectionsAreGivenBack, Alive, Taken
<1>26. ASSUME GoDown
      PROVE  PoolInv'
  <2>1. Busy' = Busy
    BY <1>26 DEF GoDown, Busy
  <2>2. Cardinality(Busy') \in Nat /\ Cardinality(Busy') <= Cardinality(Busy)
    BY <2>1, BusyCount, BusyShrinks
  <2>3. Features' = Features
    BY <1>26, FeaturesStay DEF GoDown
  <2> QED
    BY <1>0, <1>26, <2>1, <2>2, <2>3, BusyCount
       DEF GoDown, PoolInv, ConnectionsAreGivenBack, Alive, Taken, Installing
<1>27. ASSUME GoDownAfterCommit
      PROVE  PoolInv'
  <2>1. Busy' = Busy
    BY <1>27 DEF GoDownAfterCommit, Busy
  <2>2. Cardinality(Busy') \in Nat /\ Cardinality(Busy') <= Cardinality(Busy)
    BY <2>1, BusyCount, BusyShrinks
  <2> QED
    BY <1>0, <1>27, <2>1, <2>2, BusyCount
       DEF GoDownAfterCommit, Steps, Goes, PoolInv, ConnectionsAreGivenBack,
           Alive, Taken
<1>28. ASSUME ComeUp
      PROVE  PoolInv'
  <2>1. Busy' = Busy
    BY <1>28 DEF ComeUp, Busy
  <2>2. Cardinality(Busy') \in Nat /\ Cardinality(Busy') <= Cardinality(Busy)
    BY <2>1, BusyCount, BusyShrinks
  <2>3. Features' = Features
    BY <1>28, FeaturesStay DEF ComeUp, code
  <2> QED
    BY <1>0, <1>28, <2>1, <2>2, <2>3, BusyCount
       DEF ComeUp, code, PoolInv, ConnectionsAreGivenBack, Alive, Taken,
           Installing
<1>29. CASE UNCHANGED vars
  BY <1>29
     DEF vars, code, PoolInv, ConnectionsAreGivenBack, Alive, Taken, Busy,
         Installing, Features, LoadsFixtures, IsProd
<1> QED
  BY <1>1, <1>2, <1>3, <1>4, <1>5, <1>6, <1>7, <1>8, <1>9, <1>10, <1>11, <1>12, <1>13, <1>14, <1>15, <1>16, <1>17, <1>18, <1>19, <1>20, <1>21, <1>22, <1>23, <1>24, <1>25, <1>26, <1>27, <1>28, <1>29
     DEF Next, Install, Stop, Terminated

(* The features of each environment, by their places. *)
LEMMA FeatureOrder ==
    ASSUME environment \in Environments
    PROVE  /\ Features[1] = "KoinFeature"
           /\ Features[2] = "HikariCPFeature"
           /\ Features[3] = "WebRoutingFeature"
           /\ LoadsFixtures => ~IsProd
           /\ Len(Features) = (IF LoadsFixtures \/ IsProd THEN 5 ELSE 4)
           /\ LoadsFixtures => Features[4] = "LoadFixturesFeature"
           /\ IsProd => Features[4] = "ApplicationWarmup"
           /\ ~LoadsFixtures /\ ~IsProd => Features[4] = "StartupLog"
           /\ LoadsFixtures \/ IsProd => Features[5] = "StartupLog"
<1>1. CASE LoadsFixtures
  BY <1>1 DEF Features, LoadsFixtures, When
<1>2. CASE IsProd
  BY <1>2 DEF Features, LoadsFixtures, When
<1>3. CASE ~LoadsFixtures /\ ~IsProd
  BY <1>3 DEF Features, When
<1> QED
  BY <1>1, <1>2, <1>3 DEF LoadsFixtures

(* The place of the feature that is installed next. *)
LEMMA Places ==
    ASSUME TypeOK, StartInv, process = "installing"
    PROVE  /\ installed \in 0 .. 4
           /\ installed = 4 => LoadsFixtures \/ IsProd
           /\ Installing("KoinFeature") <=> installed = 0
           /\ Installing("HikariCPFeature") <=> installed = 1
           /\ Installing("WebRoutingFeature") <=> installed = 2
           /\ Installing("LoadFixturesFeature") <=> installed = 3 /\ LoadsFixtures
           /\ Installing("ApplicationWarmup") <=> installed = 3 /\ IsProd
           /\ Installing("StartupLog") <=>
                  installed = (IF LoadsFixtures \/ IsProd THEN 4 ELSE 3)
           /\ LoadsFixtures => ~IsProd
<1>1. environment \in Environments /\ installed \in Nat /\ installed < Len(Features)
  BY DEF TypeOK, StartInv
<1>2. LoadsFixtures => ~IsProd
  BY <1>1, FeatureOrder
<1>3. /\ installed \in 0 .. 4
      /\ installed = 4 => LoadsFixtures \/ IsProd
  <2>1. Len(Features) = (IF LoadsFixtures \/ IsProd THEN 5 ELSE 4)
    BY <1>1, FeatureOrder
  <2> QED
    BY <1>1, <2>1
<1>4. CASE installed = 0
  BY <1>1, <1>2, <1>4, FeatureOrder DEF Installing
<1>5. CASE installed = 1
  BY <1>1, <1>2, <1>5, FeatureOrder DEF Installing
<1>6. CASE installed = 2
  BY <1>1, <1>2, <1>6, FeatureOrder DEF Installing
<1>7. CASE installed = 3
  BY <1>1, <1>2, <1>7, FeatureOrder DEF Installing
<1>8. CASE installed = 4
  BY <1>1, <1>2, <1>3, <1>8, FeatureOrder DEF Installing
<1> QED
  BY <1>3, <1>4, <1>5, <1>6, <1>7, <1>8

(* The same of the environment that the next process reads. *)
LEMMA OrderAfter ==
    ASSUME environment' \in Environments
    PROVE  /\ Features'[1] = "KoinFeature"
           /\ Len(Features') \in 4 .. 5
<1>1. CASE LoadsFixtures'
  BY <1>1 DEF Features, LoadsFixtures, When
<1>2. CASE IsProd'
  BY <1>2 DEF Features, LoadsFixtures, When
<1>3. CASE ~LoadsFixtures' /\ ~IsProd'
  BY <1>3 DEF Features, When
<1> QED
  BY <1>1, <1>2, <1>3 DEF LoadsFixtures

(* What a start may fail for, and what its features have left behind. *)
LEMMA StartStep ==
    ASSUME LifecycleInv, TypeOK', [Next]_vars
    PROVE  StartInv'
<1> USE DEF LifecycleInv
<1>0. /\ environment \in Environments /\ installed \in Nat
      /\ held \in Nat /\ poolMaxSize \in Nat /\ poolMaxSize > 0
      /\ WarmUpSize \in Nat /\ WarmUpSize > 0
      /\ Gone = {"none", "stopped", "exited", "killed"}
  BY LifecycleAssumption DEF LifecycleAssumption, TypeOK, Gone
<1>a. environment' = environment =>
          /\ Features' = Features
          /\ IsProd' = IsProd
          /\ \A f : process' = process /\ installed' = installed =>
                 Installing(f)' = Installing(f)
  BY FeaturesStay DEF IsProd, Installing
<1>b. ASSUME UNCHANGED <<environment, poolMaxSize, process, installed, at, koin, held>>,
             ~up' => outage', outage => outage'
      PROVE  StartInv'
  BY <1>a, <1>b DEF StartInv, StartFailsForAReason, Alive
<1>1. ASSUME Start
      PROVE  StartInv'
  <2>1. /\ process' = "installing" /\ installed' = 0 /\ at' = "begin"
        /\ ~up' => outage'
    BY <1>1 DEF Start
  <2>2. environment' \in Environments
    BY DEF TypeOK
  <2>3. Features'[1] = "KoinFeature" /\ installed' < Len(Features')
    BY <2>1, <2>2, OrderAfter
  <2>4. Installing("StartupLog")' => Features'[1] = "StartupLog"
    BY <2>1 DEF Installing
  <2> QED
    BY <2>1, <2>3, <2>4 DEF StartInv, StartFailsForAReason, Alive
<1>2. ASSUME InstallKoin
      PROVE  StartInv'
  <2>1. /\ environment' = environment /\ process' = process /\ process = "installing"
        /\ installed' = installed + 1 /\ at' = "begin" /\ installed = 0
        /\ koin' = Singles
        /\ UNCHANGED <<poolMaxSize, up, outage>>
    BY <1>2, Places DEF InstallKoin, Steps, Installing, Installed, database, TypeOK, StartInv
  <2>2. Len(Features) >= 4 /\ (IsProd => Features[installed' + 1] # "StartupLog")
    BY <1>0, <2>1, FeatureOrder
  <2>3. installed' < Len(Features') /\ ~(Installing("StartupLog")' /\ IsProd')
    BY <1>0, <1>a, <2>1, <2>2, FeatureOrder DEF Installing
  <2> QED
    BY <1>0, <1>a, <2>1, <2>3 DEF StartInv, StartFailsForAReason, Alive
<1>3. ASSUME InstallHikariCP
      PROVE  StartInv'
  <2>1. /\ environment' = environment /\ process' = process /\ process = "installing"
        /\ installed' = installed + 1 /\ at' = "begin" /\ installed = 1
        /\ koin' = koin \cup {"HikariPool"}
        /\ UNCHANGED <<poolMaxSize, up, outage>>
    BY <1>3, Places DEF InstallHikariCP, Steps, Installing, Installed, database
  <2>2. Len(Features) >= 4 /\ (IsProd => Features[installed' + 1] # "StartupLog")
    BY <1>0, <2>1, FeatureOrder
  <2>3. installed' < Len(Features') /\ ~(Installing("StartupLog")' /\ IsProd')
    BY <1>0, <1>a, <2>1, <2>2, FeatureOrder DEF Installing
  <2> QED
    BY <1>0, <1>a, <2>1, <2>3 DEF StartInv, StartFailsForAReason, Alive
<1>4. ASSUME InstallWebRouting
      PROVE  StartInv'
  <2>1. /\ environment' = environment /\ process' = process /\ process = "installing"
        /\ installed' = installed + 1 /\ at' = "begin" /\ installed = 2
        /\ koin' = koin
        /\ UNCHANGED <<poolMaxSize, up, outage>>
    BY <1>4, Places DEF InstallWebRouting, Steps, Installing, Installed, database
  <2>2. Len(Features) >= 4 /\ (IsProd => Features[installed' + 1] # "StartupLog")
    BY <1>0, <2>1, FeatureOrder
  <2>3. installed' < Len(Features') /\ ~(Installing("StartupLog")' /\ IsProd')
    BY <1>0, <1>a, <2>1, <2>2, FeatureOrder DEF Installing
  <2> QED
    BY <1>0, <1>a, <2>1, <2>3 DEF StartInv, StartFailsForAReason, Alive
<1>5. ASSUME CreatePool
      PROVE  StartInv'
  <2>1. /\ environment' = environment /\ process' = process /\ installed' = installed
        /\ UNCHANGED <<poolMaxSize, koin, held, up, outage>>
        /\ process = "installing" /\ at' = "connect" /\ held = 0
        /\ Installing("LoadFixturesFeature") \/ Installing("ApplicationWarmup")
    BY <1>5 DEF CreatePool, Steps, Installing, Goes, database, PoolInv
  <2>2. ~Installing("StartupLog") \/ ~IsProd
    BY <2>1, Places
  <2> QED
    BY <1>0, <1>a, <2>1, <2>2 DEF StartInv, StartFailsForAReason, Alive
<1>6. ASSUME TakeDropConnection
      PROVE  StartInv'
  <2>1. /\ environment' = environment /\ process' = process /\ installed' = installed
        /\ UNCHANGED <<poolMaxSize, koin, up, outage>>
        /\ process = "installing" /\ at' = "drop"
        /\ Installing("LoadFixturesFeature")
    BY <1>6 DEF TakeDropConnection, Steps, Installing, Goes, database
  <2> QED
    BY <1>0, <1>a, <2>1 DEF StartInv, StartFailsForAReason, Alive
<1>7. ASSUME PrepareDrop
      PROVE  StartInv'
  <2>1. /\ environment' = environment /\ process' = process /\ installed' = installed
        /\ UNCHANGED <<poolMaxSize, koin, up, outage>>
        /\ process = "installing" /\ at' = "migrate"
        /\ Installing("LoadFixturesFeature")
    BY <1>7 DEF PrepareDrop, Steps, Installing, Goes, database
  <2> QED
    BY <1>0, <1>a, <2>1 DEF StartInv, StartFailsForAReason, Alive
<1>8. ASSUME Migrate
      PROVE  StartInv'
  <2>1. /\ environment' = environment /\ process' = process /\ installed' = installed
        /\ UNCHANGED <<poolMaxSize, koin, up, outage>>
        /\ process = "installing" /\ at' = "transaction"
        /\ Installing("LoadFixturesFeature")
    BY <1>8 DEF Migrate, Steps, Installing, Goes, database
  <2> QED
    BY <1>0, <1>a, <2>1 DEF StartInv, StartFailsForAReason, Alive
<1>9. ASSUME BeginLoad
      PROVE  StartInv'
  <2>1. /\ environment' = environment /\ process' = process /\ installed' = installed
        /\ UNCHANGED <<poolMaxSize, koin, up, outage>>
        /\ process = "installing" /\ at' = "insert"
        /\ Installing("LoadFixturesFeature")
    BY <1>9 DEF BeginLoad, Steps, Installing, Goes, database
  <2> QED
    BY <1>0, <1>a, <2>1 DEF StartInv, StartFailsForAReason, Alive
<1>10. ASSUME InsertUser
      PROVE  StartInv'
  <2>1. /\ environment' = environment /\ process' = process /\ installed' = installed
        /\ UNCHANGED <<poolMaxSize, koin, up, outage>>
        /\ process = "installing" /\ at' \in {"insert", "commit"}
        /\ Installing("LoadFixturesFeature")
    BY <1>10 DEF InsertUser, Steps, Installing, Goes, database
  <2> QED
    BY <1>0, <1>a, <2>1 DEF StartInv, StartFailsForAReason, Alive
<1>11. ASSUME CommitLoad
      PROVE  StartInv'
  <2>1. /\ environment' = environment /\ process' = process /\ installed' = installed
        /\ UNCHANGED <<poolMaxSize, koin, up, outage>>
        /\ process = "installing" /\ at' = "exit"
        /\ Installing("LoadFixturesFeature")
    BY <1>11 DEF CommitLoad, Steps, Installing, Goes, database
  <2> QED
    BY <1>0, <1>a, <2>1 DEF StartInv, StartFailsForAReason, Alive
<1>12. ASSUME Exit
      PROVE  StartInv'
  <2>1. /\ process' = "exited"
        /\ UNCHANGED <<up, outage>>
    BY <1>12 DEF Exit, Moves, database
  <2> QED
    BY <2>1 DEF StartInv, StartFailsForAReason, Alive
<1>13. ASSUME TakeWarmUpConnection
      PROVE  StartInv'
  <2>1. /\ environment' = environment /\ process' = process /\ installed' = installed
        /\ UNCHANGED <<poolMaxSize, koin, up, outage>>
        /\ process = "installing" /\ Installing("ApplicationWarmup") /\ at = "connect"
        /\ held' = held + 1
        /\ at' = IF held' = WarmUpSize THEN "evict" ELSE "connect"
        /\ Taken < poolMaxSize
    BY <1>13 DEF TakeWarmUpConnection, Steps, Installing, Goes, database, CanGoOn, Connects
  <2>2. held < poolMaxSize
    BY <1>0, <2>1, BusyCount DEF Taken
  <2>3. held < WarmUpSize
    BY <2>1, Places DEF StartInv
  <2>4. (at' = "evict" => WarmUpSize <= poolMaxSize) /\ (at' = "connect" => held' < WarmUpSize)
    BY <1>0, <2>1, <2>2, <2>3
  <2> QED
    BY <1>0, <1>a, <2>1, <2>4 DEF StartInv, StartFailsForAReason, Alive
<1>14. ASSUME EvictWarmUpConnection
      PROVE  StartInv'
  <2>1. /\ environment' = environment /\ process' = process
        /\ UNCHANGED <<poolMaxSize, koin, up, outage>>
        /\ process = "installing" /\ Installing("ApplicationWarmup") /\ at = "evict"
        /\ \/ installed' = installed + 1 /\ at' = "begin"
           \/ installed' = installed /\ at' = "evict"
    BY <1>14
       DEF EvictWarmUpConnection, EvictUnless, Steps, Installing, Goes, Installed, database
  <2>2. installed = 3 /\ IsProd /\ Len(Features) = 5 /\ WarmUpSize <= poolMaxSize
    <3>1. installed = 3 /\ IsProd
      BY <2>1, Places
    <3>2. Len(Features) = 5
      BY <1>0, <3>1, FeatureOrder
    <3> QED
      BY <2>1, <3>1, <3>2 DEF StartInv
  <2>3. installed' < Len(Features')
    <3>1. Features' = Features
      BY <2>1, FeaturesStay
    <3>2. Len(Features') = 5
      BY <2>2, <3>1
    <3>3. installed' \in {3, 4}
      BY <2>1, <2>2
    <3> QED
      BY <3>2, <3>3
  <2>4. Singles \subseteq koin' /\ "HikariPool" \in koin'
    BY <2>1, <2>2 DEF StartInv
  <2> QED
    BY <1>0, <1>a, <2>1, <2>2, <2>3, <2>4 DEF StartInv, StartFailsForAReason, Alive
<1>15. ASSUME FailStart
      PROVE  StartInv'
  <2>1. /\ process = "installing" /\ process' = "failed" /\ ~CanGoOn
        /\ UNCHANGED <<environment, poolMaxSize, up, outage>>
    BY <1>15 DEF FailStart, Moves, database
  <2>2. Needs(Features[installed + 1]) \subseteq koin
    <3>1. installed \in 0 .. 4
      BY <2>1, Places
    <3>2. Singles = {"AppConfig", "SwaggerConfiguration", "DatabaseService",
                     "Repositories", "SessionActions", "UserActions"}
      BY DEF Singles
    <3>3. CASE installed = 0
      BY <1>0, <3>3, FeatureOrder DEF Needs
    <3>4. CASE installed = 1
      BY <1>0, <3>4, FeatureOrder DEF Needs
    <3>5. CASE installed = 2
      BY <1>0, <2>1, <3>2, <3>5, FeatureOrder DEF Needs, StartInv
    <3>6. CASE installed \in 3 .. 4
      <4>1. Singles \cup {"HikariPool"} \subseteq koin
        BY <2>1, <3>6 DEF StartInv
      <4>2. Features[installed + 1] \in {"LoadFixturesFeature", "ApplicationWarmup", "StartupLog"}
        <5>1. LoadsFixtures \/ IsProd \/ installed = 3
          BY <2>1, <3>6, Places
        <5>2. CASE installed = 3
          BY <1>0, <5>2, FeatureOrder
        <5>3. CASE installed = 4
          BY <1>0, <5>1, <5>3, FeatureOrder
        <5> QED
          BY <3>6, <5>2, <5>3
      <4> QED
        BY <3>2, <4>1, <4>2 DEF Needs
    <3> QED
      BY <3>1, <3>3, <3>4, <3>5, <3>6
  <2>3. CASE ~up \/ at = "broken"
    BY <1>0, <2>1, <2>3 DEF StartInv, StartFailsForAReason, Alive
  <2>4. CASE up /\ at # "broken"
    <3>1. at \in {"connect", "transaction"} /\ ~(Taken < poolMaxSize)
      BY <2>1, <2>2, <2>4 DEF CanGoOn, Connects
    <3>2. Busy = {} /\ Taken = held
      BY <1>0, <2>1, BusyCount DEF PoolInv, Taken, Alive
    <3>3. ~(held < poolMaxSize) /\ held > 0
      BY <1>0, <3>1, <3>2
    <3>4. at = "connect" /\ Installing("ApplicationWarmup") /\ held < WarmUpSize
      BY <2>1, <3>1, <3>3 DEF StartInv, PoolInv
    <3>5. IsProd /\ poolMaxSize < WarmUpSize
      BY <1>0, <2>1, <3>3, <3>4, Places
    <3> QED
      BY <1>0, <1>a, <2>1, <3>5 DEF StartInv, StartFailsForAReason, Alive
  <2> QED
    BY <2>3, <2>4
<1>16. ASSUME Serve
      PROVE  StartInv'
  <2>1. /\ process = "installing" /\ Installing("StartupLog") /\ process' = "serving"
        /\ UNCHANGED <<environment, poolMaxSize, up, outage>>
    BY <1>16 DEF Serve, Steps, Installing, Moves, database
  <2> QED
    BY <1>0, <1>a, <2>1 DEF StartInv, StartFailsForAReason, Alive
<1>17. ASSUME AddShutdownHook
      PROVE  StartInv'
  BY <1>b, <1>17 DEF AddShutdownHook, code, database, StartInv
<1>18. ASSUME NEW r \in Requests, Accept(r)
      PROVE  StartInv'
  BY <1>b, <1>18 DEF Accept, code, database, StartInv
<1>19. ASSUME NEW r \in Requests, Connect(r)
      PROVE  StartInv'
  BY <1>b, <1>19 DEF Connect, code, database, StartInv
<1>20. ASSUME NEW r \in Requests, LogIn(r)
      PROVE  StartInv'
  BY <1>b, <1>20 DEF LogIn, code, database, StartInv
<1>21. ASSUME NEW r \in Requests, FailLogIn(r)
      PROVE  StartInv'
  BY <1>b, <1>21 DEF FailLogIn, code, database, StartInv
<1>22. ASSUME Signal
      PROVE  StartInv'
  <2>1. /\ process = "serving" /\ process' = "stopping"
        /\ UNCHANGED <<environment, poolMaxSize, up, outage>>
    BY <1>22 DEF Signal, Moves, database
  <2> QED
    BY <1>0, <1>a, <2>1 DEF StartInv, StartFailsForAReason, Alive
<1>23. ASSUME StopEngine
      PROVE  StartInv'
  <2>1. /\ process = "stopping" /\ process' = "disconnected"
        /\ UNCHANGED <<environment, poolMaxSize, up, outage>>
    BY <1>23 DEF StopEngine, Moves, database
  <2> QED
    BY <1>0, <1>a, <2>1 DEF StartInv, StartFailsForAReason, Alive
<1>24. ASSUME CloseKoin
      PROVE  StartInv'
  <2>1. /\ process' = "stopped"
        /\ UNCHANGED <<environment, poolMaxSize, up, outage>>
    BY <1>24 DEF CloseKoin, database
  <2> QED
    BY <1>0, <1>a, <2>1 DEF StartInv, StartFailsForAReason, Alive
<1>25. ASSUME Kill
      PROVE  StartInv'
  <2>1. /\ process' = "killed"
        /\ UNCHANGED <<environment, poolMaxSize, up, outage>>
    BY <1>25 DEF Kill, Moves, database
  <2> QED
    BY <1>0, <1>a, <2>1 DEF StartInv, StartFailsForAReason, Alive
<1>26. ASSUME GoDown
      PROVE  StartInv'
  <2>1. /\ UNCHANGED <<environment, poolMaxSize, process, installed, koin, held>>
        /\ outage' = TRUE
        /\ at' = at \/ (at \in {"insert", "commit"} /\ at' = "broken")
    BY <1>26 DEF GoDown
  <2> QED
    BY <1>0, <1>a, <2>1 DEF StartInv, StartFailsForAReason, Alive
<1>27. ASSUME GoDownAfterCommit
      PROVE  StartInv'
  <2>1. /\ UNCHANGED <<environment, poolMaxSize, process, installed, koin, held>>
        /\ outage' = TRUE /\ at' = "broken"
        /\ Installing("LoadFixturesFeature")
    BY <1>27 DEF GoDownAfterCommit, Steps, Goes
  <2> QED
    BY <1>0, <1>a, <2>1 DEF StartInv, StartFailsForAReason, Alive
<1>28. ASSUME ComeUp
      PROVE  StartInv'
  BY <1>b, <1>28 DEF ComeUp, code, StartInv
<1>29. CASE UNCHANGED vars
  BY <1>b, <1>29 DEF vars, code, database, StartInv
<1> QED
  BY <1>1, <1>2, <1>3, <1>4, <1>5, <1>6, <1>7, <1>8, <1>9, <1>10, <1>11, <1>12, <1>13, <1>14, <1>15, <1>16, <1>17, <1>18, <1>19, <1>20, <1>21, <1>22, <1>23, <1>24, <1>25, <1>26, <1>27, <1>28, <1>29
     DEF Next, Install, Stop, Terminated

(* Who is answered, how, and why. *)
LEMMA AnswerStep ==
    ASSUME LifecycleInv, TypeOK', StartInv', [Next]_vars
    PROVE  AnswerInv'
<1> USE DEF LifecycleInv
<1>0. ~up => outage
  BY DEF StartInv
<1>a. ASSUME UNCHANGED <<request, migrated, stored, poolMaxSize>>,
             outage => outage', process' = "installing" => process = "installing"
      PROVE  AnswerInv'
  BY <1>a DEF AnswerInv, AnswersHaveACause
<1>b. ASSUME process = "installing",
             request' = request \/ process' # "installing",
             \A r \in Requests : request'[r] \in {"idle", "lost"}
      PROVE  AnswerInv'
  BY <1>b DEF AnswerInv, AnswersHaveACause
<1>c. process = "installing" => \A r \in Requests : request[r] = "idle"
  BY DEF AnswerInv
<1>1. ASSUME Start
      PROVE  AnswerInv'
  BY <1>1 DEF Start, AnswerInv, AnswersHaveACause
<1>2. ASSUME InstallKoin
      PROVE  AnswerInv'
  BY <1>a, <1>2 DEF InstallKoin, Steps, Installing, Installed, database, rows
<1>3. ASSUME InstallHikariCP
      PROVE  AnswerInv'
  BY <1>a, <1>3 DEF InstallHikariCP, Steps, Installing, Installed, database, rows
<1>4. ASSUME InstallWebRouting
      PROVE  AnswerInv'
  BY <1>a, <1>4 DEF InstallWebRouting, Steps, Installing, Installed, database, rows
<1>5. ASSUME CreatePool
      PROVE  AnswerInv'
  BY <1>a, <1>5 DEF CreatePool, Steps, Installing, Goes, database, rows
<1>6. ASSUME TakeDropConnection
      PROVE  AnswerInv'
  BY <1>a, <1>6 DEF TakeDropConnection, Steps, Installing, Goes, database, rows
<1>7. ASSUME PrepareDrop
      PROVE  AnswerInv'
  BY <1>a, <1>7 DEF PrepareDrop, Steps, Installing, Goes, database, rows
<1>8. ASSUME BeginLoad
      PROVE  AnswerInv'
  BY <1>a, <1>8 DEF BeginLoad, Steps, Installing, Goes, database, rows
<1>9. ASSUME InsertUser
      PROVE  AnswerInv'
  BY <1>a, <1>9 DEF InsertUser, Steps, Installing, Goes, database, rows
<1>10. ASSUME TakeWarmUpConnection
      PROVE  AnswerInv'
  BY <1>a, <1>10 DEF TakeWarmUpConnection, Steps, Installing, Goes, database, rows
<1>11. ASSUME EvictWarmUpConnection
      PROVE  AnswerInv'
  BY <1>a, <1>11 DEF EvictWarmUpConnection, Steps, Installing, EvictUnless, Goes, Installed, database, rows
<1>12. ASSUME FailStart
      PROVE  AnswerInv'
  BY <1>a, <1>12 DEF FailStart, Steps, Installing, Moves, database, rows
<1>13. ASSUME Serve
      PROVE  AnswerInv'
  BY <1>a, <1>13 DEF Serve, Steps, Installing, Moves, database, rows
<1>14. ASSUME Exit
      PROVE  AnswerInv'
  BY <1>a, <1>14 DEF Exit, Steps, Installing, Moves, database, rows
<1>15. ASSUME Migrate
      PROVE  AnswerInv'
  <2>1. process = "installing" /\ request' = request
    BY <1>15 DEF Migrate, Steps, Installing
  <2> QED
    BY <1>b, <1>c, <2>1
<1>16. ASSUME CommitLoad
      PROVE  AnswerInv'
  <2>1. process = "installing" /\ request' = request
    BY <1>16 DEF CommitLoad, Steps, Installing
  <2> QED
    BY <1>b, <1>c, <2>1
<1>17. ASSUME GoDownAfterCommit
      PROVE  AnswerInv'
  <2>1. process = "installing" /\ request' = request
    BY <1>17 DEF GoDownAfterCommit, Steps, Installing
  <2> QED
    BY <1>b, <1>c, <2>1
<1>18. ASSUME AddShutdownHook
      PROVE  AnswerInv'
  BY <1>a, <1>18 DEF AddShutdownHook, code, database, rows
<1>19. ASSUME NEW r \in Requests, Accept(r)
      PROVE  AnswerInv'
  <2>1. /\ UNCHANGED <<migrated, stored, poolMaxSize, outage, process>> /\ process # "installing"
        /\ \A q \in Requests : q = r \/ request'[q] = request[q]
        /\ request'[r] = "accepted"
    BY <1>19 DEF Accept, TypeOK, code, database, rows, Becomes
  <2> QED
    BY <2>1 DEF AnswerInv, AnswersHaveACause
<1>20. ASSUME NEW r \in Requests, Connect(r)
      PROVE  AnswerInv'
  <2>1. /\ UNCHANGED <<migrated, stored, poolMaxSize, outage, process>> /\ process # "installing"
        /\ \A q \in Requests : q = r \/ request'[q] = request[q]
        /\ request'[r] = "working"
    BY <1>20 DEF Connect, Alive, TypeOK, code, database, rows, Becomes
  <2> QED
    BY <2>1 DEF AnswerInv, AnswersHaveACause
<1>21. ASSUME NEW r \in Requests, LogIn(r)
      PROVE  AnswerInv'
  <2>1. /\ UNCHANGED <<migrated, stored, poolMaxSize, outage, process>> /\ process # "installing"
        /\ \A q \in Requests : q = r \/ request'[q] = request[q]
        /\ \/ request'[r] = "lost"
           \/ request'[r] = "error" /\ (~migrated \/ stored.test > 1)
           \/ request'[r] = "unauthorized" /\ stored.test = 0
           \/ request'[r] = "created" /\ migrated /\ stored.test = 1
    BY <1>21 DEF LogIn, Alive, Answer, Outcome, Counts, TypeOK, code, database, rows, Becomes
  <2> QED
    BY <2>1 DEF AnswerInv, AnswersHaveACause
<1>22. ASSUME NEW r \in Requests, FailLogIn(r)
      PROVE  AnswerInv'
  <2>1. /\ UNCHANGED <<migrated, stored, poolMaxSize, outage, process>> /\ process # "installing"
        /\ \A q \in Requests : q = r \/ request'[q] = request[q]
        /\ request'[r] \in {"lost", "error"}
    BY <1>22 DEF FailLogIn, Alive, Answer, TypeOK, code, database, rows, Becomes
  <2>2. outage \/ poolMaxSize < Cardinality(Requests)
    <3>1. CASE request[r] = "broken"
      BY <3>1 DEF AnswerInv
    <3>2. CASE ~up
      BY <1>0, <3>2
    <3>3. CASE request[r] = "accepted" /\ ~(Taken < poolMaxSize)
      <4>1. held = 0 /\ poolMaxSize \in Nat /\ held \in Nat
        BY <1>22, LifecycleAssumption
           DEF FailLogIn, PoolInv, ConnectionsAreGivenBack, TypeOK, LifecycleAssumption
      <4>2. Cardinality(Busy) \in Nat /\ ~(Cardinality(Busy) < poolMaxSize)
        BY <3>3, <4>1, BusyCount DEF Taken
      <4>3. Busy \subseteq Requests /\ Busy # Requests
        BY <3>3 DEF Busy
      <4>4. /\ Cardinality(Requests) \in Nat
            /\ Cardinality(Busy) <= Cardinality(Requests)
            /\ Cardinality(Busy) # Cardinality(Requests)
        BY <4>3, LifecycleAssumption, FS_Subset, FS_CardinalityType DEF LifecycleAssumption
      <4> QED
        BY <4>1, <4>2, <4>4
    <3> QED
      BY <1>22, <3>1, <3>2, <3>3 DEF FailLogIn, Connects
  <2> QED
    BY <2>1, <2>2 DEF AnswerInv, AnswersHaveACause
<1>23. ASSUME Signal
      PROVE  AnswerInv'
  BY <1>a, <1>23 DEF Signal, Moves, database, rows
<1>24. ASSUME StopEngine
      PROVE  AnswerInv'
  BY <1>a, <1>24 DEF StopEngine, Moves, database, rows
<1>25. ASSUME CloseKoin
      PROVE  AnswerInv'
  <2>1. /\ UNCHANGED <<migrated, stored, poolMaxSize, outage>> /\ process' # "installing"
        /\ \A r \in Requests : request'[r] = request[r] \/ request'[r] = "lost"
    BY <1>25 DEF CloseKoin, DropRequests, database, rows
  <2> QED
    BY <2>1 DEF AnswerInv, AnswersHaveACause
<1>26. ASSUME Kill
      PROVE  AnswerInv'
  <2>1. /\ UNCHANGED <<migrated, stored, poolMaxSize, outage>> /\ process' # "installing"
        /\ \A r \in Requests : request'[r] = request[r] \/ request'[r] = "lost"
    BY <1>26 DEF Kill, Moves, DropRequests, database, rows
  <2> QED
    BY <2>1 DEF AnswerInv, AnswersHaveACause
<1>27. ASSUME GoDown
      PROVE  AnswerInv'
  <2>1. /\ UNCHANGED <<migrated, stored, poolMaxSize, process>> /\ outage' = TRUE
        /\ request' = [r \in Requests |-> IF request[r] = "working" THEN "broken" ELSE request[r]]
    BY <1>27 DEF GoDown
  <2>2. \A r \in Requests : \/ request'[r] = request[r]
                            \/ request[r] = "working" /\ request'[r] = "broken"
    BY <2>1 DEF TypeOK
  <2> QED
    BY <2>1, <2>2 DEF AnswerInv, AnswersHaveACause
<1>28. ASSUME ComeUp
      PROVE  AnswerInv'
  BY <1>a, <1>28 DEF ComeUp, code, rows
<1>29. CASE UNCHANGED vars
  BY <1>a, <1>29 DEF vars, code, database, rows
<1> QED
  BY <1>1, <1>2, <1>3, <1>4, <1>5, <1>6, <1>7, <1>8, <1>9, <1>10, <1>11, <1>12, <1>13, <1>14, <1>15, <1>16, <1>17, <1>18, <1>19, <1>20, <1>21, <1>22, <1>23, <1>24, <1>25, <1>26, <1>27, <1>28, <1>29
     DEF Next, Install, Stop, Terminated

(* Only the commit of the fixtures stores anything, and only the first      *)
(* process finds nothing stored.                                            *)
LEMMA FirstRunStep ==
    ASSUME LifecycleInv, [Next]_vars
    PROVE  FirstRunInv'
<1>a. TypeOK /\ LoadInv /\ FirstRunInv
  BY DEF LifecycleInv
<1>b. ASSUME UNCHANGED <<runs, stored>>,
             process' = "none" <=> process = "none",
             process' = "exited" => (process = "installing" /\ at = "exit") \/ process = "exited",
             process' = "installing" =>
                 process = "installing" /\ (at' = "exit" => at = "exit")
                     /\ (at \in {"exit", "broken"} => at' \in {at, "broken"})
      PROVE  FirstRunInv'
  BY <1>a, <1>b DEF FirstRunInv
<1>1. CASE Start
  BY <1>a, <1>1 DEF Start, FirstRunInv, TypeOK, Gone, rows
<1>2. CASE CommitLoad
  <2>1. /\ process = "installing" /\ at = "commit" /\ at' = "exit"
        /\ UNCHANGED <<runs, process>> /\ stored' = Plus(stored, batch)
    BY <1>2 DEF CommitLoad, Steps, Installing, Goes
  <2>2. batch = [test |-> 1, others |-> OtherUsers] /\ OtherUsers \in Nat
    BY <1>a, <2>1, LifecycleAssumption DEF LoadInv, LifecycleAssumption
  <2>3. stored = NoUsers => stored' = [test |-> 1, others |-> OtherUsers]
    BY <2>1, <2>2 DEF Plus, NoUsers
  <2> QED
    BY <1>a, <2>1, <2>3 DEF FirstRunInv
<1>3. CASE GoDownAfterCommit
  BY <1>a, <1>3 DEF GoDownAfterCommit, Steps, Installing, Goes, FirstRunInv
<1>4. CASE InstallKoin \/ InstallHikariCP \/ InstallWebRouting \/ CreatePool \/ Serve
  BY <1>4, <1>b DEF InstallKoin, InstallHikariCP, InstallWebRouting, CreatePool, Serve,
                    Steps, Installing, Installed, Goes, Moves, rows
<1>5. CASE TakeDropConnection \/ PrepareDrop \/ Migrate \/ BeginLoad \/ InsertUser \/ Exit
  BY <1>5, <1>b DEF TakeDropConnection, PrepareDrop, Migrate, BeginLoad, InsertUser, Exit,
                    Steps, Installing, Goes, Moves, rows
<1>6. CASE TakeWarmUpConnection \/ EvictWarmUpConnection \/ FailStart
  BY <1>6, <1>b DEF TakeWarmUpConnection, EvictWarmUpConnection, EvictUnless, FailStart,
                    Steps, Installing, Installed, Goes, Moves, rows
<1>7. CASE AddShutdownHook \/ Signal \/ StopEngine \/ CloseKoin \/ Kill
  BY <1>7, <1>b DEF AddShutdownHook, Signal, StopEngine, CloseKoin, Kill, Gone, Moves, code, rows
<1>8. CASE \E r \in Requests : Accept(r) \/ Connect(r) \/ LogIn(r) \/ FailLogIn(r)
  BY <1>8, <1>b DEF Accept, Connect, LogIn, FailLogIn, Alive, code, rows
<1>9. CASE GoDown \/ ComeUp
  BY <1>9, <1>b DEF GoDown, ComeUp, code, rows
<1>10. CASE UNCHANGED vars
  BY <1>10, <1>b DEF vars, code, rows
<1> QED
  BY <1>1, <1>2, <1>3, <1>4, <1>5, <1>6, <1>7, <1>8, <1>9, <1>10
     DEF Next, Install, Stop, Terminated

(* Initially there is no process, and nothing is stored. *)
LEMMA InitLifecycleInv == Init => LifecycleInv
<1> SUFFICES ASSUME Init
             PROVE  LifecycleInv
  OBVIOUS
<1> USE LifecycleAssumption DEF Init, LifecycleAssumption
<1>1. TypeOK
  <2>1. runs \in 0 .. MaxRuns /\ outages \in 0 .. MaxOutages
    OBVIOUS
  <2> QED
    BY <2>1 DEF TypeOK, Gone, Counts, NoUsers
<1>2. LoadInv
  BY DEF LoadInv, FixturesAreAtomic, NoUsers
<1>3. PoolInv
  <2>1. Busy = {}
    BY DEF Busy
  <2> QED
    BY <1>1, <2>1, FS_EmptySet DEF PoolInv, ConnectionsAreGivenBack, Taken
<1>4. StartInv
  BY DEF StartInv, StartFailsForAReason, Alive
<1>5. AnswerInv
  BY DEF AnswerInv, AnswersHaveACause
<1>6. FirstRunInv
  BY DEF FirstRunInv
<1> QED
  BY <1>1, <1>2, <1>3, <1>4, <1>5, <1>6 DEF LifecycleInv

(* The inductive invariant of all processes over one database. *)
THEOREM Invariance == Spec => []LifecycleInv
<1>1. ASSUME LifecycleInv, [Next]_vars
      PROVE  LifecycleInv'
  BY <1>1, TypeStep, LoadStep, PoolStep, StartStep, AnswerStep, FirstRunStep DEF LifecycleInv
<1> QED
  BY <1>1, InitLifecycleInv, PTL DEF Spec

(* Whatever kills a fixture run, whatever outage meets it (loadFixtures(),  *)
(* one transaction): all of its users are stored, or none.                  *)
THEOREM FixturesAtomic == Spec => []FixturesAreAtomic
<1>1. LifecycleInv => FixturesAreAtomic
  BY DEF LifecycleInv, LoadInv
<1> QED
  BY <1>1, Invariance, PTL

(* The pool is never overdrawn, the start of a server leaves nothing taken, *)
(* and a shutdown leaves no pool open (ApplicationWarmup, HikariCPFeature). *)
THEOREM ConnectionsReturn == Spec => []ConnectionsAreGivenBack
<1>1. LifecycleInv => ConnectionsAreGivenBack
  BY DEF LifecycleInv, PoolInv
<1> QED
  BY <1>1, Invariance, PTL

(* The start of a server fails for two reasons only, and never gets past a  *)
(* warm up that is larger than the pool (mainModule(), ApplicationWarmup).  *)
THEOREM StartsAreExplained == Spec => []StartFailsForAReason
<1>1. LifecycleInv => StartFailsForAReason
  BY DEF LifecycleInv, StartInv
<1> QED
  BY <1>1, Invariance, PTL

(* What a login is told agrees with the fixtures that are stored, and an    *)
(* internal error has one of four causes (LoginAction, withConnection).     *)
THEOREM AnswersAreExplained == Spec => []AnswersHaveACause
<1>1. LifecycleInv => AnswersHaveACause
  BY DEF LifecycleInv, AnswerInv
<1> QED
  BY <1>1, Invariance, PTL

(* README: "the fixture loader that drops the schema before inserting".     *)
(* Nothing is dropped, but the first process cannot tell, whatever outage   *)
(* it meets; the run that violates it needs a second one.                   *)
THEOREM FirstFixturesAreFresh == Spec => [](runs <= 1 => FixturesStartFresh)
<1>1. LifecycleInv => (runs <= 1 => FixturesStartFresh)
  BY DEF LifecycleInv, FirstRunInv, FixturesStartFresh
<1> QED
  BY <1>1, Invariance, PTL
=============================================================================
