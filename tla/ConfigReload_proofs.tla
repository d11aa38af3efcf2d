-------------------------- MODULE ConfigReload_proofs -------------------------
(***************************************************************************)
(* Proofs about ConfigReload, for any number of requests, edits, read      *)
(* errors and callbacks: type correctness, one load at a time, no request  *)
(* without a configuration or with one older than what it met, and         *)
(* services that follow the workloads.                                     *)
(***************************************************************************)
EXTENDS ConfigReload, FiniteSetTheorems, TLAPS

-----------------------------------------------------------------------------
(* The inductive invariant.                                                *)

\* Every edit adds at most one to the version of the remote configuration.
DiskBound == disk.remote <= edits + 1

\* The places a process may be at: the start of the process never serves and
\* in the executor never runs; requests load in the reloading modes only.
Places ==
    /\ mode = "executor" => pc[Boot] = "idle"
    /\ mode # "executor" => pc[Boot] \in InLoad \union {"license", "up", "down"}
    /\ \A p \in Requests : \/ pc[p] \in {"idle", "serving"}
                           \/ mode = "executor" /\ pc[p] = "license"
                           \/ mode # "eager" /\ pc[p] \in InLoad

\* Two processes never load at once, and isReloading says whether one does.
SingleLoader ==
    /\ \A p, q \in Processes : pc[p] \in InLoad /\ pc[q] \in InLoad => p = q
    /\ isReloading = (mode # "eager" /\ \E p \in Processes : pc[p] \in InLoad)

\* No request before the process listens; an executor has one invocation.
Gate ==
    /\ mode # "executor" /\ pc[Boot] # "up" => \A p \in Requests : pc[p] = "idle"
    /\ mode = "executor" =>
         \A p, q \in Requests : pc[p] # "idle" /\ pc[q] # "idle" => p = q

\* Whoever got past a load that ended well sees a configuration.
HasConfig ==
    \A p \in Processes :
        pc[p] \in {"serving", "up", "callback", "init"} => cachedConfig # NoConfig

\* A load compares with the number of workloads that is current while it reads,
\* and without services there was none.
Comparison ==
    ~strict =>
      \A p \in Processes : pc[p] \in {"remote", "workloads", "apply"} =>
        /\ loading[p].previous = WorkloadCount
        /\ ~servicesInitialised => WorkloadCount = 0

Inv ==
    /\ TypeOK /\ DiskBound /\ Places /\ SingleLoader /\ Gate /\ HasConfig
    /\ Comparison /\ ServicesFollowWorkloads

-----------------------------------------------------------------------------
(* What the helpers do.                                                    *)

LEMMA Counts ==
  ASSUME cachedConfig \in Configs \union {NoConfig}
  PROVE  /\ WorkloadCount \in {0, 1, 2}
         /\ cachedConfig = NoConfig => WorkloadCount = 0
         /\ cachedConfig # NoConfig => WorkloadCount = cachedConfig.workloads
BY NoConfigAssumption DEF WorkloadCount, Configs, WorkloadFiles, Malformed

LEMMA CountsNext ==
  ASSUME cachedConfig' \in Configs \union {NoConfig}
  PROVE  /\ WorkloadCount' \in {0, 1, 2}
         /\ cachedConfig' = NoConfig => WorkloadCount' = 0
         /\ cachedConfig' # NoConfig => WorkloadCount' = cachedConfig'.workloads
BY NoConfigAssumption DEF WorkloadCount, Configs, WorkloadFiles, Malformed

\* Loaders is empty exactly when no process is in a load.
LEMMA NoLoaders ==
  /\ Loaders = {} <=> \A p \in Processes : pc[p] \notin InLoad
  /\ (Loaders = {})' <=> \A p \in Processes : pc'[p] \notin InLoad
BY DEF Loaders

LEMMA InitInv == Init => Inv
<1> SUFFICES ASSUME Init PROVE Inv
  OBVIOUS
<1>1. Boot \in Processes /\ Boot \notin Requests /\ Requests \subseteq Processes
  BY ConfigAssumption DEF Processes
<1>2. /\ pc[Boot] = IF mode # "executor" THEN "license" ELSE "idle"
      /\ \A p \in Requests : pc[p] = "idle"
      /\ \A p \in Processes : pc[p] \in {"license", "idle"}
  BY <1>1 DEF Init
<1>3. TypeOK
  <2>1. NoLoad \in Loads /\ 1 \in RemoteFiles
    BY ConfigAssumption DEF NoLoad, Loads, RemoteFiles, WorkloadFiles
  <2>2. disk \in [remote: RemoteFiles, workloads: WorkloadFiles, license: BOOLEAN]
    BY <2>1 DEF Init
  <2>3. loading \in [Processes -> Loads]
    BY <2>1 DEF Init
  <2>4. pc \in [Processes -> InLoad \union {"idle", "license", "serving", "up", "down"}]
    BY DEF Init
  <2>5. callbacks \in 0..MaxCallbacks /\ edits \in 0..MaxEdits /\ errors \in 0..MaxErrors
    BY ConfigAssumption DEF Init
  <2>6. floor \in [Requests -> RemoteFiles]
    BY ConfigAssumption DEF Init, RemoteFiles
  <2> QED BY <2>2, <2>3, <2>4, <2>5, <2>6 DEF Init, TypeOK
<1>4. DiskBound
  BY DEF Init, DiskBound
<1>5. Places
  BY <1>2 DEF Places
<1>6. SingleLoader
  BY <1>2 DEF SingleLoader, InLoad, Init
<1>7. Gate /\ HasConfig
  BY <1>2 DEF Gate, HasConfig
<1>8. Comparison /\ ServicesFollowWorkloads
  BY <1>2 DEF Comparison, ServicesFollowWorkloads, WorkloadCount, Init
<1> QED BY <1>3, <1>4, <1>5, <1>6, <1>7, <1>8 DEF Inv

-----------------------------------------------------------------------------
(* How a step of a process changes who loads.                              *)

PlaceNames == InLoad \union {"idle", "license", "serving", "up", "down"}

\* What Goto does to the program counters.
LEMMA GotoMoves ==
  ASSUME TypeOK, NEW p \in Processes, NEW place \in PlaceNames, Goto(p, place)
  PROVE  /\ pc' \in [Processes -> PlaceNames]
         /\ \A q \in Processes : pc'[q] = IF q = p THEN place ELSE pc[q]
BY DEF TypeOK, Goto, PlaceNames

\* What Expects does to the history, for the two versions there are to expect.
LEMMA ExpectsMoves ==
  ASSUME TypeOK, NEW p, NEW version \in {disk.remote, InForce, 0}, Expects(p, version)
  PROVE  /\ floor' \in [Requests -> RemoteFiles]
         /\ \A q \in Requests : floor'[q] = IF q = p THEN version ELSE floor[q]
<1>1. version \in RemoteFiles
  BY ConfigAssumption DEF TypeOK, InForce, Configs, RemoteFiles
<1> QED BY <1>1 DEF Expects, TypeOK

LEMMA Known ==
  /\ Boot \in Processes /\ Boot \notin Requests
  /\ \A p \in Requests : p \in Processes
  /\ \A p \in Processes : p \in Requests <=> p # Boot
  /\ \A p \in Processes : /\ After(p) \in PlaceNames /\ After(p) \notin InLoad
                          /\ Broken(p) \in PlaceNames /\ Broken(p) \notin InLoad
BY ConfigAssumption DEF Processes, After, Broken, PlaceNames, InLoad

\* A loading process goes on loading.
LEMMA StayInLoad ==
  ASSUME Inv, NEW p \in Processes, NEW place \in InLoad, pc[p] \in InLoad,
         Goto(p, place), UNCHANGED <<mode, isReloading>>
  PROVE  Places' /\ SingleLoader' /\ Gate'
<1>1. \A q \in Processes : pc'[q] = IF q = p THEN place ELSE pc[q]
  BY GotoMoves DEF Inv, PlaceNames
<1>2. \A q \in Processes : pc'[q] \in InLoad <=> pc[q] \in InLoad
  BY <1>1
<1>3. Places'
  BY <1>1, <1>2, Known DEF Inv, Places, InLoad
<1>4. SingleLoader'
  BY <1>2 DEF Inv, SingleLoader
<1>5. Gate'
  BY <1>1, Known DEF Inv, Gate, Places, InLoad
<1> QED BY <1>3, <1>4, <1>5

\* A loading process is done: then nobody loads.
LEMMA LeaveLoad ==
  ASSUME Inv, NEW p \in Processes, NEW place \in {After(p), Broken(p)},
         pc[p] \in InLoad, Goto(p, place), isReloading' = FALSE, UNCHANGED mode
  PROVE  /\ Places' /\ SingleLoader' /\ Gate'
         /\ \A q \in Processes : pc'[q] \notin InLoad
<1>1. \A q \in Processes : pc'[q] = IF q = p THEN place ELSE pc[q]
  BY GotoMoves, Known DEF Inv
<1>2. \A q \in Processes : pc'[q] \notin InLoad
  BY <1>1, Known DEF Inv, SingleLoader
<1>3. Places'
  BY <1>1, Known DEF Inv, Places, After, Broken, InLoad
<1>4. SingleLoader'
  BY <1>2 DEF SingleLoader
<1>5. Gate'
  BY <1>1, Known DEF Inv, Gate, Places, After, Broken, InLoad
<1> QED BY <1>2, <1>3, <1>4, <1>5

\* A process starts to load when nobody does.
LEMMA EnterLoad ==
  ASSUME Inv, NEW p \in Processes, Goto(p, "remote"), UNCHANGED mode,
         \A q \in Processes : pc[q] \notin InLoad,
         isReloading' = (mode # "eager"),
         \/ p = Boot /\ pc[p] = "license"
         \/ p # Boot /\ mode = "executor" /\ pc[p] = "license"
         \/ p # Boot /\ mode = "lazy" /\ pc[Boot] = "up"
  PROVE  Places' /\ SingleLoader' /\ Gate'
<1>1. \A q \in Processes : pc'[q] = IF q = p THEN "remote" ELSE pc[q]
  BY GotoMoves DEF Inv, PlaceNames, InLoad
<1>2. Places'
  BY <1>1, Known DEF Inv, Places, InLoad
<1>3. SingleLoader'
  <2>1. \A q \in Processes : pc'[q] \in InLoad <=> q = p
    BY <1>1 DEF InLoad
  <2> QED BY <2>1 DEF SingleLoader
<1>4. Gate'
  BY <1>1, Known DEF Inv, Gate, Places
<1> QED BY <1>2, <1>3, <1>4

\* A process moves between places outside a load.
LEMMA OutsideLoad ==
  ASSUME Inv, NEW p \in Processes, NEW place \in PlaceNames, Goto(p, place),
         UNCHANGED <<mode, isReloading>>, pc[p] \notin InLoad, place \notin InLoad
  PROVE  /\ SingleLoader'
         /\ \A q \in Processes : pc'[q] \in InLoad <=> pc[q] \in InLoad
<1>1. \A q \in Processes : pc'[q] \in InLoad <=> pc[q] \in InLoad
  BY GotoMoves DEF Inv
<1> QED BY <1>1 DEF Inv, SingleLoader

-----------------------------------------------------------------------------
(* The remaining conjuncts, for each way a load goes on or ends.           *)

\* Comparison speaks of the loader only, so it survives any step of another
\* process, and any step that leaves the reading phase.
LEMMA ComparisonKept ==
  ASSUME Inv, UNCHANGED <<strict, cachedConfig, servicesInitialised>>,
         \A q \in Processes : pc'[q] \in {"remote", "workloads", "apply"} =>
             /\ pc[q] \in {"remote", "workloads", "apply"}
             /\ loading'[q].previous = loading[q].previous
  PROVE  Comparison'
BY DEF Inv, Comparison, WorkloadCount

\* ServicesFollowWorkloads when nothing it reads but the program counters moves.
LEMMA ServicesKept ==
  ASSUME Inv, UNCHANGED <<strict, cachedConfig, servicesInitialised>>,
         \A q \in Processes : pc'[q] = "init" => pc[q] = "init",
         \A q \in Processes : pc'[q] \in InLoad <=> pc[q] \in InLoad
  PROVE  ServicesFollowWorkloads'
BY NoLoaders DEF Inv, ServicesFollowWorkloads, WorkloadCount

\* A load starts: it compares with the current count.
LEMMA StartLoadInv ==
  ASSUME Inv, NEW p \in Processes, StartLoad(p),
         \A q \in Processes : pc[q] \notin InLoad,
         UNCHANGED <<strict, cachedConfig, servicesInitialised>>
  PROVE  /\ loading' \in [Processes -> Loads]
         /\ HasConfig' /\ Comparison' /\ ServicesFollowWorkloads'
<1>1. /\ pc' \in [Processes -> PlaceNames]
      /\ \A q \in Processes : pc'[q] = IF q = p THEN "remote" ELSE pc[q]
  BY GotoMoves DEF Inv, PlaceNames, InLoad, StartLoad
<1>2. WorkloadCount \in {0, 1, 2}
  BY Counts DEF Inv, TypeOK
<1>3. /\ [NoLoad EXCEPT !.previous = WorkloadCount] \in Loads
      /\ [NoLoad EXCEPT !.previous = WorkloadCount].previous = WorkloadCount
  BY <1>2, ConfigAssumption DEF NoLoad, Loads, RemoteFiles, WorkloadFiles
<1>4. loading \in [Processes -> Loads]
  BY DEF Inv, TypeOK
<1>5. /\ loading' \in [Processes -> Loads]
      /\ loading'[p].previous = WorkloadCount
  BY <1>3, <1>4 DEF StartLoad
<1>6. HasConfig'
  BY <1>1 DEF Inv, HasConfig
<1>7. ~strict /\ ~servicesInitialised => WorkloadCount = 0
  BY <1>2, NoLoaders DEF Inv, ServicesFollowWorkloads
<1>8. WorkloadCount' = WorkloadCount
  BY DEF WorkloadCount
<1>9. \A q \in Processes : pc'[q] \in {"remote", "workloads", "apply"} => q = p
  BY <1>1 DEF InLoad
<1>10. Comparison'
  BY <1>5, <1>7, <1>8, <1>9 DEF Comparison
<1>11. ServicesFollowWorkloads'
  <2>1. \A q \in Processes : pc'[q] # "init"
    BY <1>1 DEF InLoad
  <2>2. pc'[p] \in InLoad
    BY <1>1 DEF InLoad
  <2> QED BY <2>1, <2>2, NoLoaders DEF ServicesFollowWorkloads
<1> QED BY <1>5, <1>6, <1>10, <1>11

\* A load ends, with the services the configuration asks for.
LEMMA SettledInv ==
  ASSUME Inv, NEW p \in Processes, NEW place \in {After(p), Broken(p)},
         pc[p] \in InLoad, LoadSettled(p, place), UNCHANGED mode,
         cachedConfig' = NoConfig => /\ cachedConfig = NoConfig
                                     /\ place = Broken(p),
         ~strict' /\ WorkloadCount' > 0 => servicesInitialised'
  PROVE  /\ pc' \in [Processes -> PlaceNames] /\ loading' \in [Processes -> Loads]
         /\ isReloading' = FALSE
         /\ Places' /\ SingleLoader' /\ Gate'
         /\ HasConfig' /\ Comparison' /\ ServicesFollowWorkloads'
<1>1. /\ pc' \in [Processes -> PlaceNames]
      /\ \A q \in Processes : pc'[q] = IF q = p THEN place ELSE pc[q]
  BY GotoMoves, Known DEF Inv, LoadSettled
<1>2. NoLoad \in Loads
  BY ConfigAssumption DEF NoLoad, Loads, RemoteFiles, WorkloadFiles
<1>3. loading' \in [Processes -> Loads]
  BY <1>2 DEF LoadSettled, Inv, TypeOK
<1>4. /\ Places' /\ SingleLoader' /\ Gate'
      /\ \A q \in Processes : pc'[q] \notin InLoad
  BY LeaveLoad DEF LoadSettled
<1>5. HasConfig'
  BY <1>1 DEF Inv, HasConfig, Broken
<1>6. Comparison' /\ ServicesFollowWorkloads'
  BY <1>4 DEF Comparison, ServicesFollowWorkloads, InLoad
<1> QED BY <1>1, <1>3, <1>4, <1>5, <1>6 DEF LoadSettled

\* A load goes on past the reading phase, towards a callback or the services.
LEMMA OnwardInv ==
  ASSUME Inv, NEW p \in Processes, NEW place \in {"callback", "init"},
         pc[p] \in InLoad, Goto(p, place), UNCHANGED <<mode, isReloading>>,
         cachedConfig' # NoConfig,
         place = "init" => ~servicesInitialised'
  PROVE  /\ pc' \in [Processes -> PlaceNames]
         /\ Places' /\ SingleLoader' /\ Gate'
         /\ HasConfig' /\ Comparison' /\ ServicesFollowWorkloads'
<1>1. /\ pc' \in [Processes -> PlaceNames]
      /\ \A q \in Processes : pc'[q] = IF q = p THEN place ELSE pc[q]
  BY GotoMoves DEF Inv, PlaceNames, InLoad
<1>2. Places' /\ SingleLoader' /\ Gate'
  BY StayInLoad DEF InLoad
<1>3. HasConfig'
  BY <1>1 DEF Inv, HasConfig
<1>4. \A q \in Processes : pc'[q] \in InLoad <=> q = p
  BY <1>1 DEF Inv, SingleLoader, InLoad
<1>5. Comparison'
  BY <1>1, <1>4 DEF Comparison, InLoad
<1>6. ServicesFollowWorkloads'
  <2>1. \A q \in Processes : pc'[q] = "init" => ~servicesInitialised'
    BY <1>1, <1>4 DEF InLoad
  <2>2. ~(Loaders = {})'
    BY <1>4, NoLoaders
  <2> QED BY <2>1, <2>2 DEF ServicesFollowWorkloads
<1> QED BY <1>1, <1>2, <1>3, <1>5, <1>6

\* loadConfig returns: the eager start initialises the services, unless there are
\* no workloads; in the other modes the callbacks have done it.
LEMMA LoadDoneInv ==
  ASSUME Inv, NEW p \in Processes, pc[p] \in InLoad, LoadDone(p),
         UNCHANGED <<mode, strict, callbacks, servicesInitialised>>,
         cachedConfig' \in Configs,
         ~strict /\ WorkloadCount' > 0 /\ ~servicesInitialised => mode = "eager"
  PROVE  /\ pc' \in [Processes -> PlaceNames] /\ loading' \in [Processes -> Loads]
         /\ isReloading' \in BOOLEAN
         /\ Places' /\ SingleLoader' /\ Gate'
         /\ HasConfig' /\ Comparison' /\ ServicesFollowWorkloads'
<1>1. /\ cachedConfig' # NoConfig
      /\ WorkloadCount' = cachedConfig'.workloads
      /\ WorkloadCount' \in {0, 1, 2}
  BY CountsNext, NoConfigAssumption
<1>2. CASE mode = "eager" /\ ~servicesInitialised /\ cachedConfig'.workloads > 0
  <2>1. /\ Goto(p, "init") /\ UNCHANGED isReloading
        /\ loading' = [loading EXCEPT ![p].callback = callbacks]
    BY <1>2 DEF LoadDone
  <2>2. loading' \in [Processes -> Loads] /\ isReloading' \in BOOLEAN
    BY <2>1 DEF Inv, TypeOK, Loads
  <2>3. "init" \in {"callback", "init"}
    OBVIOUS
  <2> QED BY <1>1, <1>2, <2>1, <2>2, <2>3, OnwardInv
<1>3. CASE ~(mode = "eager" /\ ~servicesInitialised /\ cachedConfig'.workloads > 0)
  <2>1. LoadSettled(p, After(p))
    BY <1>3 DEF LoadDone
  <2>2. ~strict' /\ WorkloadCount' > 0 => servicesInitialised'
    BY <1>1, <1>3
  <2> QED BY <1>1, <2>1, <2>2, SettledInv
<1> QED BY <1>2, <1>3

\* The next callback is awaited, or the load is over.
LEMMA NextCallbackInv ==
  ASSUME Inv, NEW p \in Processes, pc[p] \in {"callback", "init"}, NextCallback(p),
         UNCHANGED <<mode, strict, callbacks, cachedConfig>>,
         servicesInitialised' \in BOOLEAN,
         loading[p].callback < callbacks \/ UNCHANGED servicesInitialised,
         ~strict /\ WorkloadCount > 0 => servicesInitialised'
  PROVE  /\ pc' \in [Processes -> PlaceNames] /\ loading' \in [Processes -> Loads]
         /\ isReloading' \in BOOLEAN
         /\ Places' /\ SingleLoader' /\ Gate'
         /\ HasConfig' /\ Comparison' /\ ServicesFollowWorkloads'
<1>1. cachedConfig # NoConfig /\ cachedConfig \in Configs /\ pc[p] \in InLoad
  BY DEF Inv, HasConfig, TypeOK, InLoad
<1>2. CASE loading[p].callback < callbacks
  <2>1. /\ Goto(p, "callback") /\ UNCHANGED isReloading
        /\ loading' = [loading EXCEPT ![p].callback = @ + 1]
    BY <1>2 DEF NextCallback
  <2>2. /\ loading[p] \in Loads /\ loading \in [Processes -> Loads]
        /\ callbacks \in 0..MaxCallbacks /\ isReloading \in BOOLEAN
    BY DEF Inv, TypeOK
  <2>3. loading[p].callback + 1 \in 0..MaxCallbacks
    BY <1>2, <2>2, ConfigAssumption DEF Loads
  <2>4. loading' \in [Processes -> Loads]
    BY <2>1, <2>2, <2>3 DEF Loads
  <2>5. "callback" \in {"callback", "init"} /\ "callback" # "init"
    OBVIOUS
  <2> QED BY <1>1, <2>1, <2>2, <2>4, <2>5, OnwardInv
<1>3. CASE ~(loading[p].callback < callbacks)
  <2>1. LoadDone(p) /\ UNCHANGED servicesInitialised
    BY <1>3 DEF NextCallback
  <2>2. WorkloadCount' = WorkloadCount
    BY DEF WorkloadCount
  <2> QED BY <1>1, <2>1, <2>2, LoadDoneInv
<1> QED BY <1>2, <1>3

-----------------------------------------------------------------------------
(* One lemma per action.                                                   *)

\* ensureConfigLoaded, by the start of the lazy process or by a request that came in.
LEMMA EnsureInv ==
  ASSUME Inv, NEW p \in Processes, EnsureConfigLoaded(p),
         UNCHANGED <<mode, strict, disk, cachedConfig, fresh,
                     servicesInitialised, edits, errors>>,
         callbacks' \in 0..MaxCallbacks,
         \/ p = Boot /\ mode = "lazy" /\ pc[p] = "license"
         \/ p # Boot /\ mode = "executor" /\ pc[p] = "license"
         \/ p # Boot /\ mode = "lazy" /\ pc[Boot] = "up" /\ pc[p] = "idle"
  PROVE  Inv'
<1>1. CASE (cachedConfig # NoConfig /\ fresh) \/ isReloading
  <2>1. Goto(p, After(p)) /\ UNCHANGED <<isReloading, loading>>
    BY <1>1 DEF EnsureConfigLoaded
  <2>2. /\ pc' \in [Processes -> PlaceNames]
        /\ \A q \in Processes : pc'[q] = IF q = p THEN After(p) ELSE pc[q]
    BY <2>1, GotoMoves, Known DEF Inv
  <2>3. cachedConfig # NoConfig
    <3>1. CASE cachedConfig # NoConfig /\ fresh
      BY <3>1
    <3>2. CASE isReloading
      <4>1. PICK r \in Processes : mode # "eager" /\ pc[r] \in InLoad
        BY <3>2 DEF Inv, SingleLoader
      <4>2. pc[Boot] = "up" /\ mode = "lazy"
        BY <4>1, Known DEF Inv, Gate, Places, InLoad
      <4> QED BY <4>2, Known DEF Inv, HasConfig
    <3> QED BY <1>1, <3>1, <3>2
  <2>4. /\ SingleLoader'
        /\ \A q \in Processes : pc'[q] \in InLoad <=> pc[q] \in InLoad
    BY <2>1, OutsideLoad, Known DEF InLoad
  <2>5. Places'
    BY <2>2, Known DEF Inv, Places, After
  <2>6. Gate'
    BY <2>2, Known DEF Inv, Gate, Places, After
  <2>7. HasConfig'
    BY <2>2, <2>3 DEF HasConfig
  <2>8. \A q \in Processes : pc'[q] \in InLoad => pc'[q] = pc[q]
    BY <2>2, Known
  <2>9. Comparison'
    BY <2>1, <2>8, ComparisonKept DEF InLoad
  <2>10. ServicesFollowWorkloads'
    BY <2>4, <2>8, ServicesKept DEF InLoad
  <2>11. TypeOK' /\ DiskBound'
    <3>1. floor' \in [Requests -> RemoteFiles]
      BY <1>1, ExpectsMoves DEF EnsureConfigLoaded, Inv
    <3> QED BY <2>1, <2>2, <3>1 DEF Inv, TypeOK, DiskBound, PlaceNames
  <2> QED BY <2>4, <2>5, <2>6, <2>7, <2>9, <2>10, <2>11 DEF Inv
<1>2. CASE ~((cachedConfig # NoConfig /\ fresh) \/ isReloading)
  <2>1. isReloading' = TRUE /\ StartLoad(p) /\ ~isReloading
    BY <1>2 DEF EnsureConfigLoaded
  <2>2. \A q \in Processes : pc[q] \notin InLoad
    BY <2>1 DEF Inv, SingleLoader
  <2>3. /\ loading' \in [Processes -> Loads]
        /\ HasConfig' /\ Comparison' /\ ServicesFollowWorkloads'
    BY <2>1, <2>2, StartLoadInv
  <2>4. Places' /\ SingleLoader' /\ Gate'
    BY <2>1, <2>2, EnterLoad DEF StartLoad
  <2>5. pc' \in [Processes -> PlaceNames]
    BY <2>1, GotoMoves DEF StartLoad, Inv, PlaceNames, InLoad
  <2>6. TypeOK' /\ DiskBound'
    <3>1. floor' \in [Requests -> RemoteFiles]
      BY <2>1, ExpectsMoves DEF StartLoad, Inv
    <3> QED BY <2>1, <2>3, <2>5, <3>1 DEF Inv, TypeOK, DiskBound, PlaceNames
  <2> QED BY <2>3, <2>4, <2>6 DEF Inv
<1> QED BY <1>1, <1>2

\* A process moves between places outside a load, to one where it needs no
\* configuration.
LEMMA StepAsideInv ==
  ASSUME Inv, NEW p \in Processes, NEW place \in PlaceNames, Goto(p, place),
         place \notin InLoad, pc[p] \notin InLoad, place # "up",
         place = "serving" => cachedConfig # NoConfig,
         Places', Gate',
         UNCHANGED <<mode, strict, disk, cachedConfig, fresh, isReloading, loading,
                     servicesInitialised, edits, errors>>,
         callbacks' \in 0..MaxCallbacks, floor' \in [Requests -> RemoteFiles]
  PROVE  Inv'
<1>1. /\ pc' \in [Processes -> PlaceNames]
      /\ \A q \in Processes : pc'[q] = IF q = p THEN place ELSE pc[q]
  BY GotoMoves DEF Inv
<1>2. /\ SingleLoader'
      /\ \A q \in Processes : pc'[q] \in InLoad <=> pc[q] \in InLoad
  BY OutsideLoad
<1>3. HasConfig'
  BY <1>1 DEF Inv, HasConfig, InLoad
<1>4. \A q \in Processes : pc'[q] \in InLoad => pc'[q] = pc[q]
  BY <1>1
<1>5. Comparison'
  BY <1>4, ComparisonKept DEF InLoad
<1>6. ServicesFollowWorkloads'
  BY <1>2, <1>4, ServicesKept DEF InLoad
<1>7. TypeOK' /\ DiskBound'
  BY <1>1 DEF Inv, TypeOK, DiskBound, PlaceNames
<1> QED BY <1>2, <1>3, <1>5, <1>6, <1>7 DEF Inv

LEMMA LicenseCheckedInv ==
  ASSUME Inv, NEW p \in Processes, LicenseChecked(p)
  PROVE  Inv'
<1>1. /\ pc[p] = "license" /\ mode \in Modes
      /\ p # Boot => mode = "executor"
      /\ p = Boot => mode # "executor"
  BY Known DEF LicenseChecked, Inv, TypeOK, Places, InLoad
<1>2. CASE strict /\ ~disk.license
  <2>1. /\ Goto(p, Broken(p)) /\ Broken(p) \in {"down", "idle"}
        /\ UNCHANGED <<mode, strict, disk, cachedConfig, fresh, isReloading, callbacks,
                       loading, servicesInitialised, edits, errors>>
    BY <1>2 DEF LicenseChecked, Broken
  <2>2. \A q \in Processes : pc'[q] = IF q = p THEN Broken(p) ELSE pc[q]
    BY <2>1, GotoMoves, Known DEF Inv
  <2>3. Places'
    BY <1>1, <2>1, <2>2, Known DEF Inv, Places, Broken
  <2>4. Gate'
    BY <1>1, <2>1, <2>2, Known DEF Inv, Gate, Places, Broken
  <2>5. callbacks' \in 0..MaxCallbacks /\ floor' \in [Requests -> RemoteFiles]
    BY <1>2, <2>1 DEF Inv, TypeOK, LicenseChecked
  <2>6. Broken(p) \in PlaceNames /\ Broken(p) \notin InLoad /\ pc[p] \notin InLoad
    BY <1>1, Known DEF InLoad
  <2> QED BY <2>1, <2>3, <2>4, <2>5, <2>6, StepAsideInv
<1>3. CASE ~(strict /\ ~disk.license) /\ mode = "eager"
  <2>1. /\ StartLoad(p) /\ p = Boot
        /\ UNCHANGED <<mode, strict, disk, cachedConfig, fresh, isReloading, callbacks,
                       servicesInitialised, edits, errors>>
    BY <1>1, <1>3 DEF LicenseChecked
  <2>2. \A q \in Processes : pc[q] \notin InLoad
    BY <1>1, <1>3, <2>1, Known DEF Inv, Places, InLoad
  <2>3. isReloading' = (mode # "eager")
    BY <1>3, <2>1 DEF Inv, SingleLoader
  <2>4. /\ loading' \in [Processes -> Loads]
        /\ HasConfig' /\ Comparison' /\ ServicesFollowWorkloads'
    BY <2>1, <2>2, StartLoadInv
  <2>5. Places' /\ SingleLoader' /\ Gate'
    BY <1>1, <2>1, <2>2, <2>3, EnterLoad DEF StartLoad
  <2>6. pc' \in [Processes -> PlaceNames]
    BY <2>1, GotoMoves DEF StartLoad, Inv, PlaceNames, InLoad
  <2>7. TypeOK' /\ DiskBound'
    <3>1. floor' \in [Requests -> RemoteFiles]
      BY <2>1, ExpectsMoves DEF StartLoad, Inv
    <3> QED BY <2>1, <2>4, <2>6, <3>1 DEF Inv, TypeOK, DiskBound, PlaceNames
  <2> QED BY <2>4, <2>5, <2>7 DEF Inv
<1>4. CASE ~(strict /\ ~disk.license) /\ mode # "eager"
  <2>1. EnsureConfigLoaded(p)
    BY <1>4 DEF LicenseChecked
  <2>2. callbacks' \in 0..MaxCallbacks
    BY DEF LicenseChecked, Inv, TypeOK
  <2>3. p = Boot => mode = "lazy"
    BY <1>1, <1>4 DEF Modes
  <2> QED BY <1>1, <2>1, <2>2, <2>3, EnsureInv DEF LicenseChecked
<1> QED BY <1>2, <1>3, <1>4

LEMMA ArriveInv ==
  ASSUME Inv, NEW p \in Requests, Arrive(p)
  PROVE  Inv'
<1>1. /\ p \in Processes /\ p # Boot /\ pc[p] = "idle" /\ pc[p] \notin InLoad
      /\ mode # "executor" => pc[Boot] = "up"
      /\ callbacks \in 0..MaxCallbacks
      /\ UNCHANGED <<mode, strict, disk, cachedConfig, fresh, servicesInitialised,
                     edits, errors>>
  BY Known DEF Arrive, Listening, InLoad, Inv, TypeOK
<1>2. CASE mode = "lazy" /\ EnsureConfigLoaded(p) /\ UNCHANGED callbacks
  BY <1>1, <1>2, EnsureInv
<1>3. CASE /\ mode = "eager" /\ Goto(p, "serving") /\ Expects(p, InForce)
           /\ UNCHANGED <<isReloading, loading, callbacks>>
  <2>1. \A q \in Processes : pc'[q] = IF q = p THEN "serving" ELSE pc[q]
    BY <1>1, <1>3, GotoMoves DEF Inv, PlaceNames
  <2>2. Places' /\ Gate'
    BY <1>1, <1>3, <2>1, Known DEF Inv, Places, Gate
  <2>3. cachedConfig # NoConfig
    BY <1>1, <1>3, Known DEF Inv, HasConfig
  <2>4. "serving" \in PlaceNames /\ "serving" \notin InLoad /\ "serving" # "up"
    BY DEF PlaceNames, InLoad
  <2>5. floor' \in [Requests -> RemoteFiles]
    BY <1>3, ExpectsMoves DEF Inv
  <2> QED BY <1>1, <1>3, <2>2, <2>3, <2>4, <2>5, StepAsideInv
<1>4. CASE /\ mode = "executor" /\ \A q \in Requests : pc[q] = "idle"
           /\ callbacks' = IF callbacks < MaxCallbacks THEN callbacks + 1 ELSE callbacks
           /\ Goto(p, "license")
           /\ UNCHANGED <<isReloading, loading, floor>>
  <2>1. \A q \in Processes : pc'[q] = IF q = p THEN "license" ELSE pc[q]
    BY <1>1, <1>4, GotoMoves DEF Inv, PlaceNames
  <2>2. Places' /\ Gate'
    BY <1>1, <1>4, <2>1, Known DEF Inv, Places, Gate
  <2>3. callbacks' \in 0..MaxCallbacks
    BY <1>1, <1>4, ConfigAssumption
  <2>4. /\ "license" \in PlaceNames /\ "license" \notin InLoad
        /\ "license" # "up" /\ "license" # "serving"
    BY DEF PlaceNames, InLoad
  <2>5. floor' \in [Requests -> RemoteFiles]
    BY <1>4 DEF Inv, TypeOK
  <2> QED BY <1>1, <1>4, <2>2, <2>3, <2>4, <2>5, StepAsideInv
<1> QED BY <1>2, <1>3, <1>4 DEF Arrive

LEMMA RespondInv ==
  ASSUME Inv, NEW p \in Processes, Respond(p)
  PROVE  Inv'
<1>1. /\ p # Boot /\ pc[p] = "serving" /\ pc[p] \notin InLoad
      /\ Goto(p, "idle") /\ Expects(p, 0)
      /\ UNCHANGED <<mode, strict, disk, cachedConfig, fresh, isReloading, callbacks,
                     servicesInitialised, loading, edits, errors>>
  BY Known DEF Respond, Inv, Places, InLoad
<1>2. \A q \in Processes : pc'[q] = IF q = p THEN "idle" ELSE pc[q]
  BY <1>1, GotoMoves DEF Inv, PlaceNames
<1>3. Places' /\ Gate'
  BY <1>1, <1>2, Known DEF Inv, Places, Gate
<1>4. /\ "idle" \in PlaceNames /\ "idle" \notin InLoad
      /\ "idle" # "up" /\ "idle" # "serving"
  BY DEF PlaceNames, InLoad
<1>5. callbacks' \in 0..MaxCallbacks /\ floor' \in [Requests -> RemoteFiles]
  BY <1>1, ExpectsMoves DEF Inv, TypeOK
<1> QED BY <1>1, <1>3, <1>4, <1>5, StepAsideInv

\* A file was read, or replaced by its default.
LEMMA ReadInv ==
  ASSUME Inv, NEW p \in Processes, NEW place \in {"workloads", "apply"},
         pc[p] \in {"remote", "workloads"}, Goto(p, place),
         loading' \in [Processes -> Loads],
         \A q \in Processes : loading'[q].previous = loading[q].previous,
         errors' \in 0..MaxErrors,
         UNCHANGED <<mode, strict, disk, cachedConfig, fresh, isReloading, callbacks,
                     servicesInitialised, edits, floor>>
  PROVE  Inv'
<1>1. /\ pc' \in [Processes -> PlaceNames]
      /\ \A q \in Processes : pc'[q] = IF q = p THEN place ELSE pc[q]
  BY GotoMoves DEF Inv, PlaceNames, InLoad
<1>2. Places' /\ SingleLoader' /\ Gate'
  BY StayInLoad DEF InLoad
<1>3. HasConfig'
  BY <1>1 DEF Inv, HasConfig
<1>4. Comparison'
  BY <1>1, ComparisonKept
<1>5. ServicesFollowWorkloads'
  BY <1>1, ServicesKept DEF InLoad
<1>6. TypeOK' /\ DiskBound'
  BY <1>1 DEF Inv, TypeOK, DiskBound, PlaceNames
<1> QED BY <1>2, <1>3, <1>4, <1>5, <1>6 DEF Inv

LEMMA ReadRemoteInv ==
  ASSUME Inv, NEW p \in Processes, ReadRemote(p)
  PROVE  Inv'
<1>1. /\ loading \in [Processes -> Loads] /\ errors \in 0..MaxErrors
      /\ disk.remote \in RemoteFiles
  BY DEF Inv, TypeOK
<1>2. /\ loading' \in [Processes -> Loads]
      /\ \A q \in Processes : loading'[q].previous = loading[q].previous
  BY <1>1 DEF ReadRemote, Loads
<1>3. errors' \in 0..MaxErrors
  BY <1>1, ConfigAssumption DEF ReadRemote
<1> QED BY <1>2, <1>3, ReadInv DEF ReadRemote

LEMMA ReadWorkloadsInv ==
  ASSUME Inv, NEW p \in Processes, ReadWorkloads(p)
  PROVE  Inv'
<1>1. /\ loading \in [Processes -> Loads] /\ errors \in 0..MaxErrors
      /\ disk.workloads \in WorkloadFiles
  BY DEF Inv, TypeOK
<1>2. /\ loading' \in [Processes -> Loads]
      /\ \A q \in Processes : loading'[q].previous = loading[q].previous
  BY <1>1 DEF ReadWorkloads, Loads
<1>3. errors' \in 0..MaxErrors
  BY <1>1, ConfigAssumption DEF ReadWorkloads
<1> QED BY <1>2, <1>3, ReadInv DEF ReadWorkloads

LEMMA ApplyInv ==
  ASSUME Inv, NEW p \in Processes, Apply(p)
  PROVE  Inv'
<1>1. /\ pc[p] = "apply" /\ pc[p] \in InLoad /\ loading[p] \in Loads
      /\ loading \in [Processes -> Loads] /\ isReloading \in BOOLEAN
      /\ cachedConfig \in Configs \union {NoConfig}
      /\ UNCHANGED <<mode, strict, disk, callbacks, servicesInitialised, edits, errors, floor>>
  BY DEF Apply, Inv, TypeOK, InLoad
<1>2. ~strict => /\ loading[p].previous = WorkloadCount
                 /\ ~servicesInitialised => WorkloadCount = 0
  BY <1>1 DEF Inv, Comparison
<1> SUFFICES /\ cachedConfig' \in Configs \union {NoConfig} /\ fresh' \in BOOLEAN
             /\ pc' \in [Processes -> PlaceNames] /\ loading' \in [Processes -> Loads]
             /\ isReloading' \in BOOLEAN
             /\ Places' /\ SingleLoader' /\ Gate'
             /\ HasConfig' /\ Comparison' /\ ServicesFollowWorkloads'
  BY <1>1 DEF Inv, TypeOK, DiskBound, PlaceNames
<1>3. CASE /\ loading[p].workloads # Malformed
           /\ cachedConfig' = [remote |-> loading[p].remote,
                               workloads |-> loading[p].workloads]
           /\ fresh' = TRUE
           /\ IF Notifies(p)
              THEN /\ Goto(p, "callback")
                   /\ loading' = [loading EXCEPT ![p].callback = 1]
                   /\ UNCHANGED isReloading
              ELSE LoadDone(p)
  <2>1. cachedConfig' \in Configs
    BY <1>1, <1>3 DEF Loads, Configs
  <2>2. /\ cachedConfig' # NoConfig /\ WorkloadCount' = loading[p].workloads
    BY <1>3, <2>1, CountsNext, NoConfigAssumption
  <2>3. CASE Notifies(p)
    <3>1. loading' \in [Processes -> Loads]
      BY <1>1, <1>3, <2>3, ConfigAssumption DEF Loads
    <3>2. "callback" \in {"callback", "init"} /\ "callback" # "init"
      OBVIOUS
    <3> QED BY <1>1, <1>3, <2>1, <2>2, <2>3, <3>1, <3>2, OnwardInv
  <2>4. CASE ~Notifies(p)
    <3>1. ~strict => WorkloadCount' = WorkloadCount
      BY <1>2, <2>2, <2>4 DEF Notifies
    <3>2. ~(~strict /\ WorkloadCount' > 0 /\ ~servicesInitialised)
      BY <1>2, <3>1
    <3> QED BY <1>1, <1>3, <2>1, <2>4, <3>2, LoadDoneInv
  <2> QED BY <2>3, <2>4
<1>4. CASE /\ loading[p].workloads = Malformed /\ ~strict
           /\ cachedConfig' = Minimal /\ fresh' = TRUE
           /\ LoadDone(p)
  <2>1. cachedConfig' \in Configs /\ cachedConfig'.workloads = 0
    BY <1>4, ConfigAssumption DEF Minimal, Configs, RemoteFiles, WorkloadFiles, Malformed
  <2>2. WorkloadCount' = 0
    BY <2>1, CountsNext, NoConfigAssumption
  <2> QED BY <1>1, <1>4, <2>1, <2>2, LoadDoneInv
<1>5. CASE /\ loading[p].workloads = Malformed /\ strict
           /\ LoadSettled(p, Broken(p))
           /\ UNCHANGED <<cachedConfig, fresh>>
  <2>1. fresh' \in BOOLEAN
    BY <1>5 DEF Inv, TypeOK
  <2> QED BY <1>1, <1>5, <2>1, SettledInv
<1> QED BY <1>3, <1>4, <1>5 DEF Apply

LEMMA CallbackInv ==
  ASSUME Inv, NEW p \in Processes, Callback(p)
  PROVE  Inv'
<1>1. /\ pc[p] = "callback" /\ pc[p] \in InLoad /\ pc[p] \in {"callback", "init"}
      /\ servicesInitialised \in BOOLEAN /\ isReloading \in BOOLEAN
      /\ loading \in [Processes -> Loads]
      /\ cachedConfig # NoConfig
      /\ UNCHANGED <<mode, strict, disk, cachedConfig, fresh, callbacks,
                     servicesInitialised, edits, errors, floor>>
  BY DEF Callback, Inv, TypeOK, InLoad, HasConfig
<1>2. WorkloadCount \in {0, 1, 2}
  BY Counts DEF Inv, TypeOK
<1> SUFFICES /\ pc' \in [Processes -> PlaceNames] /\ loading' \in [Processes -> Loads]
             /\ isReloading' \in BOOLEAN
             /\ Places' /\ SingleLoader' /\ Gate'
             /\ HasConfig' /\ Comparison' /\ ServicesFollowWorkloads'
  BY <1>1 DEF Inv, TypeOK, DiskBound, PlaceNames
<1>3. CASE (strict /\ ~disk.license) \/ servicesInitialised \/ WorkloadCount = 0
  <2>1. NextCallback(p)
    BY <1>3 DEF Callback
  <2>2. ~strict /\ WorkloadCount > 0 => servicesInitialised'
    BY <1>1, <1>2, <1>3
  <2> QED BY <1>1, <2>1, <2>2, NextCallbackInv
<1>4. CASE ~((strict /\ ~disk.license) \/ servicesInitialised \/ WorkloadCount = 0)
  <2>1. Goto(p, "init") /\ UNCHANGED <<isReloading, loading>> /\ ~servicesInitialised'
    BY <1>1, <1>4 DEF Callback
  <2>2. "init" \in {"callback", "init"}
    OBVIOUS
  <2> QED BY <1>1, <2>1, <2>2, OnwardInv
<1> QED BY <1>3, <1>4

LEMMA InitServicesInv ==
  ASSUME Inv, NEW p \in Processes, InitServices(p)
  PROVE  Inv'
<1>1. /\ pc[p] = "init" /\ pc[p] \in InLoad /\ pc[p] \in {"callback", "init"}
      /\ servicesInitialised' = TRUE
      /\ cachedConfig # NoConfig
      /\ UNCHANGED <<mode, strict, disk, cachedConfig, fresh, callbacks, edits, errors, floor>>
  BY DEF InitServices, Inv, TypeOK, InLoad, HasConfig
<1> SUFFICES /\ pc' \in [Processes -> PlaceNames] /\ loading' \in [Processes -> Loads]
             /\ isReloading' \in BOOLEAN
             /\ Places' /\ SingleLoader' /\ Gate'
             /\ HasConfig' /\ Comparison' /\ ServicesFollowWorkloads'
  BY <1>1 DEF Inv, TypeOK, DiskBound, PlaceNames
<1>2. CASE loading[p].callback < callbacks
  BY <1>1, <1>2, NextCallbackInv DEF InitServices
<1>3. CASE ~(loading[p].callback < callbacks)
  <2>1. LoadSettled(p, After(p))
    BY <1>3 DEF InitServices
  <2> QED BY <1>1, <2>1, SettledInv
<1> QED BY <1>2, <1>3

\* Processes that stand still keep all that is said of them.
LEMMA StandStill ==
  ASSUME Inv, UNCHANGED <<mode, strict, cachedConfig, isReloading, servicesInitialised,
                          pc, loading>>
  PROVE  /\ Places' /\ SingleLoader' /\ Gate' /\ HasConfig' /\ Comparison'
         /\ ServicesFollowWorkloads'
<1>1. Places' /\ SingleLoader' /\ Gate' /\ HasConfig'
  BY DEF Inv, Places, SingleLoader, Gate, HasConfig
<1>2. Comparison'
  BY ComparisonKept
<1>3. ServicesFollowWorkloads'
  BY ServicesKept
<1> QED BY <1>1, <1>2, <1>3

LEMMA ExpireInv == Inv /\ Expire => Inv'
<1> SUFFICES ASSUME Inv, Expire PROVE Inv'
  OBVIOUS
<1>1. TypeOK' /\ DiskBound'
  BY DEF Expire, Inv, TypeOK, DiskBound
<1> QED BY <1>1, StandStill DEF Expire, Inv

LEMMA EditInv == Inv /\ Edit => Inv'
<1> SUFFICES ASSUME Inv, Edit PROVE Inv'
  OBVIOUS
<1>1. /\ disk \in [remote: RemoteFiles, workloads: WorkloadFiles, license: BOOLEAN]
      /\ disk.remote <= edits + 1 /\ edits \in 0..MaxEdits /\ disk.remote \in Nat
  BY ConfigAssumption DEF Inv, TypeOK, DiskBound, RemoteFiles
<1>2. /\ disk' \in [remote: RemoteFiles, workloads: WorkloadFiles, license: BOOLEAN]
      /\ disk'.remote <= edits' + 1 /\ edits' \in 0..MaxEdits
  <2>1. /\ edits < MaxEdits /\ edits' = edits + 1 /\ MaxEdits \in Nat
    BY ConfigAssumption DEF Edit
  <2>2. CASE disk' = [disk EXCEPT !.remote = @ + 1]
    <3>1. disk.remote + 1 \in RemoteFiles
      BY <1>1, <2>1 DEF RemoteFiles
    <3>2. disk'.remote = disk.remote + 1
      BY <1>1, <2>2
    <3>3. disk' \in [remote: RemoteFiles, workloads: WorkloadFiles, license: BOOLEAN]
      BY <1>1, <2>2, <3>1
    <3> QED BY <1>1, <2>1, <3>2, <3>3
  <2>3. CASE \E w \in WorkloadFiles \ {disk.workloads} : disk' = [disk EXCEPT !.workloads = w]
    <3>1. disk'.remote = disk.remote
      BY <1>1, <2>3
    <3> QED BY <1>1, <2>1, <2>3, <3>1 DEF RemoteFiles
  <2>4. CASE disk' = [disk EXCEPT !.license = ~@]
    <3>1. disk'.remote = disk.remote
      BY <1>1, <2>4
    <3>2. disk' \in [remote: RemoteFiles, workloads: WorkloadFiles, license: BOOLEAN]
      <4> DEFINE flipped == ~disk.license
      <4>1. flipped \in BOOLEAN
        OBVIOUS
      <4>2. disk' = [disk EXCEPT !.license = flipped]
        BY <2>4
      <4> HIDE DEF flipped
      <4> QED BY <1>1, <4>1, <4>2
    <3> QED BY <1>1, <2>1, <3>1, <3>2
  <2> QED BY <2>2, <2>3, <2>4 DEF Edit
<1>3. TypeOK' /\ DiskBound'
  BY <1>2 DEF Edit, Inv, TypeOK, DiskBound
<1> QED BY <1>3, StandStill DEF Edit, Inv

LEMMA NextInv == Inv /\ [Next]_vars => Inv'
<1> SUFFICES ASSUME Inv, [Next]_vars PROVE Inv'
  OBVIOUS
<1>1. ASSUME NEW p \in Processes, Step(p) PROVE Inv'
  BY <1>1, LicenseCheckedInv, ReadRemoteInv, ReadWorkloadsInv, ApplyInv, CallbackInv,
     InitServicesInv, RespondInv DEF Step
<1>2. CASE Arrives
  BY <1>2, ArriveInv DEF Arrives
<1>3. CASE Expire
  BY <1>3, ExpireInv
<1>4. CASE Edit
  BY <1>4, EditInv
<1>5. CASE UNCHANGED vars
  <2>1. TypeOK' /\ DiskBound'
    BY <1>5 DEF vars, Inv, TypeOK, DiskBound
  <2> QED BY <1>5, <2>1, StandStill DEF vars, Inv
<1> QED BY <1>1, <1>2, <1>3, <1>4, <1>5 DEF Next

-----------------------------------------------------------------------------
(* Versions: what a load has read is no older than anything that may be in *)
(* force or may have been met since it started.  It is inductive together  *)
(* with Inv, whose SingleLoader says that no second load comes in between. *)

Past == {"serving", "callback", "init"}
Reading == {"workloads", "apply"}

Versions ==
    /\ InForce <= disk.remote
    /\ \A q \in Requests : floor[q] <= disk.remote
    /\ \A q \in Processes : pc[q] = "remote" => loading[q].remote = 0
    /\ \A r \in Processes : pc[r] \in Reading /\ loading[r].remote # 0 =>
         /\ loading[r].remote <= disk.remote /\ InForce <= loading[r].remote
         /\ \A q \in Requests : q = r \/ pc[q] = "serving" => floor[q] <= loading[r].remote
    /\ \A q \in Requests : pc[q] \in Past /\ InForce # 0 => floor[q] <= InForce

\* All versions are natural numbers.
LEMMA AreNaturals ==
  ASSUME TypeOK
  PROVE  /\ disk.remote \in Nat /\ InForce \in Nat
         /\ \A q \in Requests : floor[q] \in Nat
         /\ \A q \in Processes : loading[q].remote \in Nat
BY ConfigAssumption DEF TypeOK, InForce, Configs, Loads, RemoteFiles

\* A step that installs nothing, and by which a request either keeps its place and its
\* floor, or expects what is in force or nothing, or begins to load.
LEMMA VersionsKept ==
  ASSUME Inv, Versions, InForce' = InForce, disk'.remote \in Nat,
         disk.remote <= disk'.remote,
         \A q \in Requests :
           \/ floor'[q] = floor[q] /\ (pc'[q] \in Past => pc[q] \in Past)
           \/ floor'[q] \in {0, InForce}
           \/ floor'[q] \in Nat /\ floor'[q] <= disk.remote
                /\ pc'[q] \notin Past \union Reading,
         \A q \in Processes : pc'[q] \in Reading =>
           pc[q] \in Reading /\ loading'[q].remote = loading[q].remote,
         \A q \in Processes : pc'[q] = "remote" => loading'[q].remote = 0
  PROVE  Versions'
<1>1. /\ disk.remote \in Nat /\ InForce \in Nat
      /\ \A q \in Requests : floor[q] \in Nat
      /\ \A q \in Processes : loading[q].remote \in Nat
  BY AreNaturals DEF Inv
<1>2. \A q \in Requests : floor'[q] <= disk'.remote
  BY <1>1 DEF Versions
<1>3. \A q \in Requests : pc'[q] \in Past /\ InForce # 0 => floor'[q] <= InForce
  BY <1>1 DEF Versions
<1>4. ASSUME NEW r \in Processes, pc'[r] \in Reading, loading'[r].remote # 0
      PROVE  /\ loading'[r].remote <= disk'.remote /\ InForce <= loading'[r].remote
             /\ \A q \in Requests : q = r \/ pc'[q] = "serving" => floor'[q] <= loading'[r].remote
  <2>1. /\ pc[r] \in Reading /\ loading'[r].remote = loading[r].remote
        /\ loading[r].remote <= disk.remote /\ InForce <= loading[r].remote
        /\ \A q \in Requests : q = r \/ pc[q] = "serving" => floor[q] <= loading[r].remote
    BY <1>4 DEF Versions
  <2>2. \A q \in Requests : pc[q] \in Past => pc[q] = "serving"
    BY <2>1, Known DEF Inv, SingleLoader, Past, Reading, InLoad
  <2>3. ASSUME NEW q \in Requests, q = r \/ pc'[q] = "serving"
        PROVE  floor'[q] <= loading[r].remote
    <3>1. pc'[q] \in Past \union Reading
      BY <1>4, <2>3 DEF Past
    <3>2. CASE floor'[q] \in {0, InForce}
      BY <1>1, <2>1, <3>2
    <3>3. CASE floor'[q] = floor[q] /\ (pc'[q] \in Past => pc[q] \in Past)
      BY <2>1, <2>2, <2>3, <3>3 DEF Past
    <3> QED BY <3>1, <3>2, <3>3
  <2> QED BY <1>1, <2>1, <2>3
<1>5. InForce' <= disk'.remote
  BY <1>1 DEF Versions
<1> QED BY <1>2, <1>3, <1>4, <1>5 DEF Versions

\* A load installs what it read, or the minimal configuration.
LEMMA VersionsInstalled ==
  ASSUME Inv, Versions, NEW p \in Processes, pc[p] = "apply",
         InForce' \in {0, loading[p].remote}, UNCHANGED <<disk, floor>>,
         NEW place \in {"serving", "up", "callback", "init"},
         \A q \in Processes : pc'[q] = IF q = p THEN place ELSE pc[q]
  PROVE  Versions'
<1>1. /\ disk.remote \in Nat /\ InForce \in Nat
      /\ \A q \in Requests : floor[q] \in Nat
      /\ \A q \in Processes : loading[q].remote \in Nat
  BY AreNaturals DEF Inv
<1>2. \A q \in Processes : pc'[q] \notin Reading /\ pc'[q] # "remote"
  BY DEF Inv, SingleLoader, InLoad, Reading
<1>3. InForce' # 0 =>
        /\ InForce' = loading[p].remote /\ loading[p].remote <= disk.remote
        /\ \A q \in Requests : q = p \/ pc[q] = "serving" => floor[q] <= loading[p].remote
  BY DEF Versions, Reading
<1>4. \A q \in Requests : pc'[q] \in Past /\ InForce' # 0 => floor[q] <= InForce'
  <2>1. \A q \in Requests : q # p /\ pc'[q] \in Past => pc[q] = "serving"
    BY Known DEF Inv, SingleLoader, InLoad, Past
  <2> QED BY <1>3, <2>1
<1>5. InForce' <= disk'.remote
  BY <1>1, <1>3
<1> QED BY <1>2, <1>4, <1>5 DEF Versions

LEMMA VersionsInit == Init => Versions
<1> SUFFICES ASSUME Init PROVE Versions
  OBVIOUS
<1>1. disk.remote = 1 /\ InForce = 0 /\ \A q \in Requests : floor[q] = 0
  BY DEF Init, InForce
<1>2. \A q \in Processes : pc[q] \in {"license", "idle"}
  BY DEF Init
<1> QED BY <1>1, <1>2 DEF Versions, Past, Reading

\* A process begins to load, from the files as they are.
LEMMA StartLoadVersions ==
  ASSUME Inv, Versions, NEW p \in Processes, StartLoad(p), UNCHANGED <<disk, cachedConfig>>
  PROVE  Versions'
<1>1. /\ \A q \in Processes : pc'[q] = IF q = p THEN "remote" ELSE pc[q]
      /\ \A q \in Requests : floor'[q] = IF q = p THEN disk.remote ELSE floor[q]
  BY GotoMoves, ExpectsMoves DEF Inv, StartLoad, PlaceNames, InLoad
<1>2. \A q \in Processes : loading'[q].remote = IF q = p THEN 0 ELSE loading[q].remote
  <2>1. [NoLoad EXCEPT !.previous = WorkloadCount].remote = 0
    BY DEF NoLoad
  <2> QED BY <2>1 DEF Inv, TypeOK, StartLoad
<1>3. InForce' = InForce /\ disk'.remote = disk.remote /\ disk.remote \in Nat
  BY AreNaturals DEF InForce, Inv
<1>4. \A q \in Processes : pc'[q] = "remote" => loading'[q].remote = 0
  BY <1>1, <1>2 DEF Versions
<1>5. "remote" \notin Past \union Reading
  BY DEF Past, Reading
<1>6. \A q \in Processes : pc'[q] \in Reading =>
         pc[q] \in Reading /\ loading'[q].remote = loading[q].remote
  BY <1>1, <1>2, <1>5
<1>7. \A q \in Requests :
           \/ floor'[q] = floor[q] /\ (pc'[q] \in Past => pc[q] \in Past)
           \/ floor'[q] \in Nat /\ floor'[q] <= disk.remote /\ pc'[q] \notin Past \union Reading
  BY <1>1, <1>3, <1>5, Known
<1> QED BY <1>3, <1>4, <1>6, <1>7, VersionsKept

\* A process goes elsewhere, outside the reading of a load; a request that thereby gets
\* past the middleware expects what is in force.
LEMMA GoesElsewhere ==
  ASSUME Inv, Versions, NEW p \in Processes, NEW place \in PlaceNames, Goto(p, place),
         place \notin Reading, place # "remote", UNCHANGED <<disk, cachedConfig>>,
         \A q \in Processes : loading'[q].remote = loading[q].remote \/ q = p,
         \A q \in Requests :
           \/ floor'[q] = floor[q] /\ (q # p \/ (place \in Past => pc[p] \in Past))
           \/ q = p /\ floor'[q] \in {0, InForce}
  PROVE  Versions'
<1>1. \A q \in Processes : pc'[q] = IF q = p THEN place ELSE pc[q]
  BY GotoMoves DEF Inv
<1>2. InForce' = InForce /\ disk'.remote = disk.remote /\ disk.remote \in Nat
  BY AreNaturals DEF InForce, Inv
<1>3. \A q \in Processes : pc'[q] = "remote" => loading'[q].remote = 0
  BY <1>1 DEF Versions
<1>4. \A q \in Processes : pc'[q] \in Reading =>
         pc[q] \in Reading /\ loading'[q].remote = loading[q].remote
  BY <1>1
<1>5. \A q \in Requests :
           \/ floor'[q] = floor[q] /\ (pc'[q] \in Past => pc[q] \in Past)
           \/ floor'[q] \in {0, InForce}
  BY <1>1, Known
<1> QED BY <1>2, <1>3, <1>4, <1>5, VersionsKept

LEMMA EnsureVersions ==
  ASSUME Inv, Versions, NEW p \in Processes, EnsureConfigLoaded(p), pc[p] \notin InLoad,
         UNCHANGED <<disk, cachedConfig>>
  PROVE  Versions'
<1>1. CASE (cachedConfig # NoConfig /\ fresh) \/ isReloading
  <2>1. Goto(p, After(p)) /\ Expects(p, InForce) /\ UNCHANGED loading
    BY <1>1 DEF EnsureConfigLoaded
  <2>2. \A q \in Requests : floor'[q] = IF q = p THEN InForce ELSE floor[q]
    BY <2>1, ExpectsMoves DEF Inv
  <2>3. After(p) \in PlaceNames /\ After(p) \notin Reading /\ After(p) # "remote"
    BY DEF After, PlaceNames, Reading
  <2> QED BY <2>1, <2>2, <2>3, GoesElsewhere
<1>2. CASE ~((cachedConfig # NoConfig /\ fresh) \/ isReloading)
  BY <1>2, StartLoadVersions DEF EnsureConfigLoaded
<1> QED BY <1>1, <1>2

LEMMA LicenseCheckedVersions ==
  ASSUME Inv, Versions, NEW p \in Processes, LicenseChecked(p)
  PROVE  Versions'
<1>1. pc[p] = "license" /\ pc[p] \notin InLoad /\ UNCHANGED <<disk, cachedConfig>>
  BY DEF LicenseChecked, InLoad
<1>2. CASE strict /\ ~disk.license
  <2>1. Goto(p, Broken(p)) /\ UNCHANGED <<loading, floor>>
    BY <1>2 DEF LicenseChecked
  <2>2. /\ Broken(p) \in PlaceNames /\ Broken(p) \notin Reading
        /\ Broken(p) # "remote" /\ Broken(p) \notin Past
    BY DEF Broken, PlaceNames, Reading, Past
  <2> QED BY <1>1, <2>1, <2>2, GoesElsewhere
<1>3. CASE ~(strict /\ ~disk.license)
  BY <1>1, <1>3, StartLoadVersions, EnsureVersions DEF LicenseChecked
<1> QED BY <1>2, <1>3

LEMMA ArriveVersions ==
  ASSUME Inv, Versions, NEW p \in Requests, Arrive(p)
  PROVE  Versions'
<1>1. /\ p \in Processes /\ pc[p] = "idle" /\ pc[p] \notin InLoad
      /\ UNCHANGED <<disk, cachedConfig>>
  BY Known DEF Arrive, InLoad
<1>2. CASE EnsureConfigLoaded(p)
  BY <1>1, <1>2, EnsureVersions
<1>3. CASE Goto(p, "serving") /\ Expects(p, InForce) /\ UNCHANGED loading
  <2>1. \A q \in Requests : floor'[q] = IF q = p THEN InForce ELSE floor[q]
    BY <1>3, ExpectsMoves DEF Inv
  <2>2. "serving" \in PlaceNames /\ "serving" \notin Reading
    BY DEF PlaceNames, Reading
  <2> QED BY <1>1, <1>3, <2>1, <2>2, GoesElsewhere
<1>4. CASE Goto(p, "license") /\ UNCHANGED <<loading, floor>>
  <2>1. "license" \in PlaceNames /\ "license" \notin Reading /\ "license" \notin Past
    BY DEF PlaceNames, Reading, Past
  <2> QED BY <1>1, <1>4, <2>1, GoesElsewhere
<1> QED BY <1>2, <1>3, <1>4 DEF Arrive

LEMMA RespondVersions ==
  ASSUME Inv, Versions, NEW p \in Processes, Respond(p)
  PROVE  Versions'
<1>1. /\ Goto(p, "idle") /\ Expects(p, 0)
      /\ UNCHANGED <<disk, cachedConfig, loading>>
  BY DEF Respond
<1>2. \A q \in Requests : floor'[q] = IF q = p THEN 0 ELSE floor[q]
  BY <1>1, ExpectsMoves DEF Inv
<1>3. "idle" \in PlaceNames /\ "idle" \notin Reading /\ "idle" \notin Past
  BY DEF PlaceNames, Reading, Past
<1> QED BY <1>1, <1>2, <1>3, GoesElsewhere

\* What is read now is the newest there is.
LEMMA ReadRemoteVersions ==
  ASSUME Inv, Versions, NEW p \in Processes, ReadRemote(p)
  PROVE  Versions'
<1>1. /\ pc[p] = "remote" /\ UNCHANGED <<disk, cachedConfig, floor>>
      /\ \A q \in Processes : pc'[q] = IF q = p THEN "workloads" ELSE pc[q]
  BY GotoMoves DEF ReadRemote, Inv, PlaceNames, InLoad
<1>2. \A q \in Processes : q # p => pc'[q] \notin Reading /\ pc'[q] # "remote"
  BY <1>1 DEF Inv, SingleLoader, InLoad, Reading
<1>3. loading'[p].remote \in {0, disk.remote}
  BY <1>1 DEF ReadRemote, Inv, TypeOK, Loads, Versions
<1>4. InForce' = InForce
  BY <1>1 DEF InForce
<1>5. \A q \in Requests : pc'[q] \in Past => pc[q] \in Past
  BY <1>1, Known DEF Past
<1> QED BY <1>1, <1>2, <1>3, <1>4, <1>5, AreNaturals DEF Versions, Inv

LEMMA ReadWorkloadsVersions ==
  ASSUME Inv, Versions, NEW p \in Processes, ReadWorkloads(p)
  PROVE  Versions'
<1>1. /\ pc[p] = "workloads" /\ UNCHANGED <<disk, cachedConfig, floor>>
      /\ \A q \in Processes : pc'[q] = IF q = p THEN "apply" ELSE pc[q]
  BY GotoMoves DEF ReadWorkloads, Inv, PlaceNames, InLoad
<1>2. \A q \in Processes : loading'[q].remote = loading[q].remote
  BY DEF ReadWorkloads, Inv, TypeOK, Loads
<1>3. InForce' = InForce /\ disk'.remote = disk.remote /\ disk.remote \in Nat
  BY <1>1, AreNaturals DEF InForce, Inv
<1>4. \A q \in Processes : pc'[q] \in Reading =>
         pc[q] \in Reading /\ loading'[q].remote = loading[q].remote
  BY <1>1, <1>2 DEF Reading
<1>5. \A q \in Processes : pc'[q] = "remote" => loading'[q].remote = 0
  BY <1>1, <1>2 DEF Versions
<1>6. \A q \in Requests : floor'[q] = floor[q] /\ (pc'[q] \in Past => pc[q] \in Past)
  BY <1>1, Known DEF Past
<1> QED BY <1>3, <1>4, <1>5, <1>6, VersionsKept

\* Where a process that is past the reading may go.
LEMMA Onward ==
  ASSUME Inv, NEW p \in Processes, LoadDone(p) \/ NextCallback(p)
  PROVE  \E place \in {"serving", "up", "callback", "init"} :
            /\ Goto(p, place)
            /\ \A q \in Processes : loading'[q].remote = loading[q].remote \/ q = p
<1>1. After(p) \in {"serving", "up"}
  BY DEF After
<1>2. \A place : LoadSettled(p, place) =>
         Goto(p, place) /\ \A q \in Processes : loading'[q].remote = loading[q].remote \/ q = p
  BY DEF LoadSettled, Inv, TypeOK
<1>3. CASE LoadDone(p)
  BY <1>1, <1>2, <1>3 DEF LoadDone, Inv, TypeOK
<1>4. CASE NextCallback(p)
  BY <1>3, <1>4 DEF NextCallback, Inv, TypeOK
<1> QED BY <1>3, <1>4

LEMMA ApplyVersions ==
  ASSUME Inv, Versions, NEW p \in Processes, Apply(p)
  PROVE  Versions'
<1>1. pc[p] = "apply" /\ UNCHANGED <<disk, floor>> /\ loading[p] \in Loads
  BY DEF Apply, Inv, TypeOK
<1>2. CASE LoadDone(p) /\ cachedConfig' \in {Minimal, [remote |-> loading[p].remote,
                                                     workloads |-> loading[p].workloads]}
                       /\ cachedConfig' \in Configs
  <2>1. InForce' \in {0, loading[p].remote}
    BY <1>2, NoConfigAssumption DEF InForce, Minimal
  <2>2. PICK place \in {"serving", "up", "callback", "init"} : Goto(p, place)
    BY <1>2, Onward
  <2>3. \A q \in Processes : pc'[q] = IF q = p THEN place ELSE pc[q]
    BY <2>2, GotoMoves DEF Inv, PlaceNames, InLoad
  <2> QED BY <1>1, <2>1, <2>3, VersionsInstalled
<1>3. CASE /\ Goto(p, "callback") /\ cachedConfig' \in Configs
           /\ cachedConfig' = [remote |-> loading[p].remote,
                               workloads |-> loading[p].workloads]
  <2>1. InForce' \in {0, loading[p].remote}
    BY <1>3, NoConfigAssumption DEF InForce
  <2>2. \A q \in Processes : pc'[q] = IF q = p THEN "callback" ELSE pc[q]
    BY <1>3, GotoMoves DEF Inv, PlaceNames, InLoad
  <2> QED BY <1>1, <2>1, <2>2, VersionsInstalled
<1>4. CASE LoadSettled(p, Broken(p)) /\ UNCHANGED cachedConfig
  <2>1. /\ Broken(p) \in PlaceNames /\ Broken(p) \notin Reading
        /\ Broken(p) # "remote" /\ Broken(p) \notin Past
    BY DEF Broken, PlaceNames, Reading, Past
  <2>2. /\ Goto(p, Broken(p))
        /\ \A q \in Processes : loading'[q].remote = loading[q].remote \/ q = p
    BY <1>4 DEF LoadSettled, Inv, TypeOK
  <2> QED BY <1>1, <1>4, <2>1, <2>2, GoesElsewhere
<1>5. /\ loading[p].workloads # Malformed =>
           [remote |-> loading[p].remote, workloads |-> loading[p].workloads] \in Configs
      /\ Minimal \in Configs
  BY <1>1, ConfigAssumption DEF Loads, Configs, Minimal, RemoteFiles, WorkloadFiles, Malformed
<1> QED BY <1>2, <1>3, <1>4, <1>5 DEF Apply

\* The callbacks and the services read and install no files.
LEMMA CallbackVersions ==
  ASSUME Inv, Versions, NEW p \in Processes, Callback(p) \/ InitServices(p)
  PROVE  Versions'
<1>1. /\ pc[p] \in Past /\ UNCHANGED <<disk, cachedConfig, floor>>
  BY DEF Callback, InitServices, Past
<1>2. \E place \in {"serving", "up", "callback", "init"} :
        /\ Goto(p, place)
        /\ \A q \in Processes : loading'[q].remote = loading[q].remote \/ q = p
  <2>1. CASE NextCallback(p)
    BY <2>1, Onward
  <2>2. CASE Goto(p, "init") /\ UNCHANGED loading
    BY <2>2
  <2>3. CASE LoadSettled(p, After(p))
    <3>1. After(p) \in {"serving", "up"}
      BY DEF After
    <3> QED BY <2>3, <3>1 DEF LoadSettled, Inv, TypeOK
  <2> QED BY <2>1, <2>2, <2>3 DEF Callback, InitServices
<1>3. PICK place \in {"serving", "up", "callback", "init"} :
        /\ Goto(p, place)
        /\ \A q \in Processes : loading'[q].remote = loading[q].remote \/ q = p
  BY <1>2
<1>4. place \in PlaceNames /\ place \notin Reading /\ place # "remote"
  BY DEF PlaceNames, Reading, InLoad
<1> QED BY <1>1, <1>3, <1>4, GoesElsewhere

LEMMA VersionsNext == Inv /\ Versions /\ [Next]_vars => Versions'
<1> SUFFICES ASSUME Inv, Versions, [Next]_vars PROVE Versions'
  OBVIOUS
<1>1. ASSUME NEW p \in Processes, Step(p) PROVE Versions'
  BY <1>1, LicenseCheckedVersions, ReadRemoteVersions, ReadWorkloadsVersions,
     ApplyVersions, CallbackVersions, RespondVersions DEF Step
<1>2. CASE Arrives
  BY <1>2, ArriveVersions DEF Arrives
<1>3. CASE UNCHANGED <<pc, loading, cachedConfig, floor>> /\ disk.remote <= disk'.remote
                                                       /\ disk'.remote \in Nat
  BY <1>3, VersionsKept DEF InForce, Versions
<1>4. CASE Expire \/ UNCHANGED vars
  BY <1>3, <1>4, AreNaturals DEF Expire, vars, Inv
<1>5. CASE Edit
  <2>1. disk.remote \in Nat /\ disk \in [remote: RemoteFiles, workloads: WorkloadFiles, license: BOOLEAN]
    BY AreNaturals DEF Inv, TypeOK
  <2>2. disk'.remote \in {disk.remote, disk.remote + 1}
    BY <1>5, <2>1 DEF Edit
  <2> QED BY <1>3, <1>5, <2>1, <2>2 DEF Edit
<1> QED BY <1>1, <1>2, <1>4, <1>5 DEF Next

-----------------------------------------------------------------------------
LEMMA Invariance == Spec => [](Inv /\ Versions)
BY InitInv, NextInv, VersionsInit, VersionsNext, PTL DEF Spec

\* At most one process is in loadConfig: the cardinality that OneLoad speaks of.
LEMMA OneLoadFollows == Inv => OneLoad
<1> SUFFICES ASSUME Inv PROVE OneLoad
  OBVIOUS
<1>1. Cardinality(Loaders) <= 1
  <2>1. CASE Loaders = {}
    BY <2>1, FS_EmptySet
  <2>2. CASE Loaders # {}
    <3>1. PICK p \in Loaders : TRUE
      BY <2>2
    <3>2. Loaders = {p}
      BY <3>1 DEF Inv, SingleLoader, Loaders
    <3>3. Cardinality({p}) = 1
      BY FS_Singleton
    <3> QED BY <3>2, <3>3
  <2> QED BY <2>1, <2>2
<1>2. isReloading = (mode # "eager" /\ Loaders # {})
  BY NoLoaders DEF Inv, SingleLoader
<1> QED BY <1>1, <1>2 DEF OneLoad

\* The module state of config.ts and bootstrap.ts keeps its types.
THEOREM ConfigTypeCorrect == Spec => []TypeOK
<1>1. Inv => TypeOK
  BY DEF Inv
<1> QED BY <1>1, Invariance, PTL

\* ensureConfigLoaded: never two loads at once, and isReloading is set exactly while
\* one runs, however many requests arrive and however a load ends.
THEOREM OneLoadAtATime == Spec => []OneLoad
BY OneLoadFollows, Invariance, PTL

\* No request is handled without a configuration, also none that was let through
\* during a reload.
THEOREM NoRequestWithoutConfig == Spec => []ServedHasConfig
<1>1. Inv => ServedHasConfig
  BY Known DEF Inv, HasConfig, ServedHasConfig
<1> QED BY <1>1, Invariance, PTL

\* No request is answered from files older than those its own load found, or than the
\* configuration in force when it was let through, whatever is loaded or fails meanwhile.
THEOREM ServedFilesAreRecent == Spec => []ServedIsRecent
<1>1. Inv /\ Versions => ServedIsRecent
  <2> SUFFICES ASSUME Inv, Versions, NEW q \in Requests, pc[q] = "serving", InForce # 0
               PROVE  InForce >= floor[q]
    BY DEF ServedIsRecent
  <2>1. InForce \in Nat /\ floor[q] \in Nat
    BY AreNaturals DEF Inv
  <2>2. floor[q] <= InForce
    BY DEF Versions, Past
  <2> QED BY <2>1, <2>2
<1> QED BY <1>1, Invariance, PTL

\* Services are initialised once, and a settled configuration that has workloads has
\* its services unless strict mode swallowed a licence error.
THEOREM ServicesAreThere == Spec => []ServicesFollowWorkloads
<1>1. Inv => ServicesFollowWorkloads
  BY DEF Inv
<1> QED BY <1>1, Invariance, PTL
=============================================================================
