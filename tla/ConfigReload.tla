----------------------------- MODULE ConfigReload -----------------------------
(***************************************************************************)
(* Loading and reloading of the configuration, and what hangs on it: the   *)
(* start of the process, the middleware that refreshes the configuration   *)
(* before each request, and the callbacks that initialise the services     *)
(* when workloads appear.  Each await is a step of its own: requests       *)
(* overlap a reload, and files change while they are being read.           *)
(***************************************************************************)
EXTENDS Naturals, FiniteSets

CONSTANTS
    Requests,   \* concurrent requests of the API, or invocations
    Boot,       \* the start of the process
    NoConfig,   \* cachedConfig is null
    MaxEdits,   \* bound: edits of the configuration files
    MaxErrors,  \* bound: files that could not be read
    MaxCallbacks \* bound: registered callbacks

ASSUME ConfigAssumption ==
    /\ Boot \notin Requests
    /\ MaxEdits \in Nat /\ MaxErrors \in Nat /\ MaxCallbacks \in Nat \ {0}

VARIABLES
    mode,       \* "lazy" or "eager" API, or query executor in a lambda
    strict,     \* STRICT_MODE
    disk,       \* the files: remote configuration, workloads, licence
    cachedConfig, fresh,      \* the loaded configuration; younger than its ttl
    isReloading,
    callbacks,  \* number of registered configChangeCallbacks
    servicesInitialised,
    pc,         \* process -> the await it stands at
    loading,    \* process -> what its loadConfig has read so far
    edits, errors,
    floor       \* history: request -> the oldest files it may be answered from

vars == <<mode, strict, disk, cachedConfig, fresh, isReloading, callbacks,
          servicesInitialised, pc, loading, edits, errors, floor>>

Processes == Requests \union {Boot}
Modes == {"lazy", "eager", "executor"}

(* The files other than the workloads (remote configuration, pipelines,     *)
(* quality gates, and rbac, where roles come from) are read alike, each     *)
(* once between the start and the end of a load, and replaced by a default  *)
(* if they cannot be: "remote" stands for any of them, by a version number, *)
(* with 0 for the default.                                                  *)
(* What a workload file may hold: a number of workloads, or content that    *)
(* parses and then breaks polyfillLegacyConfig or applyDefaults.            *)
Malformed == 9
WorkloadFiles == {0, 1, 2, Malformed}
RemoteFiles == 0..(MaxEdits + 1)
Configs == [remote: RemoteFiles, workloads: WorkloadFiles \ {Malformed}]
ASSUME NoConfigAssumption == NoConfig \notin Configs
Minimal == [remote |-> 0, workloads |-> 0]
Loads == [previous: {0, 1, 2}, remote: RemoteFiles, workloads: WorkloadFiles,
          callback: 0..MaxCallbacks]
NoLoad == [previous |-> 0, remote |-> 0, workloads |-> 0, callback |-> 0]

InLoad == {"remote", "workloads", "apply", "callback", "init"}
WorkloadCount == IF cachedConfig = NoConfig THEN 0 ELSE cachedConfig.workloads
InForce == IF cachedConfig = NoConfig THEN 0 ELSE cachedConfig.remote
\* Mutant: the process listens as soon as its start has begun.
Listening_AtOnce == TRUE
Listening == mode = "executor" \/ pc[Boot] = "up"

Init ==
    /\ mode \in Modes /\ strict \in BOOLEAN
    /\ disk \in [remote: {1}, workloads: WorkloadFiles, license: BOOLEAN]
    /\ cachedConfig = NoConfig /\ fresh = FALSE
    /\ isReloading = FALSE
    /\ callbacks = IF mode = "executor" THEN 0 ELSE 1
    /\ servicesInitialised = FALSE
    /\ pc = [p \in Processes |-> IF p = Boot /\ mode # "executor" THEN "license" ELSE "idle"]
    /\ loading = [p \in Processes |-> NoLoad]
    /\ edits = 0 /\ errors = 0
    /\ floor = [q \in Requests |-> 0]

-----------------------------------------------------------------------------
Goto(p, place) == pc' = [pc EXCEPT ![p] = place]
After(p) == IF p = Boot THEN "up" ELSE "serving"
\* Mutant: a request whose reload has thrown goes on with the last good configuration.
Broken_GoesOn(p) ==
    IF p = Boot THEN "down" ELSE IF cachedConfig = NoConfig THEN "idle" ELSE "serving"
Broken(p) == IF p = Boot THEN "down" ELSE "idle"
Expects(p, version) == floor' = [q \in Requests |-> IF q = p THEN version ELSE floor[q]]

(* loadConfig: remembers the previous number of workloads, then reads.      *)
StartLoad(p) ==
    /\ Expects(p, disk.remote)
    /\ loading' = [loading EXCEPT ![p] = [NoLoad EXCEPT !.previous = WorkloadCount]]
    /\ Goto(p, "remote")

\* Mutant: a request that finds a reload in progress starts another one.
EnsureConfigLoaded_NoGuard(p) ==
    IF cachedConfig # NoConfig /\ fresh
    THEN Goto(p, After(p)) /\ Expects(p, InForce) /\ UNCHANGED <<isReloading, loading>>
    ELSE isReloading' = TRUE /\ StartLoad(p)

(* A request that finds a reload in progress is let through, and has to do  *)
(* with the configuration in force, however long ago that expired.          *)
EnsureConfigLoaded(p) ==
    IF (cachedConfig # NoConfig /\ fresh) \/ isReloading
    THEN Goto(p, After(p)) /\ Expects(p, InForce) /\ UNCHANGED <<isReloading, loading>>
    ELSE isReloading' = TRUE /\ StartLoad(p)

(* bootstrap after the licence was validated: the eager mode calls          *)
(* loadConfig past ensureConfigLoaded, once.                                *)
LicenseChecked(p) ==
    /\ pc[p] = "license"
    /\ IF strict /\ ~disk.license
       THEN Goto(p, Broken(p)) /\ UNCHANGED <<isReloading, loading, floor>>
       ELSE IF mode = "eager" THEN StartLoad(p) /\ UNCHANGED isReloading
       ELSE EnsureConfigLoaded(p)
    /\ UNCHANGED <<mode, strict, disk, cachedConfig, fresh, callbacks,
                   servicesInitialised, edits, errors>>

(* A request passes the middleware of the lazy mode; every invocation of    *)
(* the executor runs bootstrap again and registers one more callback.       *)
Arrive(p) ==
    /\ Listening /\ pc[p] = "idle"
    /\ \/ mode = "lazy" /\ EnsureConfigLoaded(p) /\ UNCHANGED callbacks
       \/ /\ mode = "eager" /\ Goto(p, "serving") /\ Expects(p, InForce)
          /\ UNCHANGED <<isReloading, loading, callbacks>>
       \/ /\ mode = "executor" /\ \A q \in Requests : pc[q] = "idle"
          /\ callbacks' = IF callbacks < MaxCallbacks THEN callbacks + 1 ELSE callbacks
          /\ Goto(p, "license")
          /\ UNCHANGED <<isReloading, loading, floor>>
    /\ UNCHANGED <<mode, strict, disk, cachedConfig, fresh, servicesInitialised, edits, errors>>

Respond(p) ==
    /\ pc[p] = "serving"
    /\ Goto(p, "idle") /\ Expects(p, 0)
    /\ UNCHANGED <<mode, strict, disk, cachedConfig, fresh, isReloading, callbacks,
                   servicesInitialised, loading, edits, errors>>

(* readConfig of an optional file: one that cannot be read is replaced by   *)
(* its default, which holds no server and no workload.                      *)
ReadRemote(p) ==
    /\ pc[p] = "remote"
    /\ \/ /\ loading' = [loading EXCEPT ![p].remote = disk.remote]
          /\ UNCHANGED errors
       \/ /\ errors < MaxErrors
          /\ errors' = errors + 1
          /\ UNCHANGED loading
    /\ Goto(p, "workloads")
    /\ UNCHANGED <<mode, strict, disk, cachedConfig, fresh, isReloading, callbacks,
                   servicesInitialised, edits, floor>>

ReadWorkloads(p) ==
    /\ pc[p] = "workloads"
    /\ \/ /\ loading' = [loading EXCEPT ![p].workloads = disk.workloads]
          /\ UNCHANGED errors
       \/ /\ errors < MaxErrors
          /\ errors' = errors + 1
          /\ UNCHANGED loading
    /\ Goto(p, "apply")
    /\ UNCHANGED <<mode, strict, disk, cachedConfig, fresh, isReloading, callbacks,
                   servicesInitialised, edits, floor>>

-----------------------------------------------------------------------------
\* Mutant: the flag is cleared on success only.
LoadSettled_KeepsFlag(p, place) ==
    /\ isReloading' = (isReloading /\ place # After(p))
    /\ loading' = [loading EXCEPT ![p] = NoLoad]
    /\ Goto(p, place)

LoadSettled(p, place) ==
    /\ isReloading' = FALSE
    /\ loading' = [loading EXCEPT ![p] = NoLoad]
    /\ Goto(p, place)

(* loadConfig returned: the eager start goes on to initialise the services. *)
LoadDone(p) ==
    IF mode = "eager" /\ ~servicesInitialised /\ cachedConfig'.workloads > 0
    THEN /\ Goto(p, "init")
         /\ loading' = [loading EXCEPT ![p].callback = callbacks]
         /\ UNCHANGED isReloading
    ELSE LoadSettled(p, After(p))

\* Mutant: the callbacks hear of workloads that disappear only.
Notifies_OnLess(p) == loading[p].previous > loading[p].workloads
Notifies(p) == loading[p].previous # loading[p].workloads

(* The configuration is replaced, and callbacks are notified if the number  *)
(* of workloads changed.  Content that cannot be processed is an error in   *)
(* strict mode and the minimal configuration, without notice, otherwise.    *)
Apply(p) ==
    /\ pc[p] = "apply"
    /\ \/ /\ loading[p].workloads # Malformed
          /\ cachedConfig' = [remote |-> loading[p].remote, workloads |-> loading[p].workloads]
          /\ fresh' = TRUE
          /\ IF Notifies(p)
             THEN /\ Goto(p, "callback")
                  /\ loading' = [loading EXCEPT ![p].callback = 1]
                  /\ UNCHANGED isReloading
             ELSE LoadDone(p)
       \/ /\ loading[p].workloads = Malformed /\ ~strict
          /\ cachedConfig' = Minimal /\ fresh' = TRUE
          /\ LoadDone(p)
       \/ /\ loading[p].workloads = Malformed /\ strict
          /\ LoadSettled(p, Broken(p))
          /\ UNCHANGED <<cachedConfig, fresh>>
    /\ UNCHANGED <<mode, strict, disk, callbacks, servicesInitialised, edits, errors, floor>>

\* Mutant: the loop over the callbacks runs once too often.
NextCallback_OneMore(p) ==
    IF loading[p].callback <= callbacks
    THEN /\ loading' = [loading EXCEPT ![p].callback = @ + 1]
         /\ Goto(p, "callback")
         /\ UNCHANGED isReloading
    ELSE LoadDone(p)

NextCallback(p) ==
    IF loading[p].callback < callbacks
    THEN /\ loading' = [loading EXCEPT ![p].callback = @ + 1]
         /\ Goto(p, "callback")
         /\ UNCHANGED isReloading
    ELSE LoadDone(p)

(* A callback validates the licence, whose error is swallowed in strict     *)
(* mode, and initialises the services unless that was done.                 *)
Callback(p) ==
    /\ pc[p] = "callback"
    /\ UNCHANGED cachedConfig
    /\ IF (strict /\ ~disk.license) \/ servicesInitialised \/ WorkloadCount = 0
       THEN NextCallback(p)
       ELSE Goto(p, "init") /\ UNCHANGED <<isReloading, loading>>
    /\ UNCHANGED <<mode, strict, disk, fresh, callbacks, servicesInitialised, edits,
                   errors, floor>>

InitServices(p) ==
    /\ pc[p] = "init"
    /\ servicesInitialised' = TRUE
    /\ UNCHANGED cachedConfig
    /\ IF loading[p].callback < callbacks THEN NextCallback(p)
                                         ELSE LoadSettled(p, After(p))
    /\ UNCHANGED <<mode, strict, disk, fresh, callbacks, edits, errors, floor>>

-----------------------------------------------------------------------------
Expire ==
    /\ fresh /\ fresh' = FALSE
    /\ UNCHANGED <<mode, strict, disk, cachedConfig, isReloading, callbacks,
                   servicesInitialised, pc, loading, edits, errors, floor>>

Edit ==
    /\ edits < MaxEdits
    /\ edits' = edits + 1
    /\ \/ disk' = [disk EXCEPT !.remote = @ + 1]
       \/ \E w \in WorkloadFiles \ {disk.workloads} : disk' = [disk EXCEPT !.workloads = w]
       \/ disk' = [disk EXCEPT !.license = ~@]
    /\ UNCHANGED <<mode, strict, cachedConfig, fresh, isReloading, callbacks,
                   servicesInitialised, pc, loading, errors, floor>>

Step(p) ==
    \/ LicenseChecked(p) \/ ReadRemote(p) \/ ReadWorkloads(p)
    \/ Apply(p) \/ Callback(p) \/ InitServices(p) \/ Respond(p)

Arrives == \E p \in Requests : Arrive(p)

Next ==
    \/ \E p \in Processes : Step(p)
    \/ Arrives
    \/ Expire
    \/ Edit

(* Pending awaits settle and time passes; nobody is obliged to call or to   *)
(* edit a file.                                                             *)
Fairness == WF_vars(Expire) /\ \A p \in Processes : WF_vars(Step(p))

Spec == Init /\ [][Next]_vars /\ Fairness

-----------------------------------------------------------------------------
(* Type correctness of the module state of config.ts and bootstrap.ts.      *)
TypeOK ==
    /\ mode \in Modes /\ strict \in BOOLEAN
    /\ disk \in [remote: RemoteFiles, workloads: WorkloadFiles, license: BOOLEAN]
    /\ cachedConfig \in Configs \union {NoConfig}
    /\ fresh \in BOOLEAN /\ isReloading \in BOOLEAN /\ servicesInitialised \in BOOLEAN
    /\ callbacks \in 0..MaxCallbacks
    /\ pc \in [Processes -> InLoad \union {"idle", "license", "serving", "up", "down"}]
    /\ loading \in [Processes -> Loads]
    /\ edits \in 0..MaxEdits /\ errors \in 0..MaxErrors
    /\ floor \in [Requests -> RemoteFiles]

(* ensureConfigLoaded: isReloading admits one loadConfig at a time, and is  *)
(* set exactly while one runs, also after a load that threw.                *)
Loaders == { p \in Processes : pc[p] \in InLoad }
OneLoad ==
    /\ Cardinality(Loaders) <= 1
    /\ isReloading = (mode # "eager" /\ Loaders # {})

(* A request that finds a reload in progress is let through at once; still  *)
(* none is ever handled without a configuration, because the process does   *)
(* not listen before its first load ended well.                             *)
ServedHasConfig == \A p \in Requests : pc[p] = "serving" => cachedConfig # NoConfig

(* No request is ever answered from files older than those it met.  One     *)
(* that found the configuration expired met the files, as they were when    *)
(* its load began; any other met the configuration in force, and no load    *)
(* that ends while the request is served may put older files in its place.  *)
(* Roles taken away in rbac reach the tokens this way.  For a request that  *)
(* is let through during a reload, and for all requests of the eager mode,  *)
(* the configuration in force may be of any age.  A file that could not be  *)
(* read has given way to its default, which is of no age.                   *)
ServedIsRecent ==
    \A p \in Requests : pc[p] = "serving" /\ InForce # 0 => InForce >= floor[p]

(* Services are initialised once, and whenever no load is running and no    *)
(* strict licence check could break a callback, a configuration that has    *)
(* workloads has its services: also if the workloads came back after a load *)
(* that failed, or appeared long after the start.                           *)
ServicesFollowWorkloads ==
    /\ \A p \in Processes : pc[p] = "init" => ~servicesInitialised
    /\ Loaders = {} /\ ~strict /\ WorkloadCount > 0 => servicesInitialised

(* Whatever was edited, could not be read or failed to load meanwhile: if   *)
(* requests keep coming, the configuration becomes and stays what the files *)
(* say.  Only the reloading modes can promise it, and strict mode keeps the *)
(* last good configuration instead of a malformed one.                      *)
Current ==
    \/ mode = "eager"
    \/ strict /\ (disk.workloads = Malformed \/ (mode = "executor" /\ ~disk.license))
    \/ /\ disk.workloads = Malformed /\ cachedConfig = Minimal
    \/ cachedConfig = [remote |-> disk.remote, workloads |-> disk.workloads]
EventuallyCurrent == []<><<Arrives>>_vars => <>[]Current
=============================================================================
