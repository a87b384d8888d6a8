-------------------------- MODULE LifecycleProofs --------------------------
(***************************************************************************)
(* Proofs about Lifecycle, for any number of requests, retries, migrations *)
(* and faults: no request works on a schema without its migrations, and    *)
(* exit code 0 means that no request was cut off.                          *)
(***************************************************************************)
EXTENDS Lifecycle, TLAPS

(* TypeOK in two parts: the flags, which are Boolean, and the rest.        *)
FlagsOK == wanted \in BOOLEAN /\ signalled \in BOOLEAN

RestOK ==
  /\ db \in {"up", "down"}
  /\ schema \in Nat /\ image \in Nat /\ faults \in Nat /\ stops \in Nat
  /\ program \in {"none", "seeder", "api"}
  /\ pc \in {"off", "connect", "migrate", "load", "serve", "drain", "closeOK", "closeLate"}
  /\ attempt \in 0..Retries
  /\ listener \in {"none", "open", "failed", "closed"}
  /\ requests \in [Request -> {"none", "running", "query"}]
  /\ last \in [code: {0, 1, 137}, cut: SUBSET Request]

LEMMA TypeParts == TypeOK <=> FlagsOK /\ RestOK
  BY Zenon DEF TypeOK, FlagsOK, RestOK

LEMMA TypePartsNext == TypeOK' <=> FlagsOK' /\ RestOK'
  BY Zenon DEF TypeOK, FlagsOK, RestOK

LEMMA LifecycleInit == Init => LifecycleInv
  <1> SUFFICES ASSUME Init PROVE LifecycleInv
    OBVIOUS
  <1>1. FlagsOK
    BY Zenon DEF Init, FlagsOK
  <1>2. RestOK
    BY LifecycleAssumption DEF Init, RestOK, NoRequests
  <1>3. Open = {}
    BY DEF Init, Open, NoRequests
  <1> QED BY <1>1, <1>2, <1>3, TypeParts DEF Init, LifecycleInv, Serving, CleanExit

(* How a run begins and ends is the same in all the steps that do it.      *)
LEMMA RunStep ==
  ASSUME LifecycleInv, NEW prog \in {"seeder", "api"}, Run(prog),
         UNCHANGED <<db, schema, container, last, faults>>
  PROVE  LifecycleInv'
  <1>1. FlagsOK /\ RestOK
    BY TypeParts DEF LifecycleInv
  <1>2. FlagsOK'
    BY <1>1, Zenon DEF FlagsOK, Run, container
  <1>3. RestOK'
    BY <1>1, LifecycleAssumption DEF RestOK, Run, NoRequests, container
  <1>4. Open' = {}
    BY DEF Run, NoRequests, Open
  <1> QED BY <1>2, <1>3, <1>4, TypePartsNext DEF LifecycleInv, Run, Serving, CleanExit

LEMMA ExitStep ==
  ASSUME LifecycleInv, NEW code \in {0, 1, 137}, Exit(code), code = 0 => Open = {},
         UNCHANGED <<db, schema, container>>, faults' \in Nat
  PROVE  LifecycleInv'
  <1>1. FlagsOK /\ RestOK
    BY TypeParts DEF LifecycleInv
  <1>2. FlagsOK'
    BY <1>1, Zenon DEF FlagsOK, Exit, container
  <1>3. last' \in [code: {0, 1, 137}, cut: SUBSET Request] /\ CleanExit'
    BY DEF Exit, Open, CleanExit
  <1>4. RestOK'
    BY <1>1, <1>3, LifecycleAssumption DEF RestOK, Exit, NoRequests, container
  <1>5. Open' = {}
    BY DEF Exit, NoRequests, Open
  <1> QED BY <1>2, <1>3, <1>4, <1>5, TypePartsNext DEF LifecycleInv, Exit, Serving

(* A request moves while the API serves or ends.                           *)
LEMMA RequestStep ==
  ASSUME LifecycleInv, NEW r \in Request, NEW to \in {"none", "running", "query"},
         SetRequest(r, to), pc \in Serving,
         pc = "closeOK" => to = "none"
  PROVE  LifecycleInv'
  <1>1. FlagsOK /\ RestOK
    BY TypeParts DEF LifecycleInv
  <1>2. FlagsOK'
    BY <1>1, Zenon DEF FlagsOK, SetRequest, container
  <1>3. RestOK'
    BY <1>1 DEF RestOK, SetRequest, container
  <1>4. pc = "closeOK" => Open' = {}
    BY <1>1 DEF LifecycleInv, RestOK, SetRequest, Open
  <1> QED BY <1>2, <1>3, <1>4, TypePartsNext
          DEF LifecycleInv, SetRequest, Serving, CleanExit, container

LEMMA LifecycleStep == LifecycleInv /\ [Next]_vars => LifecycleInv'
  <1> SUFFICES ASSUME LifecycleInv, [Next]_vars
               PROVE  LifecycleInv'
    OBVIOUS
  <1> USE DEF container
  <1>1. CASE Launch
    BY <1>1, RunStep DEF Launch
  <1>2. CASE ConnectFails \/ MigrateFails \/ LoadFails \/ ServeError
    BY <1>2, ExitStep
    DEF ConnectFails, MigrateFails, LoadFails, ServeError, LifecycleInv, TypeOK
  <1>3. CASE Loaded
    BY <1>3, RunStep DEF Loaded
  <1>4. CASE Closed
    <2>1. pc = "closeOK" => Open = {}
      BY DEF LifecycleInv
    <2> QED BY <1>4, <2>1, ExitStep DEF Closed, LifecycleInv, TypeOK
  <1>5. CASE Kill
    BY <1>5, ExitStep DEF Kill, LifecycleInv, TypeOK
  <1>6. CASE PingOK \/ Migrated \/ Shutdown \/ Drained \/ DrainTimeout
    <2>1. TypeOK'
      BY <1>6 DEF PingOK, Migrated, Shutdown, Drained, DrainTimeout, Goto, LifecycleInv, TypeOK
    <2>2. Open' = Open /\ CleanExit'
      BY <1>6 DEF PingOK, Migrated, Shutdown, Drained, DrainTimeout, Goto, LifecycleInv,
                  CleanExit, Open
    <2>3. Open # {} => pc \in Serving
      BY DEF LifecycleInv
    <2>4. CASE PingOK
      BY <2>1, <2>2, <2>3, <2>4 DEF PingOK, Goto, LifecycleInv, Serving
    <2>5. CASE Migrated
      BY <2>1, <2>2, <2>3, <2>5 DEF Migrated, Goto, LifecycleInv, Serving, TypeOK
    <2>6. CASE Shutdown \/ Drained \/ DrainTimeout
      BY <2>1, <2>2, <2>3, <2>6 DEF Shutdown, Drained, DrainTimeout, Goto, LifecycleInv, Serving
    <2> QED BY <1>6, <2>4, <2>5, <2>6
  <1>7. CASE PingFails \/ MigrateOne \/ Listen \/ ListenFails \/ Stop \/ Up \/ DbUp \/ DbDown
    <2>0. FlagsOK /\ RestOK
      BY TypeParts DEF LifecycleInv
    <2>a. FlagsOK'
      <3>1. CASE Stop
        BY <3>1, Zenon DEF Stop, FlagsOK
      <3>2. CASE Up
        BY <2>0, <3>2, Zenon DEF Up, FlagsOK
      <3>3. CASE PingFails \/ MigrateOne \/ Listen \/ ListenFails \/ DbUp \/ DbDown
        BY <2>0, <3>3, Zenon
        DEF PingFails, MigrateOne, Listen, ListenFails, DbUp, DbDown, FlagsOK
      <3> QED BY <1>7, <3>1, <3>2, <3>3
    <2>b. RestOK'
      <3>1. CASE PingFails
        BY <2>0, <3>1, LifecycleAssumption DEF PingFails, RestOK
      <3>2. CASE MigrateOne \/ Listen \/ ListenFails
        BY <2>0, <3>2 DEF MigrateOne, Listen, ListenFails, RestOK
      <3>3. CASE Stop
        <4>1. /\ stops' = stops + 1
              /\ UNCHANGED <<db, schema, image, program, pc, attempt, listener, requests, last,
                             faults>>
          BY <3>3, Zenon DEF Stop
        <4> QED BY <2>0, <4>1 DEF RestOK
      <3>4. CASE Up
        BY <2>0, <3>4, LifecycleAssumption DEF Up, RestOK
      <3>5. CASE DbUp \/ DbDown
        BY <2>0, <3>5 DEF DbUp, DbDown, RestOK
      <3> QED BY <1>7, <3>1, <3>2, <3>3, <3>4, <3>5
    <2>1. TypeOK'
      BY <2>a, <2>b, TypePartsNext
    <2>2. /\ pc' = pc /\ program' = program /\ Open' = Open /\ CleanExit'
          /\ schema' >= schema /\ (pc # "off" => image' = image)
          /\ listener' # listener => pc = "serve"
      BY <1>7
      DEF PingFails, MigrateOne, Listen, ListenFails, Stop, Up, DbUp, DbDown, LifecycleInv, TypeOK,
          Open, CleanExit
    <2>3. schema \in Nat /\ schema' \in Nat /\ image \in Nat
      BY <2>1 DEF LifecycleInv, TypeOK
    <2> QED BY <2>1, <2>2, <2>3 DEF LifecycleInv, Serving
  <1>8. ASSUME NEW r \in Request, Accept(r) \/ Acquire(r) \/ Release(r) \/ Reply(r)
        PROVE  LifecycleInv'
    <2>1. pc \in Serving
      BY <1>8 DEF Accept, Acquire, Release, Reply, LifecycleInv, Open, Serving
    <2>2. pc = "closeOK" => requests[r] = "none" /\ listener # "open"
      BY DEF LifecycleInv, Open
    <2> QED BY <1>8, <2>1, <2>2, RequestStep DEF Accept, Acquire, Release, Reply
  <1>9. CASE UNCHANGED vars
    BY <1>9 DEF vars, LifecycleInv, TypeOK, Serving, Open, CleanExit
  <1> QED BY <1>1, <1>2, <1>3, <1>4, <1>5, <1>6, <1>7, <1>8, <1>9 DEF Next, Step

LEMMA LifecycleHolds == Spec => []LifecycleInv
  BY LifecycleInit, LifecycleStep, PTL DEF Spec

(* The variables are well typed.                                           *)
THEOREM TypeCorrect == Spec => []TypeOK
  <1>1. LifecycleInv => TypeOK
    BY DEF LifecycleInv
  <1> QED BY <1>1, LifecycleHolds, PTL

(* A request that queries finds every migration of its image applied, for  *)
(* any number of migrations, crashes in the middle of them and new images. *)
THEOREM ServesMigratedHolds == Spec => []ServesMigrated
  <1>1. LifecycleInv => ServesMigrated
    BY DEF LifecycleInv, ServesMigrated, Holding, Open
  <1> QED BY <1>1, LifecycleHolds, PTL

(* Exit code 0 of the API means that no request was cut off.               *)
THEOREM CleanExitHolds == Spec => []CleanExit
  <1>1. LifecycleInv => CleanExit
    BY DEF LifecycleInv
  <1> QED BY <1>1, LifecycleHolds, PTL

-----------------------------------------------------------------------------
(* What stopping and upgrading rely on.                                    *)

(* The signal reaches the API alone, and no schema is ahead of its image.  *)
StopInv ==
  /\ program = "none" <=> pc = "off"
  /\ signalled => program = "api"
  /\ schema <= image

LEMMA StopStep == LifecycleInv /\ StopInv /\ [Next]_vars => StopInv'
  <1> SUFFICES ASSUME LifecycleInv, StopInv, [Next]_vars
               PROVE  StopInv'
    OBVIOUS
  <1>0. schema \in Nat /\ image \in Nat /\ program \in {"none", "seeder", "api"}
    BY TypeParts DEF LifecycleInv, RestOK
  <1> USE DEF container
  <1>1. CASE Launch \/ Loaded
    BY <1>1 DEF Launch, Loaded, Run, StopInv
  <1>2. CASE ConnectFails \/ MigrateFails \/ LoadFails \/ ServeError \/ Closed \/ Kill
    BY <1>2 DEF ConnectFails, MigrateFails, LoadFails, ServeError, Closed, Kill, Exit, StopInv
  <1>3. CASE PingOK \/ Migrated \/ Shutdown \/ Drained \/ DrainTimeout
    BY <1>3 DEF PingOK, Migrated, Shutdown, Drained, DrainTimeout, Goto, StopInv
  <1>4. CASE PingFails \/ Listen \/ ListenFails \/ DbUp \/ DbDown
    BY <1>4 DEF PingFails, Listen, ListenFails, DbUp, DbDown, StopInv
  <1>5. CASE MigrateOne
    BY <1>0, <1>5 DEF MigrateOne, StopInv
  <1>6. CASE Stop
    <2>1. UNCHANGED <<schema, image, program, pc>> /\ (signalled' => program = "api")
      BY <1>6, Zenon DEF Stop
    <2> QED BY <2>1 DEF StopInv
  <1>7. CASE Up
    <2>1. image' >= image
      BY <1>0, <1>7, LifecycleAssumption DEF Up
    <2>2. image' \in Nat
      BY <1>0, <1>7, LifecycleAssumption DEF Up
    <2> QED BY <1>0, <1>7, <2>1, <2>2 DEF Up, StopInv
  <1>8. ASSUME NEW r \in Request, Accept(r) \/ Acquire(r) \/ Release(r) \/ Reply(r)
        PROVE  StopInv'
    BY <1>8 DEF Accept, Acquire, Release, Reply, SetRequest, StopInv
  <1>9. CASE UNCHANGED vars
    BY <1>9 DEF vars, StopInv
  <1> QED BY <1>1, <1>2, <1>3, <1>4, <1>5, <1>6, <1>7, <1>8, <1>9 DEF Next, Step

LEMMA StopHolds == Spec => [](LifecycleInv /\ StopInv)
  <1>1. Init => StopInv
    BY LifecycleAssumption DEF Init, StopInv
  <1> QED BY <1>1, StopStep, LifecycleHolds, PTL DEF Spec

(* Whoever queries the database finds the schema of the image, no older    *)
(* and no newer one, as long as images are only replaced by newer ones.    *)
THEOREM ServesItsSchemaHolds == Spec => []ServesItsSchema
  <1>1. LifecycleInv /\ StopInv => ServesItsSchema
    <2> SUFFICES ASSUME LifecycleInv, StopInv, Holding # {}
                 PROVE  schema = image
      BY DEF ServesItsSchema
    <2>1. schema \in Nat /\ image \in Nat
      BY TypeParts DEF LifecycleInv, RestOK
    <2>2. schema >= image
      BY DEF LifecycleInv, Holding, Open
    <2> QED BY <2>1, <2>2 DEF StopInv
  <1> QED BY <1>1, StopHolds, PTL

(* After the signal the API goes from wherever it is straight to its end:  *)
(* connecting and migrating look at the context, and run() of cmd/api has  *)
(* no way back from Shutdown.                                              *)
THEOREM StopIsShortHolds == Spec => StopIsShort
  <1> DEFINE Ending == {"drain", "closeOK", "closeLate", "off"}
             Closer == signalled /\ pc' # pc => pc' \in Ending /\ Phase[pc'] > Phase[pc]
  <1>1. ASSUME LifecycleInv, StopInv, Next
        PROVE  Closer
    <2> SUFFICES ASSUME signalled, pc' # pc
                 PROVE  pc' \in Ending /\ Phase[pc'] > Phase[pc]
      OBVIOUS
    <2>0. /\ pc \in {"connect", "migrate", "load", "serve", "drain", "closeOK", "closeLate"}
          /\ program = "api" /\ pc # "load"
      BY <1>1, TypeParts DEF StopInv, LifecycleInv, RestOK
    <2>1. CASE ConnectFails \/ MigrateFails \/ LoadFails \/ ServeError \/ Closed \/ Kill
      BY <2>0, <2>1 DEF ConnectFails, MigrateFails, LoadFails, ServeError, Closed, Kill, Exit, Phase
    <2>2. CASE Shutdown \/ Drained \/ DrainTimeout
      <3>1. \/ pc = "serve" /\ pc' = "drain"
            \/ pc = "drain" /\ pc' \in {"closeOK", "closeLate"}
        BY <2>2 DEF Shutdown, Drained, DrainTimeout, Goto
      <3> QED BY <3>1 DEF Phase
    <2>3. ~Launch /\ ~PingOK /\ ~Migrated /\ ~Loaded
      BY <2>0 DEF Launch, PingOK, Migrated, Loaded
    <2>4. /\ ~PingFails /\ ~MigrateOne /\ ~Listen /\ ~ListenFails /\ ~DbUp /\ ~DbDown /\ ~Up
          /\ ~\E r \in Request : Accept(r) \/ Acquire(r) \/ Release(r) \/ Reply(r)
      BY DEF PingFails, MigrateOne, Listen, ListenFails, DbUp, DbDown, Up, Accept, Acquire,
         Release, Reply, SetRequest
    <2>5. ~Stop
      BY Zenon DEF Stop
    <2> QED BY <1>1, <2>1, <2>2, <2>3, <2>4, <2>5 DEF Next, Step
  <1>2. LifecycleInv /\ StopInv /\ [Next]_vars => [Closer]_vars
    <2> HIDE DEF Closer
    <2> QED BY <1>1
  <1> QED BY <1>2, StopHolds, PTL DEF Spec, StopIsShort

(* The work of a process that shuts down only gets less: Shutdown closes   *)
(* the listener before it waits, and the pool is closed last.              *)
THEOREM NoNewWorkHolds == Spec => NoNewWork
  <1> DEFINE Less == /\ pc \in {"drain", "closeOK", "closeLate"} => Open' \subseteq Open
                     /\ pc \in {"closeOK", "closeLate"} => Holding' \subseteq Holding
  <1>1. ASSUME LifecycleInv, Next
        PROVE  Less
    <2>0. requests \in [Request -> {"none", "running", "query"}]
      BY <1>1, TypeParts DEF LifecycleInv, RestOK
    <2>1. CASE requests' = NoRequests
      BY <2>1 DEF NoRequests, Open, Holding
    <2>2. CASE UNCHANGED requests
      BY <2>2 DEF Open, Holding
    <2>3. ASSUME NEW r \in Request, Accept(r) \/ Acquire(r) \/ Release(r) \/ Reply(r)
          PROVE  Less
      <3>1. CASE Accept(r)
        BY <1>1, <3>1 DEF Accept, LifecycleInv
      <3>2. CASE Acquire(r)
        BY <2>0, <3>2 DEF Acquire, SetRequest, Open
      <3>3. CASE Release(r) \/ Reply(r)
        BY <2>0, <3>3 DEF Release, Reply, SetRequest, Open, Holding
      <3> QED BY <2>3, <3>1, <3>2, <3>3
    <2>4. \/ requests' = NoRequests \/ UNCHANGED requests
          \/ \E r \in Request : Accept(r) \/ Acquire(r) \/ Release(r) \/ Reply(r)
      <3>1. Stop => UNCHANGED requests
        BY Zenon DEF Stop
      <3> QED BY <1>1, <3>1 DEF Next, Step, Launch, Run, PingOK, PingFails, ConnectFails, MigrateOne,
              Migrated, MigrateFails, Loaded, LoadFails, Listen, ListenFails, ServeError,
              Shutdown, Drained, DrainTimeout, Closed, Up, Kill, DbUp, DbDown, Goto, Exit
    <2> QED BY <2>1, <2>2, <2>3, <2>4
  <1>2. LifecycleInv /\ [Next]_vars => [Less]_vars
    <2> HIDE DEF Less
    <2> QED BY <1>1
  <1> QED BY <1>2, LifecycleHolds, PTL DEF Spec, NoNewWork

=============================================================================
