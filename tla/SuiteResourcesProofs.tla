------------------------ MODULE SuiteResourcesProofs ------------------------
(***************************************************************************)
(* Theorems about SuiteResources, for every set of kinds of suites and any *)
(* number of suites, containers and faults.                                *)
(*                                                                         *)
(* Each theorem has an invariant of its own: what the container can be     *)
(* when none is held, which routers can run, when a server that was        *)
(* started can be one of an earlier suite, and from when on a store knows  *)
(* of the PICS.  All rest on Control: who can have asked for the router.   *)
(***************************************************************************)
EXTENDS SuiteResources, TLAPS

RouterPC == {"router", "router_wait", "router_up", "form"}
Routers == [id : Nat, up : BOOLEAN, formed : BOOLEAN, lost : BOOLEAN]

Types ==
    /\ ids \in Nat
    /\ suite = [kind |-> suite.kind, router |-> suite.router,
                commissioned |-> suite.commissioned, cleaned |-> suite.cleaned]
    /\ container = [id |-> container.id, up |-> container.up, lost |-> container.lost]
    /\ history = [dirty |-> history.dirty, died |-> history.died]
    /\ pics = [any |-> pics.any, told |-> pics.told, own |-> pics.own]

\* A chip suite asks for the router when it is paired, and never goes the way
\* of the python suites.
Control ==
    /\ pc \in RouterPC => caller \in DOMAIN BackTo
    /\ pc \in RouterPC /\ IsChip => caller = "chip"
    /\ pc = "server" => IsChip
    /\ pc \in {"server", "pics"} => caller = "none"
    /\ pc = "commission" => ~IsChip
    /\ pc # "idle" => ~suite.cleaned

\* A container that is not held was never handed over, while none is awaited.
HandedOver ==
    /\ container.up => container.id # 0
    /\ sdk = 0 /\ pc # "sdk_wait" => container = NoContainer \/ container.lost

\* Routers have an id each, and those nobody has lost are the one that is
\* held or, while it is awaited, the last one created.
RouterIds ==
    /\ routers \subseteq Routers
    /\ \A r \in routers : r.id <= ids
    /\ \A r, s \in routers : r.id = s.id => r = s

OneRuns ==
    \A r \in routers :
        r.up /\ ~r.lost => r.id = IF pc = "router_wait" THEN ids ELSE otbr

\* After clean suites a server is started only by the suite in progress.
StartedByThis ==
    ~history.dirty /\ started # "none" =>
        /\ IsChip
        /\ pc \in {"pics", "prompt", "pairing", "cases", "unpair", "stop", "destroy"}
                    \cup RouterPC

\* From SetPics on, the store of the suite knows of a file if there are PICS, and
\* of the file of this suite.
PicsKnown ==
    pc \in {"prompt", "pairing", "commission", "cases"} \cup RouterPC =>
        /\ Store \in pics.told <=> pics.any
        /\ Store \in pics.told => Store \in pics.own

-----------------------------------------------------------------------------
(* A step leaves the suite in progress where the code may go on, and only  *)
(* those who may ask for the router ask for it.                            *)
LEMMA ControlStep == Types /\ Control /\ [Next]_vars => Types' /\ Control'
  <1> SUFFICES ASSUME Types, Control, [Next]_vars PROVE Types' /\ Control'
    OBVIOUS
  <1> USE DEF Types, Control, Goto, IsChip, RouterPC, BackTo, memory, docker, rest,
              CleanupStart, LeaveUnclean, AfterRaise, AfterSdk, BeginPairing, WithRouter,
              Fault, LeavePics, AfterPics, ResetRunner, NoContainer, ChipKinds, PythonKinds
  <1>1. CASE BeginSuite
    <2>1. PICK k \in Kinds :
            suite' = [kind |-> k, router |-> FALSE, commissioned |-> FALSE, cleaned |-> FALSE]
      BY <1>1 DEF BeginSuite
    <2>2. pc' = "sdk" /\ container' = container /\ ids' = ids
      BY <1>1 DEF BeginSuite
    <2>3. history' = [history EXCEPT !.died = FALSE]
      BY <1>1 DEF BeginSuite
    <2>4. \E any \in BOOLEAN : pics' = [pics EXCEPT !.any = any, !.own = {}]
      BY <1>1 DEF BeginSuite
    <2>5. pics' = [any |-> pics'.any, told |-> pics'.told, own |-> pics'.own]
      BY <2>4
    <2> QED BY <2>1, <2>2, <2>3, <2>5
  <1>2. CASE SetupRaises BY <1>2 DEF SetupRaises
  <1>3. CASE Cancelled BY <1>3 DEF Cancelled
  <1>4. CASE SdkAlreadyRuns \/ SdkReady BY <1>4 DEF SdkAlreadyRuns, SdkReady
  <1>5. CASE SdkCreate BY <1>5 DEF SdkCreate
  <1>6. CASE SdkCreateRaises BY <1>6 DEF SdkCreateRaises
  <1>7. CASE SdkTimesOut BY <1>7 DEF SdkTimesOut
  <1>8. CASE StartServer \/ ServerAlreadyStarted \/ StartServerRaises
    BY <1>8 DEF StartServer, ServerAlreadyStarted, StartServerRaises
  <1>9. CASE SetPics BY <1>9 DEF SetPics
  <1>10. CASE PromptAnswered \/ Paired \/ PairAgain \/ CommissionAsksForRouter \/
              Commissioned
    BY <1>10 DEF PromptAnswered, Paired, PairAgain, CommissionAsksForRouter,
               Commissioned
  <1>11. CASE RouterAlreadyRuns \/ RouterCreate \/ RouterReady
    BY <1>11 DEF RouterAlreadyRuns, RouterCreate, RouterReady
  <1>12. CASE RouterTimesOut \/ RouterServiceDown \/ RouterServiceUp
    BY <1>12 DEF RouterTimesOut, RouterServiceDown, RouterServiceUp
  <1>13. CASE FormTopology BY <1>13 DEF FormTopology
  <1>14. CASE CaseAsksForRouter \/ CaseConnects \/ CasesEnd \/ AbortBetweenCases
    BY <1>14 DEF CaseAsksForRouter, CaseConnects, CasesEnd, AbortBetweenCases
  <1>15. CASE Unpair \/ UnpairLeft \/ StopRunner \/ StopRunnerLeft
    BY <1>15 DEF Unpair, UnpairLeft, StopRunner, StopRunnerLeft
  <1>16. CASE Destroy BY <1>16 DEF Destroy
  <1>17. CASE SdkDestroyRaises BY <1>17 DEF SdkDestroyRaises
  <1>18. CASE RouterDestroyRaises BY <1>18 DEF RouterDestroyRaises
  <1>19. CASE ContainerDies \/ ServerDies BY <1>19 DEF ContainerDies, ServerDies
  <1>20. CASE RouterDies BY <1>20 DEF RouterDies
  <1>21. CASE Restart BY <1>21 DEF Restart
  <1>22. CASE UNCHANGED vars BY <1>22 DEF vars
  <1> QED BY <1>1, <1>2, <1>3, <1>4, <1>5, <1>6, <1>7, <1>8, <1>9, <1>10, <1>11, <1>12,
            <1>13, <1>14, <1>15, <1>16, <1>17, <1>18, <1>19, <1>20, <1>21, <1>22
         DEF Next, Setup, Cleanup, vars

-----------------------------------------------------------------------------
(* A container comes to be held when it is up, and is given up only when   *)
(* it is destroyed; until then the suite is not cleaned.                   *)
LEMMA HeldStep ==
    Types /\ Control /\ HandedOver /\ CleanupLeavesNothing /\ [Next]_vars
        => HandedOver' /\ CleanupLeavesNothing'
  <1> SUFFICES ASSUME Types, Control, HandedOver, CleanupLeavesNothing, [Next]_vars
               PROVE  HandedOver' /\ CleanupLeavesNothing'
    OBVIOUS
  <1> USE DEF Types, Control, HandedOver, CleanupLeavesNothing, Goto, IsChip, OwnsRouter,
              RouterPC, BackTo, memory, docker, rest, CleanupStart, LeaveUnclean, AfterRaise,
              AfterSdk, BeginPairing, WithRouter, Fault, LeavePics, AfterPics, ResetRunner,
              NoContainer, ChipKinds, PythonKinds,
              StartedAfterwards
  <1>1. CASE BeginSuite BY <1>1 DEF BeginSuite
  <1>2. CASE SetupRaises BY <1>2 DEF SetupRaises
  <1>3. CASE Cancelled BY <1>3 DEF Cancelled
  <1>4. CASE SdkAlreadyRuns \/ SdkReady BY <1>4 DEF SdkAlreadyRuns, SdkReady
  <1>5. CASE SdkCreate BY <1>5 DEF SdkCreate
  <1>6. CASE SdkCreateRaises BY <1>6 DEF SdkCreateRaises
  <1>7. CASE SdkTimesOut BY <1>7 DEF SdkTimesOut
  <1>8. CASE SetPics BY <1>8 DEF SetPics
  <1>9. CASE StartServer \/ ServerAlreadyStarted \/ StartServerRaises
    BY <1>9 DEF StartServer, ServerAlreadyStarted, StartServerRaises
  <1>10. CASE PromptAnswered \/ Paired \/ PairAgain \/ CommissionAsksForRouter \/
              Commissioned
    BY <1>10 DEF PromptAnswered, Paired, PairAgain, CommissionAsksForRouter,
               Commissioned
  <1>11. CASE RouterAlreadyRuns \/ RouterCreate \/ RouterReady
    BY <1>11 DEF RouterAlreadyRuns, RouterCreate, RouterReady
  <1>12. CASE RouterTimesOut \/ RouterServiceDown \/ RouterServiceUp
    BY <1>12 DEF RouterTimesOut, RouterServiceDown, RouterServiceUp
  <1>13. CASE FormTopology BY <1>13 DEF FormTopology
  <1>14. CASE CaseAsksForRouter \/ CaseConnects \/ CasesEnd \/ AbortBetweenCases
    BY <1>14 DEF CaseAsksForRouter, CaseConnects, CasesEnd, AbortBetweenCases
  <1>15. CASE Unpair \/ UnpairLeft \/ StopRunner \/ StopRunnerLeft
    BY <1>15 DEF Unpair, UnpairLeft, StopRunner, StopRunnerLeft
  <1>16. CASE Destroy BY <1>16 DEF Destroy
  <1>17. CASE SdkDestroyRaises BY <1>17 DEF SdkDestroyRaises
  <1>18. CASE RouterDestroyRaises BY <1>18 DEF RouterDestroyRaises
  <1>19. CASE ContainerDies \/ ServerDies BY <1>19 DEF ContainerDies, ServerDies
  <1>20. CASE RouterDies BY <1>20 DEF RouterDies
  <1>21. CASE Restart BY <1>21 DEF Restart
  <1>22. CASE UNCHANGED vars BY <1>22 DEF vars
  <1> QED BY <1>1, <1>2, <1>3, <1>4, <1>5, <1>6, <1>7, <1>8, <1>9, <1>10, <1>11, <1>12,
            <1>13, <1>14, <1>15, <1>16, <1>17, <1>18, <1>19, <1>20, <1>21, <1>22
         DEF Next, Setup, Cleanup, vars

(* A router is created only when none runs under the id that is held.      *)
LEMMA RouterStep ==
    Types /\ Control /\ RouterIds /\ OneRuns /\ [Next]_vars
        => RouterIds' /\ OneRuns'
  <1> SUFFICES ASSUME Types, Control, RouterIds, OneRuns, [Next]_vars
               PROVE  RouterIds' /\ OneRuns'
    OBVIOUS
  <1> USE DEF Types, Control, RouterIds, OneRuns, Routers, Goto, IsChip, OwnsRouter,
              RouterPC, BackTo, memory, docker, rest, CleanupStart, LeaveUnclean, AfterRaise,
              AfterSdk, BeginPairing, WithRouter, Fault, LeavePics, AfterPics, ResetRunner,
              RouterIsRunning, Newest, HeldRouter
  <1>1. CASE BeginSuite BY <1>1 DEF BeginSuite
  <1>2. CASE SetupRaises BY <1>2 DEF SetupRaises
  <1>3. CASE Cancelled
    <2> DEFINE kept(r) == [r EXCEPT !.lost = @ \/ (pc = "router_wait" /\ r.id = ids),
                                    !.formed = @ \/ (pc = "form" /\ r.id = otbr /\ r.up)]
    <2>1. /\ routers' = {kept(r) : r \in routers}
          /\ UNCHANGED <<ids, otbr>>
          /\ pc' # "router_wait"
      BY <1>3 DEF Cancelled
    <2>2. \A r \in routers :
            /\ kept(r) \in Routers
            /\ kept(r).id = r.id
            /\ kept(r).up = r.up
            /\ kept(r).lost = (r.lost \/ (pc = "router_wait" /\ r.id = ids))
      OBVIOUS
    <2> HIDE DEF kept
    <2>3. RouterIds'
      BY <2>1, <2>2
    <2>4. OneRuns'
      BY <2>1, <2>2
    <2> QED BY <2>3, <2>4
  <1>4. CASE SdkAlreadyRuns \/ SdkReady BY <1>4 DEF SdkAlreadyRuns, SdkReady
  <1>5. CASE SdkCreate BY <1>5 DEF SdkCreate
  <1>6. CASE SdkCreateRaises BY <1>6 DEF SdkCreateRaises
  <1>7. CASE SdkTimesOut BY <1>7 DEF SdkTimesOut
  <1>8. CASE SetPics BY <1>8 DEF SetPics
  <1>9. CASE StartServer \/ ServerAlreadyStarted \/ StartServerRaises
    BY <1>9 DEF StartServer, ServerAlreadyStarted, StartServerRaises
  <1>10. CASE PromptAnswered \/ Paired \/ PairAgain \/ CommissionAsksForRouter \/
              Commissioned
    BY <1>10 DEF PromptAnswered, Paired, PairAgain, CommissionAsksForRouter,
               Commissioned
  <1>11. CASE RouterAlreadyRuns \/ RouterReady BY <1>11 DEF RouterAlreadyRuns, RouterReady
  <1>12. CASE RouterCreate
    <2>1. PICK up \in BOOLEAN :
            routers' = routers \cup
                {[id |-> ids + 1, up |-> up, formed |-> FALSE, lost |-> FALSE]}
      BY <1>12 DEF RouterCreate
    <2> DEFINE new == [id |-> ids + 1, up |-> up, formed |-> FALSE, lost |-> FALSE]
    <2>2. new \in Routers /\ new.id = ids + 1 /\ \A r \in routers : r.id # new.id
      OBVIOUS
    <2>3. routers' = routers \cup {new}
      BY <2>1
    <2> HIDE DEF new
    <2>4. /\ ids' = ids + 1
          /\ pc' = "router_wait"
          /\ \A r \in routers : r.up => r.lost
      BY <1>12 DEF RouterCreate
    <2>5. RouterIds'
      BY <2>2, <2>3, <2>4
    <2>6. OneRuns'
      BY <2>2, <2>3, <2>4
    <2> QED BY <2>5, <2>6
  <1>13. CASE RouterTimesOut \/ RouterServiceDown \/ RouterServiceUp
    BY <1>13 DEF RouterTimesOut, RouterServiceDown, RouterServiceUp
  <1>14. CASE FormTopology BY <1>14 DEF FormTopology
  <1>15. CASE CaseAsksForRouter \/ CaseConnects \/ CasesEnd \/ AbortBetweenCases
    BY <1>15 DEF CaseAsksForRouter, CaseConnects, CasesEnd, AbortBetweenCases
  <1>16. CASE Unpair \/ UnpairLeft \/ StopRunner \/ StopRunnerLeft
    BY <1>16 DEF Unpair, UnpairLeft, StopRunner, StopRunnerLeft
  <1>17. CASE Destroy BY <1>17 DEF Destroy
  <1>18. CASE SdkDestroyRaises BY <1>18 DEF SdkDestroyRaises
  <1>19. CASE RouterDestroyRaises
    <2> DEFINE killed(r) == [r EXCEPT !.up = @ /\ r.id # otbr]
    <2>1. /\ routers' \in {routers, {killed(r) : r \in routers}}
          /\ UNCHANGED <<ids, otbr>>
          /\ pc # "router_wait" /\ pc' # "router_wait"
      BY <1>19 DEF RouterDestroyRaises
    <2>2. \A r \in routers :
            /\ killed(r) \in Routers
            /\ killed(r).id = r.id
            /\ killed(r).up => r.up
            /\ killed(r).lost = r.lost
      OBVIOUS
    <2> HIDE DEF killed
    <2>3. CASE routers' = routers
      BY <2>1, <2>3
    <2>4. CASE routers' = {killed(r) : r \in routers}
      BY <2>1, <2>2, <2>4
    <2> QED BY <2>1, <2>3, <2>4
  <1>20. CASE ContainerDies \/ ServerDies BY <1>20 DEF ContainerDies, ServerDies
  <1>21. CASE RouterDies BY <1>21 DEF RouterDies
  <1>22. CASE Restart
    <2> DEFINE left(r) == [r EXCEPT !.lost = TRUE]
    <2>1. routers' = {left(r) : r \in routers} /\ UNCHANGED ids
      BY <1>22 DEF Restart
    <2>2. \A r \in routers : left(r) \in Routers /\ left(r).id = r.id /\ left(r).lost
      OBVIOUS
    <2> HIDE DEF left
    <2> QED BY <2>1, <2>2
  <1>23. CASE UNCHANGED vars BY <1>23 DEF vars
  <1> QED BY <1>1, <1>2, <1>3, <1>4, <1>5, <1>6, <1>7, <1>8, <1>9, <1>10, <1>11, <1>12,
            <1>13, <1>14, <1>15, <1>16, <1>17, <1>18, <1>19, <1>20, <1>21, <1>22,
            <1>23
         DEF Next, Setup, Cleanup, vars

(* A server that is started belongs to the suite in progress, unless one   *)
(* was left before its cleanup had stopped its server.                     *)
LEMMA ServerStep ==
    Types /\ Control /\ StartedByThis /\ ServerIsTheSuites /\ [Next]_vars
        => StartedByThis' /\ ServerIsTheSuites'
  <1> SUFFICES ASSUME Types, Control, StartedByThis, ServerIsTheSuites, [Next]_vars
               PROVE  StartedByThis' /\ ServerIsTheSuites'
    OBVIOUS
  <1> USE DEF Types, Control, StartedByThis, ServerIsTheSuites, Goto, IsChip, OwnsRouter,
              RouterPC, BackTo, memory, docker, rest, CleanupStart, LeaveUnclean, AfterRaise,
              AfterSdk, BeginPairing, WithRouter, Fault, LeavePics, AfterPics, ResetRunner,
              NoContainer, ChipKinds, PythonKinds,
              StartedAfterwards, NoServer
  <1>1. CASE BeginSuite BY <1>1 DEF BeginSuite
  <1>2. CASE SetupRaises BY <1>2 DEF SetupRaises
  <1>3. CASE Cancelled BY <1>3 DEF Cancelled
  <1>4. CASE SdkAlreadyRuns \/ SdkReady BY <1>4 DEF SdkAlreadyRuns, SdkReady
  <1>5. CASE SdkCreate BY <1>5 DEF SdkCreate
  <1>6. CASE SdkCreateRaises BY <1>6 DEF SdkCreateRaises
  <1>7. CASE SdkTimesOut BY <1>7 DEF SdkTimesOut
  <1>8. CASE SetPics BY <1>8 DEF SetPics
  <1>9. CASE StartServer \/ ServerAlreadyStarted \/ StartServerRaises
    BY <1>9 DEF StartServer, ServerAlreadyStarted, StartServerRaises
  <1>10. CASE PromptAnswered \/ Paired \/ PairAgain \/ CommissionAsksForRouter \/
              Commissioned
    BY <1>10 DEF PromptAnswered, Paired, PairAgain, CommissionAsksForRouter,
               Commissioned
  <1>11. CASE RouterAlreadyRuns \/ RouterCreate \/ RouterReady
    BY <1>11 DEF RouterAlreadyRuns, RouterCreate, RouterReady
  <1>12. CASE RouterTimesOut \/ RouterServiceDown \/ RouterServiceUp
    BY <1>12 DEF RouterTimesOut, RouterServiceDown, RouterServiceUp
  <1>13. CASE FormTopology BY <1>13 DEF FormTopology
  <1>14. CASE CaseAsksForRouter \/ CaseConnects \/ CasesEnd \/ AbortBetweenCases
    BY <1>14 DEF CaseAsksForRouter, CaseConnects, CasesEnd, AbortBetweenCases
  <1>15. CASE Unpair \/ UnpairLeft \/ StopRunner \/ StopRunnerLeft
    BY <1>15 DEF Unpair, UnpairLeft, StopRunner, StopRunnerLeft
  <1>16. CASE Destroy BY <1>16 DEF Destroy
  <1>17. CASE SdkDestroyRaises BY <1>17 DEF SdkDestroyRaises
  <1>18. CASE RouterDestroyRaises BY <1>18 DEF RouterDestroyRaises
  <1>19. CASE ContainerDies \/ ServerDies BY <1>19 DEF ContainerDies, ServerDies
  <1>20. CASE RouterDies BY <1>20 DEF RouterDies
  <1>21. CASE Restart BY <1>21 DEF Restart
  <1>22. CASE UNCHANGED vars BY <1>22 DEF vars
  <1> QED BY <1>1, <1>2, <1>3, <1>4, <1>5, <1>6, <1>7, <1>8, <1>9, <1>10, <1>11, <1>12,
            <1>13, <1>14, <1>15, <1>16, <1>17, <1>18, <1>19, <1>20, <1>21, <1>22
         DEF Next, Setup, Cleanup, vars

(* The setup tells its store of the PICS before anything is run with them,  *)
(* and nothing takes them away while the suite is in progress.             *)
LEMMA PicsStep ==
    Types /\ Control /\ PicsKnown /\ [Next]_vars => PicsKnown'
  <1> SUFFICES ASSUME Types, Control, PicsKnown, [Next]_vars
               PROVE  PicsKnown'
    OBVIOUS
  <1> USE DEF Types, Control, PicsKnown, Store, Goto, IsChip, RouterPC, BackTo, memory,
              docker, rest, CleanupStart, LeaveUnclean, AfterRaise, AfterSdk, BeginPairing,
              WithRouter, Fault, LeavePics, AfterPics, ResetRunner, ChipKinds, PythonKinds
  <1>1. CASE BeginSuite BY <1>1 DEF BeginSuite
  <1>2. CASE SetupRaises BY <1>2 DEF SetupRaises
  <1>3. CASE Cancelled BY <1>3 DEF Cancelled
  <1>4. CASE SdkAlreadyRuns \/ SdkReady BY <1>4 DEF SdkAlreadyRuns, SdkReady
  <1>5. CASE SdkCreate BY <1>5 DEF SdkCreate
  <1>6. CASE SdkCreateRaises BY <1>6 DEF SdkCreateRaises
  <1>7. CASE SdkTimesOut BY <1>7 DEF SdkTimesOut
  <1>8. CASE SetPics BY <1>8 DEF SetPics
  <1>9. CASE StartServer \/ ServerAlreadyStarted \/ StartServerRaises
    BY <1>9 DEF StartServer, ServerAlreadyStarted, StartServerRaises
  <1>10. CASE PromptAnswered \/ Paired \/ PairAgain \/ CommissionAsksForRouter \/
              Commissioned
    BY <1>10 DEF PromptAnswered, Paired, PairAgain, CommissionAsksForRouter,
               Commissioned
  <1>11. CASE RouterAlreadyRuns \/ RouterCreate \/ RouterReady
    BY <1>11 DEF RouterAlreadyRuns, RouterCreate, RouterReady
  <1>12. CASE RouterTimesOut \/ RouterServiceDown \/ RouterServiceUp
    BY <1>12 DEF RouterTimesOut, RouterServiceDown, RouterServiceUp
  <1>13. CASE FormTopology BY <1>13 DEF FormTopology
  <1>14. CASE CaseAsksForRouter \/ CaseConnects \/ CasesEnd \/ AbortBetweenCases
    BY <1>14 DEF CaseAsksForRouter, CaseConnects, CasesEnd, AbortBetweenCases
  <1>15. CASE Unpair \/ UnpairLeft \/ StopRunner \/ StopRunnerLeft
    BY <1>15 DEF Unpair, UnpairLeft, StopRunner, StopRunnerLeft
  <1>16. CASE Destroy BY <1>16 DEF Destroy
  <1>17. CASE SdkDestroyRaises BY <1>17 DEF SdkDestroyRaises
  <1>18. CASE RouterDestroyRaises BY <1>18 DEF RouterDestroyRaises
  <1>19. CASE ContainerDies \/ ServerDies BY <1>19 DEF ContainerDies, ServerDies
  <1>20. CASE RouterDies BY <1>20 DEF RouterDies
  <1>21. CASE Restart BY <1>21 DEF Restart
  <1>22. CASE UNCHANGED vars BY <1>22 DEF vars
  <1> QED BY <1>1, <1>2, <1>3, <1>4, <1>5, <1>6, <1>7, <1>8, <1>9, <1>10, <1>11, <1>12,
            <1>13, <1>14, <1>15, <1>16, <1>17, <1>18, <1>19, <1>20, <1>21, <1>22
         DEF Next, Setup, Cleanup, vars

(* What holds of the first state.                                          *)
LEMMA InitHolds ==
    Init => /\ Types /\ Control /\ HandedOver /\ CleanupLeavesNothing
            /\ RouterIds /\ OneRuns /\ StartedByThis /\ ServerIsTheSuites
            /\ PicsKnown
  BY DEF Init, Types, Control, HandedOver, CleanupLeavesNothing, RouterIds, OneRuns,
         StartedByThis, ServerIsTheSuites, PicsKnown, RouterPC, IsChip, OwnsRouter, ChipKinds,
         PythonKinds, NoContainer

-----------------------------------------------------------------------------
(* Whatever a setup met and earlier suites left behind, a cleanup that     *)
(* comes to its end leaves no container of the suite and nothing held      *)
(* (ChipSuite.cleanup, PythonTestSuite.cleanup and what they call).        *)
THEOREM NothingIsLeft == Spec => []CleanupLeavesNothing
  <1>1. Init => Types /\ Control /\ HandedOver /\ CleanupLeavesNothing
    BY InitHolds
  <1>2. Types /\ Control /\ HandedOver /\ CleanupLeavesNothing /\ [Next]_vars
        => Types' /\ Control' /\ HandedOver' /\ CleanupLeavesNothing'
    BY ControlStep, HeldStep
  <1> QED BY <1>1, <1>2, PTL DEF Spec

(* No second border router is brought up while the one that is held runs   *)
(* (ThreadBorderRouter.start_device, over any number of suites).           *)
THEOREM OneRouterRuns == Spec => []RunningRoutersAreHeld
  <1>1. Init => Types /\ Control /\ RouterIds /\ OneRuns
    BY InitHolds
  <1>2. Types /\ Control /\ RouterIds /\ OneRuns /\ [Next]_vars
        => Types' /\ Control' /\ RouterIds' /\ OneRuns'
    BY ControlStep, RouterStep
  <1>3. OneRuns => RunningRoutersAreHeld
    BY DEF OneRuns, RunningRoutersAreHeld
  <1> QED BY <1>1, <1>2, <1>3, PTL DEF Spec

(* A suite works with what is its own: after clean ones, a chip suite      *)
(* never works with the server of another suite, of whatever type          *)
(* (ChipServer.start), and no suite is run with the PICS of an earlier one *)
(* (set_pics and reset_pics_state of both stores).                         *)
THEOREM WorksWithItsOwn == Spec => []SuiteHasItsOwn
  <1>1. Init => Types /\ Control /\ StartedByThis /\ ServerIsTheSuites /\ PicsKnown
    BY InitHolds
  <1>2. Types /\ Control /\ StartedByThis /\ ServerIsTheSuites /\ PicsKnown /\ [Next]_vars
        => Types' /\ Control' /\ StartedByThis' /\ ServerIsTheSuites' /\ PicsKnown'
    BY ControlStep, ServerStep, PicsStep
  <1>3. ServerIsTheSuites /\ PicsKnown => SuiteHasItsOwn
    BY DEF SuiteHasItsOwn, PicsKnown, PicsAreTheProjects
  <1> QED BY <1>1, <1>2, <1>3, PTL DEF Spec
=============================================================================
