--------------------------- MODULE SuiteResources ---------------------------
(***************************************************************************)
(* What the suites of the Matter collection set up and clean up: the SDK   *)
(* container, the CHIP server in it, the connection of the YAML runner to  *)
(* that server, and a Thread border router, a container of its own.        *)
(*                                                                         *)
(* The backend keeps singletons that point to these things.  They outlive  *)
(* a suite, and the containers outlive the backend.  Suites follow one     *)
(* another; TestExecution models how one is run: its cleanup is called     *)
(* after its setup raised or was cancelled, but not after an abort that    *)
(* comes between two of its cases, and it can itself raise or be           *)
(* cancelled half way.                                                     *)
(***************************************************************************)
EXTENDS Naturals, FiniteSets

CONSTANTS Kinds,         \* kinds of suites that are run
          Thread,        \* are devices paired over Thread, with a router of ours?
          MaxSuites,     \* suites set up one after another
          MaxContainers, \* containers created, of either image
          MaxFaults      \* containers and servers that die, restarts of the backend

ChipKinds == {"automated", "simulated"}
PythonKinds == {"python", "commissioning"}

ASSUME ResourcesAssumption ==
    /\ Kinds \subseteq ChipKinds \cup PythonKinds
    /\ Thread \in BOOLEAN
    /\ {MaxSuites, MaxContainers, MaxFaults} \subseteq Nat

VARIABLES
    pc,        \* where the setup or cleanup of the suite is
    caller,    \* who called ThreadBorderRouter.start_device
    suite,     \* [kind, router, commissioned, cleaned]
    sdk,       \* SDKContainer.__container: a container or 0
    otbr,      \* ThreadBorderRouter.__otbr_docker: a container or 0
    started,   \* the server type of ChipServer if __server_started, else "none"
    runner,    \* MatterYAMLRunner.__test_harness_runner: "unset", "fresh", "connected"
    container, \* docker: the container that has the SDK's name
    server,    \* the server process: the container it is in, its type
    routers,   \* docker: the border routers
    ids,       \* number of containers created
    suites,    \* number of suites begun
    faults,    \* number of faults
    history,   \* [dirty, died]: see SuiteHasItsOwn
    pics       \* [any, told, own]: has the project PICS, which of Stores say so,
               \* and whose file was written for the suite in progress

memory == <<sdk, otbr, started, runner>>
docker == <<container, server, routers, ids>>
rest == <<suites, faults, history, pics>>
vars == <<pc, caller, suite, memory, docker, rest>>

NoContainer == [id |-> 0, up |-> FALSE, lost |-> FALSE]
NoServer == [in |-> 0, type |-> "none"]
TypeOf == [k \in ChipKinds |-> IF k = "automated" THEN "tool" ELSE "app"]
IsChip == suite.kind \in ChipKinds

\* The runner has its file of PICS beside the backend, the SDK in its container.
Stores == {"runner", "sdk"}
Store == IF IsChip THEN "runner" ELSE "sdk"

Init ==
    /\ pc = "idle"
    /\ caller = "none"
    /\ suite = [kind |-> "none", router |-> FALSE, commissioned |-> FALSE, cleaned |-> TRUE]
    /\ sdk = 0
    /\ otbr = 0
    /\ started = "none"
    /\ runner = "unset"
    /\ container = NoContainer
    /\ server = NoServer
    /\ routers = {}
    /\ ids = 0
    /\ suites = 0
    /\ faults = 0
    /\ history = [dirty |-> FALSE, died |-> FALSE]
    /\ pics = [any |-> FALSE, told |-> {}, own |-> {}]

-----------------------------------------------------------------------------
(***************************************************************************)
(* How a suite goes on.                                                    *)
(***************************************************************************)
Goto(next) == pc' = next

\* The first thing the cleanup of the suite does.
CleanupStart ==
    IF ~IsChip THEN "destroy" ELSE IF suite.commissioned THEN "unpair" ELSE "stop"

\* The cleanup is left at this point, or was never begun.
LeaveUnclean ==
    /\ Goto("idle")
    /\ history' = [history EXCEPT !.dirty = @ \/ IsChip]
    /\ UNCHANGED <<caller, suite, suites, faults, pics>>

BeginSuite ==
    /\ pc = "idle"
    /\ suites < MaxSuites
    /\ suites' = suites + 1
    /\ \E k \in Kinds :
          suite' = [kind |-> k, router |-> FALSE, commissioned |-> FALSE, cleaned |-> FALSE]
    /\ history' = [history EXCEPT !.died = FALSE]
    /\ \E any \in BOOLEAN : pics' = [pics EXCEPT !.any = any, !.own = {}]
    /\ Goto("sdk")
    /\ UNCHANGED <<caller, memory, docker, faults>>

\* An exception of the test case that asked for the router ends that case only.
AfterRaise == IF caller = "case" THEN "cases" ELSE CleanupStart

\* Docker, the network, the DUT, a file or a user's answer makes setup raise.
SetupRaises ==
    /\ pc \in {"server", "pics", "prompt", "pairing", "router", "router_up", "form", "commission"}
    /\ Goto(AfterRaise)
    /\ caller' = "none"
    /\ UNCHANGED <<suite, memory, docker, rest>>

\* An abort where the setup or a case waits.  A container that is being
\* waited for is assigned to nobody; a network is formed before the wait.
Cancelled ==
    /\ pc \in {"sdk_wait", "prompt", "pairing", "router_wait", "router_up", "form",
               "commission", "cases"}
    /\ Goto(CleanupStart)
    /\ caller' = "none"
    /\ container' = IF pc = "sdk_wait" THEN [container EXCEPT !.lost = TRUE] ELSE container
    /\ routers' =
          {[r EXCEPT !.lost = @ \/ (pc = "router_wait" /\ r.id = ids),
                     !.formed = @ \/ (pc = "form" /\ r.id = otbr /\ r.up)] : r \in routers}
    /\ UNCHANGED <<suite, memory, server, ids, rest>>

-----------------------------------------------------------------------------
(***************************************************************************)
(* SDKContainer.start.                                                     *)
(***************************************************************************)
SdkIsRunning == sdk # 0 /\ sdk = container.id /\ container.up

AfterSdk == IF IsChip THEN "server" ELSE "pics"

SdkAlreadyRuns ==
    /\ pc = "sdk"
    /\ SdkIsRunning
    /\ Goto(AfterSdk)
    /\ caller' = "none"
    /\ UNCHANGED <<suite, memory, docker, rest>>

\* A container that has the name is destroyed, and the server in it.
SdkCreate ==
    /\ pc = "sdk"
    /\ ~SdkIsRunning
    /\ ids < MaxContainers
    /\ ids' = ids + 1
    /\ \E up \in BOOLEAN : container' = [id |-> ids + 1, up |-> up, lost |-> FALSE]
    /\ server' = NoServer
    /\ Goto("sdk_wait")
    /\ UNCHANGED <<caller, suite, memory, routers, rest>>

\* Docker creates none, or one that it cannot start.
SdkCreateRaises ==
    /\ pc = "sdk"
    /\ ~SdkIsRunning
    /\ \/ container' = NoContainer /\ ids' = ids
       \/ /\ ids < MaxContainers
          /\ ids' = ids + 1
          /\ container' = [id |-> ids + 1, up |-> FALSE, lost |-> TRUE]
    /\ server' = NoServer
    /\ Goto(CleanupStart)
    /\ UNCHANGED <<caller, suite, memory, routers, rest>>

SdkReady ==
    /\ pc = "sdk_wait"
    /\ container.up
    /\ sdk' = container.id
    /\ Goto(AfterSdk)
    /\ caller' = "none"
    /\ UNCHANGED <<suite, otbr, started, runner, docker, rest>>

SdkTimesOut ==
    /\ pc = "sdk_wait"
    /\ ~container.up
    /\ container' = NoContainer
    /\ Goto(CleanupStart)
    /\ UNCHANGED <<caller, suite, memory, server, routers, ids, rest>>

-----------------------------------------------------------------------------
(***************************************************************************)
(* MatterYAMLRunner.setup and ChipServer.start.  Neither waits in a way    *)
(* that an abort could interrupt: they block the event loop.               *)
(***************************************************************************)
ResetRunner ==
    /\ runner' = "fresh"
    /\ pics' = [pics EXCEPT !.told = @ \ {"runner"}]

StartServer ==
    /\ pc = "server"
    /\ started = "none"
    /\ SdkIsRunning
    /\ server = NoServer
    /\ server' = [in |-> sdk, type |-> TypeOf[suite.kind]]
    /\ started' = TypeOf[suite.kind]
    /\ ResetRunner
    /\ Goto("pics")
    /\ UNCHANGED <<caller, suite, sdk, otbr, container, routers, ids, suites, faults, history>>

ServerAlreadyStarted ==
    /\ pc = "server"
    /\ started # "none"
    /\ ResetRunner
    /\ Goto("pics")
    /\ UNCHANGED <<caller, suite, sdk, otbr, started, docker, suites, faults, history>>

\* The command cannot be sent, the server ends at once, or reading what it
\* logs raises although it runs.
StartServerRaises ==
    /\ pc = "server"
    /\ started = "none"
    /\ ResetRunner
    /\ \/ UNCHANGED server
       \/ /\ SdkIsRunning /\ server = NoServer
          /\ server' = [in |-> sdk, type |-> TypeOf[suite.kind]]
    /\ Goto(CleanupStart)
    /\ UNCHANGED <<caller, suite, sdk, otbr, started, container, routers, ids, suites, faults, history>>

-----------------------------------------------------------------------------
(***************************************************************************)
(* PICS.  The setup writes those of the project into the file of its store,*)
(* or has the store forget its file.  Neither waits; cases are run with    *)
(* the file that the store knows of.                                       *)
(***************************************************************************)
AfterPics ==
    IF IsChip THEN "prompt"
    ELSE IF suite.kind = "python" THEN "cases"
    ELSE IF Thread THEN "router" ELSE "commission"

LeavePics ==
    /\ Goto(AfterPics)
    /\ caller' = IF AfterPics = "router" THEN "suite" ELSE "none"
    /\ UNCHANGED <<suite, memory, docker, suites, faults, history>>

\* Mutant: a suite without PICS leaves its store as it is.
PicsNotReset ==
    /\ pc = "pics"
    /\ pics.any /\ ~IsChip => SdkIsRunning
    /\ pics' = IF pics.any
               THEN [pics EXCEPT !.told = @ \cup {Store}, !.own = @ \cup {Store}]
               ELSE pics
    /\ LeavePics

SetPics ==
    /\ pc = "pics"
    /\ pics.any /\ ~IsChip => SdkIsRunning
    /\ pics' = IF pics.any
               THEN [pics EXCEPT !.told = @ \cup {Store}, !.own = @ \cup {Store}]
               ELSE [pics EXCEPT !.told = @ \ {Store}]
    /\ LeavePics

-----------------------------------------------------------------------------
(***************************************************************************)
(* Commissioning.                                                          *)
(***************************************************************************)
BeginPairing == IF Thread THEN "router" ELSE "pairing"

\* prompt_for_commissioning_mode, or the prompt to commission by hand.
PromptAnswered ==
    /\ pc = "prompt"
    /\ IF suite.kind = "automated"
       THEN /\ Goto(BeginPairing)
            /\ caller' = IF Thread THEN "chip" ELSE "none"
            /\ UNCHANGED suite
       ELSE /\ Goto("cases")
            /\ suite' = [suite EXCEPT !.commissioned = TRUE]
            /\ UNCHANGED caller
    /\ UNCHANGED <<memory, docker, rest>>

Paired ==
    /\ pc = "pairing"
    /\ server.type = "tool"
    /\ runner' = "connected"
    /\ suite' = [suite EXCEPT !.commissioned = TRUE]
    /\ Goto("cases")
    /\ caller' = "none"
    /\ UNCHANGED <<sdk, otbr, started, docker, rest>>

\* Commissioning failed, and the user chose to retry.
PairAgain ==
    /\ pc = "pairing"
    /\ server # NoServer
    /\ runner' = "connected"
    /\ Goto(BeginPairing)
    /\ caller' = IF Thread THEN "chip" ELSE "none"
    /\ UNCHANGED <<suite, sdk, otbr, started, docker, rest>>

\* commission_device asks for the router when it makes up its arguments.
CommissionAsksForRouter ==
    /\ pc = "commission"
    /\ Thread
    /\ caller # "args"
    /\ Goto("router")
    /\ caller' = "args"
    /\ UNCHANGED <<suite, memory, docker, rest>>

\* The DUT is commissioned, or had been.
Commissioned ==
    /\ pc = "commission"
    /\ Goto("cases")
    /\ caller' = "none"
    /\ UNCHANGED <<suite, memory, docker, rest>>

-----------------------------------------------------------------------------
(***************************************************************************)
(* ThreadBorderRouter.start_device and form_thread_topology, called by the *)
(* pairing of a chip suite, by the setup of a commissioning suite, or for  *)
(* the arguments of a command.                                             *)
(***************************************************************************)
RouterIsRunning == \E r \in routers : r.id = otbr /\ r.up
Newest == CHOOSE r \in routers : r.id = ids

\* Where its callers go on when the router is there.
BackTo == [chip |-> "pairing", case |-> "cases", suite |-> "commission", args |-> "commission"]

WithRouter ==
    /\ Goto(BackTo[caller])
    /\ caller' = IF caller = "case" THEN "none" ELSE caller
    /\ suite' = [suite EXCEPT !.router = @ \/ caller = "chip"]

\* start_device returns False; only the suite forms the topology all the same.
RouterAlreadyRuns ==
    /\ pc = "router"
    /\ RouterIsRunning
    /\ IF caller = "suite" THEN Goto("form") /\ UNCHANGED <<caller, suite>> ELSE WithRouter
    /\ UNCHANGED <<memory, docker, rest>>

\* Mutant: start_device does not look whether a router runs.
RouterCreateAlways ==
    /\ pc = "router"
    /\ ids < MaxContainers
    /\ ids' = ids + 1
    /\ \E up \in BOOLEAN :
          routers' = routers \cup {[id |-> ids + 1, up |-> up, formed |-> FALSE, lost |-> FALSE]}
    /\ Goto("router_wait")
    /\ UNCHANGED <<caller, suite, memory, container, server, rest>>

RouterCreate ==
    /\ pc = "router"
    /\ ~RouterIsRunning
    /\ ids < MaxContainers
    /\ ids' = ids + 1
    /\ \E up \in BOOLEAN :
          routers' = routers \cup {[id |-> ids + 1, up |-> up, formed |-> FALSE, lost |-> FALSE]}
    /\ Goto("router_wait")
    /\ UNCHANGED <<caller, suite, memory, container, server, rest>>

RouterReady ==
    /\ pc = "router_wait"
    /\ Newest.up
    /\ otbr' = ids
    /\ Goto("router_up")
    /\ UNCHANGED <<caller, suite, sdk, started, runner, docker, rest>>

\* create_container destroys what did not come up in time.
RouterTimesOut ==
    /\ pc = "router_wait"
    /\ ~Newest.up
    /\ routers' = routers \ {Newest}
    /\ Goto(AfterRaise)
    /\ caller' = "none"
    /\ UNCHANGED <<suite, memory, container, server, ids, rest>>

\* Its service does not run: destroy_device.
RouterServiceDown ==
    /\ pc = "router_up"
    /\ routers' = {r \in routers : r.id # otbr}
    /\ otbr' = 0
    /\ Goto(AfterRaise)
    /\ caller' = "none"
    /\ UNCHANGED <<suite, sdk, started, runner, container, server, ids, rest>>

RouterServiceUp ==
    /\ pc = "router_up"
    /\ RouterIsRunning
    /\ Goto("form")
    /\ UNCHANGED <<caller, suite, memory, docker, rest>>

FormTopology ==
    /\ pc = "form"
    /\ RouterIsRunning
    /\ routers' = {[r EXCEPT !.formed = @ \/ r.id = otbr] : r \in routers}
    /\ WithRouter
    /\ UNCHANGED <<memory, container, server, ids, rest>>

-----------------------------------------------------------------------------
(***************************************************************************)
(* The cases of the suite.                                                 *)
(***************************************************************************)
\* A python case whose own arguments name the dataset of the router.
CaseAsksForRouter ==
    /\ pc = "cases"
    /\ suite.kind \in PythonKinds
    /\ Thread
    /\ Goto("router")
    /\ caller' = "case"
    /\ UNCHANGED <<suite, memory, docker, rest>>

\* A YAML case connects the runner to the server.
CaseConnects ==
    /\ pc = "cases"
    /\ IsChip
    /\ server # NoServer
    /\ runner = "fresh"
    /\ runner' = "connected"
    /\ UNCHANGED <<pc, caller, suite, sdk, otbr, started, docker, rest>>

CasesEnd ==
    /\ pc = "cases"
    /\ Goto(CleanupStart)
    /\ UNCHANGED <<caller, suite, memory, docker, rest>>

AbortBetweenCases ==
    /\ pc = "cases"
    /\ LeaveUnclean
    /\ UNCHANGED <<memory, docker>>

-----------------------------------------------------------------------------
(***************************************************************************)
(* The cleanup of a suite.                                                 *)
(***************************************************************************)
\* Whether the DUT could be unpaired does not matter.
Unpair ==
    /\ pc = "unpair"
    /\ IF suite.kind = "automated" THEN server # NoServer /\ runner' = "connected"
                                   ELSE UNCHANGED runner
    /\ Goto("stop")
    /\ UNCHANGED <<caller, suite, sdk, otbr, started, docker, rest>>

UnpairLeft ==
    /\ pc = "unpair"
    /\ LeaveUnclean
    /\ UNCHANGED <<memory, docker>>

StopRunner ==
    /\ pc = "stop"
    /\ runner # "unset"
    /\ runner' = "fresh"
    /\ Goto("destroy")
    /\ UNCHANGED <<caller, suite, sdk, otbr, started, docker, rest>>

\* The runner was never set up: AttributeError.  Or it cannot disconnect.
StopRunnerLeft ==
    /\ pc = "stop"
    /\ runner \in {"unset", "connected"}
    /\ LeaveUnclean
    /\ UNCHANGED <<memory, docker>>

\* ChipServer.stop swallows every exception: the server may survive it.
StoppedServers == IF IsChip /\ started # "none" THEN {server, NoServer} ELSE {server}

StartedAfterwards == IF IsChip THEN "none" ELSE started

\* Docker does not find a container that is held but was replaced.
HeldIsThere == sdk = 0 \/ sdk = container.id
HeldRouter == {r \in routers : r.id = otbr}
OwnsRouter == suite.kind \in PythonKinds \/ suite.router

\* Mutant: the container is destroyed but still held.
DestroyKeepsHolding ==
    /\ pc = "destroy"
    /\ HeldIsThere
    /\ started' = StartedAfterwards
    /\ container' = IF sdk = 0 THEN container ELSE NoContainer
    /\ server' = IF sdk = 0 THEN server ELSE NoServer
    /\ routers' = IF OwnsRouter THEN routers \ HeldRouter ELSE routers
    /\ otbr' = IF OwnsRouter THEN 0 ELSE otbr
    /\ suite' = [suite EXCEPT !.cleaned = TRUE]
    /\ history' = [history EXCEPT !.dirty = @ /\ ~IsChip]
    /\ Goto("idle")
    /\ UNCHANGED <<caller, sdk, runner, ids, suites, faults, pics>>

Destroy ==
    /\ pc = "destroy"
    /\ HeldIsThere
    /\ started' = StartedAfterwards
    /\ container' = IF sdk = 0 THEN container ELSE NoContainer
    /\ server' = IF sdk = 0 THEN server ELSE NoServer
    /\ sdk' = 0
    /\ routers' = IF OwnsRouter THEN routers \ HeldRouter ELSE routers
    /\ otbr' = IF OwnsRouter THEN 0 ELSE otbr
    /\ suite' = [suite EXCEPT !.cleaned = TRUE]
    /\ history' = [history EXCEPT !.dirty = @ /\ ~IsChip]
    /\ Goto("idle")
    /\ UNCHANGED <<caller, runner, ids, suites, faults, pics>>

\* Docker fails at the container, which may have been killed by then,
SdkDestroyRaises ==
    /\ pc = "destroy"
    /\ sdk # 0
    /\ started' = StartedAfterwards
    /\ \/ server' \in StoppedServers /\ UNCHANGED container
       \/ /\ SdkIsRunning
          /\ server' = NoServer
          /\ container' = [container EXCEPT !.up = FALSE]
    /\ LeaveUnclean
    /\ UNCHANGED <<sdk, otbr, runner, routers, ids>>

\* or at the router, when the container is gone.
RouterDestroyRaises ==
    /\ pc = "destroy"
    /\ HeldIsThere
    /\ OwnsRouter
    /\ otbr # 0
    /\ started' = StartedAfterwards
    /\ container' = IF sdk = 0 THEN container ELSE NoContainer
    /\ server' = IF sdk = 0 THEN server ELSE NoServer
    /\ sdk' = 0
    /\ routers' \in {routers, {[r EXCEPT !.up = @ /\ r.id # otbr] : r \in routers}}
    /\ LeaveUnclean
    /\ UNCHANGED <<otbr, runner, ids>>

-----------------------------------------------------------------------------
(***************************************************************************)
(* Faults.                                                                 *)
(***************************************************************************)
Fault ==
    /\ faults < MaxFaults
    /\ faults' = faults + 1

ContainerDies ==
    /\ Fault
    /\ container.up
    /\ container' = [container EXCEPT !.up = FALSE]
    /\ server' = NoServer
    /\ history' = [history EXCEPT !.died = TRUE]
    /\ UNCHANGED <<pc, caller, suite, memory, routers, ids, suites, pics>>

ServerDies ==
    /\ Fault
    /\ server # NoServer
    /\ server' = NoServer
    /\ history' = [history EXCEPT !.died = TRUE]
    /\ UNCHANGED <<pc, caller, suite, memory, container, routers, ids, suites, pics>>

RouterDies ==
    /\ Fault
    /\ \E r \in routers :
          /\ r.up
          /\ routers' = (routers \ {r}) \cup {[r EXCEPT !.up = FALSE]}
    /\ UNCHANGED <<pc, caller, suite, memory, container, server, ids, suites, history, pics>>

\* The backend restarts: the singletons are new, the containers go on.
Restart ==
    /\ Fault
    /\ pc' = "idle"
    /\ caller' = "none"
    /\ suite' = [kind |-> "none", router |-> FALSE, commissioned |-> FALSE, cleaned |-> FALSE]
    /\ sdk' = 0
    /\ otbr' = 0
    /\ started' = "none"
    /\ runner' = "unset"
    /\ container' = [container EXCEPT !.lost = TRUE]
    /\ routers' = {[r EXCEPT !.lost = TRUE] : r \in routers}
    /\ history' = [history EXCEPT !.dirty = FALSE]
    /\ pics' = [pics EXCEPT !.told = {}]
    /\ UNCHANGED <<server, ids, suites>>

-----------------------------------------------------------------------------
Setup ==
    \/ BeginSuite \/ SetupRaises \/ Cancelled
    \/ SdkAlreadyRuns \/ SdkCreate \/ SdkCreateRaises \/ SdkReady \/ SdkTimesOut
    \/ StartServer \/ ServerAlreadyStarted \/ StartServerRaises \/ SetPics
    \/ PromptAnswered \/ Paired \/ PairAgain \/ CommissionAsksForRouter \/ Commissioned
    \/ RouterAlreadyRuns \/ RouterCreate \/ RouterReady \/ RouterTimesOut
    \/ RouterServiceDown \/ RouterServiceUp \/ FormTopology

Cleanup ==
    \/ Unpair \/ UnpairLeft \/ StopRunner \/ StopRunnerLeft
    \/ Destroy \/ SdkDestroyRaises \/ RouterDestroyRaises

Next ==
    \/ Setup
    \/ CaseAsksForRouter \/ CaseConnects \/ CasesEnd \/ AbortBetweenCases
    \/ Cleanup
    \/ ContainerDies \/ ServerDies \/ RouterDies \/ Restart

Spec == Init /\ [][Next]_vars

-----------------------------------------------------------------------------
(***************************************************************************)
(* Properties.                                                             *)
(***************************************************************************)
(* Once the cleanup of a suite has come to its end, even after a setup     *)
(* that raised or was cancelled and whatever earlier suites left behind,   *)
(* no container is held, the only one that may exist is one that was never *)
(* handed over (its creation was cancelled or failed), a chip suite has    *)
(* reset its server, and the router is gone.  The exception is a chip      *)
(* suite whose pairing did not get as far as to note down its router.      *)
CleanupLeavesNothing ==
    pc = "idle" /\ suite.cleaned =>
        /\ sdk = 0
        /\ container = NoContainer \/ container.lost
        /\ IsChip => started = "none"
        /\ OwnsRouter => otbr = 0

(* A chip suite is paired and tested with a server of its type that was    *)
(* started in the container it holds, unless container or server died      *)
(* since, or an earlier chip suite was left before it had cleaned up: then *)
(* ChipServer.start takes the server that was started then for its own,    *)
(* whichever type it has and whether or not its container still exists.    *)
ServerIsTheSuites ==
    /\ IsChip /\ pc \in {"pics", "prompt", "router", "router_wait", "router_up", "form",
                         "pairing", "cases"}
    /\ ~history.dirty /\ ~history.died
    => /\ server = [in |-> sdk, type |-> TypeOf[suite.kind]]
       /\ started = server.type

(* The cases of a suite are run with the PICS of its project, and without  *)
(* any if it has none, whatever files and flags earlier suites have left.  *)
PicsAreTheProjects ==
    pc = "cases" =>
        /\ Store \in pics.told <=> pics.any
        /\ Store \in pics.told => Store \in pics.own

\* What a suite works with is its own.
SuiteHasItsOwn == ServerIsTheSuites /\ PicsAreTheProjects

(* At most one border router runs on the radio, the one that is held:      *)
(* others that run are those whose creation was cancelled, which nobody    *)
(* can destroy, or that a restart has left over.                           *)
RunningRoutersAreHeld ==
    \A r \in routers :
        r.up /\ ~r.lost => r.id = otbr \/ (pc = "router_wait" /\ r.id = ids)
=============================================================================
