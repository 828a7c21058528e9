--------------------------- MODULE Commissioning ---------------------------
(***************************************************************************)
(* How the device comes to the tests of a suite: from the configuration of *)
(* the project, what chip-tool and the python tests are told to commission *)
(* it with; and the storage of an earlier commissioning, which is copied   *)
(* out of the container, outlives it, and can be reused by a later suite.  *)
(*                                                                         *)
(* A configuration has the keys of dut_config that are given, what is      *)
(* given of the network, the names of the test parameters and, among them, *)
(* the path of the storage; Default is a path nobody needs to give.        *)
(***************************************************************************)
EXTENDS Naturals, Sequences

DutConfig ==
    {"discriminator", "setup_code", "pairing_mode", "chip_timeout", "chip_use_paa_certs",
     "trace_log", "enhanced_setup_flow"}

\* A configuration as pydantic builds it: both networks are mandatory.
TestEnvironmentConfigMatter(config) ==
    /\ {"discriminator", "setup_code", "pairing_mode"} \subseteq config.dut
    /\ config.network = {"wifi", "thread"}

ValidateModel(config) ==
    /\ ~({"qr-code", "manual-code"} \subseteq config.parameters)
    /\ config.dut # {} /\ config.network # {}
    /\ config.dut \subseteq DutConfig
    /\ DutConfig \ {"chip_timeout", "enhanced_setup_flow"} \subseteq config.dut

Accepted(config) == TestEnvironmentConfigMatter(config) /\ ValidateModel(config)

----------------------------------------------------------------------------
(* Python tests.  An argument is a pair of its name and its value.         *)

Default == "default"

Give(condition, arguments) == IF condition THEN arguments ELSE {}

ThreadDatasetHex(config) == IF config.auto THEN "active dataset" ELSE "external dataset"

NetworkArguments(config) ==
    Give(config.mode = "ble-wifi", {<<"wifi-ssid", "ssid">>, <<"wifi-passphrase", "password">>})
    \cup Give(config.mode \in {"ble-thread", "nfc-thread"},
              {<<"thread-dataset-hex", ThreadDatasetHex(config)>>})

\* A code among the test parameters stands for the discriminator and the
\* passcode: with both, the tests would look for two devices.
DeviceArguments(config) ==
    Give({"qr-code", "manual-code"} \cap config.parameters = {},
         {<<"discriminator", "discriminator">>, <<"passcode", "setup code">>})

ParameterArguments(config) ==
    {<<p, "value">> : p \in config.parameters}
    \cup Give(config.storage # Default, {<<"storage-path", config.storage>>})

GenerateCommandArguments(config, inTest) ==
    LET Mode == IF config.mode = "onnetwork" THEN "on-network" ELSE config.mode
    IN Give("enhanced_setup_flow" \in config.dut,
            {<<"require-tc-acknowledgements", "1">>, <<"tc-acknowledgements", "response">>,
             <<"tc-acknowledgements-version", "version">>})
       \cup (IF inTest THEN {<<"in-test-commissioning-method", Mode>>}
             ELSE {<<"commissioning-method", Mode>>} \cup NetworkArguments(config))
       \cup DeviceArguments(config) \cup ParameterArguments(config)

----------------------------------------------------------------------------
(* Suites of chip-tool, which do not look at the test parameters: the      *)
(* command of MatterYAMLRunner.pairing and its parameters, in order.       *)

PairingMode(mode) == IF mode = "onnetwork" THEN "onnetwork-long" ELSE mode

Pairing(config, credentials) ==
    <<PairingMode(config.mode), "node id">> \o credentials \o <<"setup code", "discriminator">>

PairWithDut(config) ==
    Pairing(config,
        CASE config.mode = "onnetwork" -> <<>>
          [] config.mode \in {"ble-wifi", "wifipaf-wifi"} -> <<"ssid", "password">>
          [] config.mode \in {"ble-thread", "nfc-thread"} -> <<ThreadDatasetHex(config)>>)

----------------------------------------------------------------------------
(* The storage of a commissioning is known by the number of the suite that *)
(* did it.  On the host it is a file that may exist and be of none: a copy *)
(* that broke off.  In the container it is at a path.                      *)

NoFile == [exists |-> FALSE, of |-> 0]

Nowhere == [path \in {} |-> 0]

At(path, number) == [p \in {path} |-> number]

\* A failure of the copy is printed, and nobody is told: the file is left as
\* it was if there is nothing to copy, cut off if the stream ends early.
CopyFileFromContainer(host, storage, path, copy) ==
    CASE copy = "whole" /\ path \in DOMAIN storage -> [exists |-> TRUE, of |-> storage[path]]
      [] copy = "cut off" /\ path \in DOMAIN storage -> [exists |-> TRUE, of |-> 0]
      [] OTHER -> host

\* Mutant: the file gets the name it has on the host.
CopyFileToContainerSameName(host, path, copied) ==
    IF copied /\ host.of # 0 THEN At(Default, host.of) ELSE Nowhere

CopyFileToContainer(host, path, copied) ==
    IF copied /\ host.of # 0 THEN At(path, host.of) ELSE Nowhere

\* __retrieve_storage_path; in the model the path is Default if none is given.
StoragePath(config) == config.storage

\* The script in the container (not in the repository) commissions if the
\* device is there and the arguments do, and writes its storage to the path
\* it is told.
ToolCommissions(arguments, there) ==
    LET Names == {a[1] : a \in arguments}
        Mode == CHOOSE m \in {"on-network", "ble-wifi", "ble-thread", "nfc-thread", "wifipaf-wifi"} :
                    <<"commissioning-method", m>> \in arguments
        Needed == CASE Mode \in {"ble-wifi", "wifipaf-wifi"} -> {"wifi-ssid", "wifi-passphrase"}
                    [] Mode \in {"ble-thread", "nfc-thread"} -> {"thread-dataset-hex"}
                    [] OTHER -> {}
        Ways == {w \in {{"discriminator", "passcode"}, {"qr-code"}, {"manual-code"}} : w \cap Names # {}}
    IN /\ there
       /\ Needed \subseteq Names
       /\ \E w \in Ways : Ways = {w} /\ w \subseteq Names

ToolWrites(arguments, number) ==
    LET Told == {a[2] : a \in {b \in arguments : b[1] = "storage-path"}}
    IN At(IF Told = {} THEN Default ELSE CHOOSE p \in Told : TRUE, number)

Raised(world) == [host |-> world, storage |-> Nowhere, ends |-> "raised"]

CommissionDevice(host, s, number) ==
    LET arguments == GenerateCommandArguments(s.config, FALSE)
        storage == ToolWrites(arguments, number)
    IN IF ToolCommissions(arguments, s.there)
       THEN [host |-> CopyFileFromContainer(host, storage, StoragePath(s.config), s.copy),
             storage |-> storage, ends |-> "commissioned"]
       ELSE Raised(host)

PromptForCommissioningMode(host, s, number) ==
    IF s.ready = "PASS" THEN CommissionDevice(host, s, number) ELSE Raised(host)

\* The operator is asked about reuse if the file exists, whatever is in it.
ReuseOrCommission(host, s, number) ==
    IF ~host.exists THEN PromptForCommissioningMode(host, s, number)
    ELSE CASE s.reuse = "PASS" ->
                [host |-> host, ends |-> "reused",
                 storage |-> CopyFileToContainer(host, StoragePath(s.config), s.copied)]
           [] s.reuse = "FAIL" -> PromptForCommissioningMode(host, s, number)
           [] OTHER -> Raised(host)

\* The setup of the suite s, the number-th one, in a container of its own.
CommissioningSuiteSetup(host, s, number) ==
    IF Accepted(s.config) THEN ReuseOrCommission(host, s, number) ELSE Raised(host)

\* The file on the host after the setups that came to these results.
HostAfter(results) == IF results = <<>> THEN NoFile ELSE results[Len(results)].host
=============================================================================
