----------------------------- MODULE MCServices -----------------------------
(***************************************************************************)
(* Five parts of the service on small instances: the runtime catalog, the  *)
(* launch bindings, managed storage, the pairing of devices, and the save  *)
(* bindings with the pairing of one device.  Only the last two share       *)
(* state, so one of the five runs in each behaviour and what the others    *)
(* keep rests in its initial state.                                        *)
(***************************************************************************)
EXTENDS RuntimeCatalog, RuntimeBindings, ManagedStorage, SaveBindings, TLC

CONSTANTS
  q1, v1, k1, k2, k3, e1, e2, h1, h2,                      \* RuntimeBindings
  f1, f2, x1,                                              \* ManagedStorage
  p1, s1, c1, c2                                           \* SaveBindings

VARIABLE service

-----------------------------------------------------------------------------
(* RuntimeCatalog *)

MCSeeds == {{"source_adapter", "frontend_adapter", "emulator_driver", "retroarch_core"},
            {"device_profile"}}
Claimed(v, level, scope) ==
  [version |-> v, level |-> level, evidence |-> [scope |-> scope, version |-> v],
   enabled |-> TRUE]
MCEdits == {[Claimed(1, "catalogued", "none") EXCEPT !.evidence.version = 0],
            Claimed(1, "hardware-tested", "hardware-tested"),
            [Claimed(2, "hardware-tested", "hardware-tested") EXCEPT !.enabled = FALSE],
            Claimed(2, "HARDWARE-TESTED", "hardware-tested")}
MCHardware == {[observed |-> {"launch", "upgrade"}, session |-> TRUE],
               [observed |-> {"launch", "upgrade", "save"}, session |-> TRUE]}

-----------------------------------------------------------------------------
(* RuntimeBindings *)

MCHintOf ==
  h1 :> [edition |-> e1, trust |-> "untrusted", driver |-> Nothing, core |-> Nothing,
         mentions |-> {k1, k3}] @@
  h2 :> [edition |-> e2, trust |-> "structured", driver |-> v1, core |-> k1, mentions |-> {}]
MCLaunchRow(core) == [state |-> "row", driver |-> v1, core |-> core, enabled |-> TRUE]
MCWanted == {MCLaunchRow(k1), MCLaunchRow(Nothing)}
MCRewrites == {[content |-> 1, enabled |-> FALSE], [content |-> 2, enabled |-> TRUE]}
MCCarried == k3 :> 1 @@ Platform :> 1

-----------------------------------------------------------------------------
(* ManagedStorage *)

MCRomsOf == e1 :> {f1} @@ e2 :> {f2}
MCBlobsOf == e1 :> {x1} @@ e2 :> {}

-----------------------------------------------------------------------------
(* DevicePairing *)

MCHandheld == [os |-> "linux", arch |-> "aarch64"]
MCDesktop == [os |-> "linux", arch |-> "x86_64"]
MCMachines == {MCHandheld, MCDesktop}
MCInputs == [profile : Profiles, machine : {MCHandheld}, status : {"offline"}]
              \cup [profile : {NoProfile}, machine : {MCDesktop}, status : {"active"}]
MCShapes == {[os |-> "handheld-linux", arch |-> "arm64"], [os |-> "windows", arch |-> ""]}

-----------------------------------------------------------------------------
(* SaveBindings *)

MCBuilds == 1..2
MCContract == [v \in MCBuilds |-> (Native :> v) @@ (Core :> 1)]
MCDigest == [v \in MCBuilds |-> (Native :> "n") @@ (Core :> "c")]
Report(r, v, g) == [id |-> r, contract |-> v, digest |-> g]
MCReports ==
  {{}, {Report(Native, 1, "n"), Report(Core, 1, "c")},
   {Report(Native, 2, "n"), Report(Core, 1, "c")}, {Report(Core, 1, "c")}}
Ask(p, d, c, on) ==
  [stream |-> s1, profile |-> p, driver |-> d, core |-> c, enabled |-> on]
MCBindingInputs ==
  {Ask(NoProfile, Native, Core, FALSE), Ask(p1, Native, Core, TRUE),
   Ask(NoProfile, Web, NoCore, TRUE)}
MCMember == [os |-> "linux", arch |-> "arm64"]

\* The pairing alone is seen with one request at a time beside its transactions.
PairingBound == calls[c1] = Idle

\* These behaviours have one device, which came by a code (one an administrator
\* enters has no token to ask for a session with), and the lifetime of its token.
\* One caller asks for its sessions, the other does all the rest meanwhile; the
\* profile is for the device's kind, or is disabled.
BindingBound == /\ \A d, e \in Devices : devices[d] # Unborn /\ devices[e] # Unborn => d = e
                /\ calls[c1].op \in {"idle", "session"}
                /\ calls[c2].op \notin {"session", "create", "unprofile"}
                /\ calls[c2].op = "profile" => calls[c2].step = "write"
                /\ \A p \in Profiles : Lives(profiles[p]) => profiles[p].shape.os # "windows"
                /\ time = 0

-----------------------------------------------------------------------------
ServicesInit ==
  /\ service \in {"catalog", "launch", "storage", "pairing", "bindings"}
  /\ RuntimeInit
  /\ service # "catalog" => seeds = {"device_profile"}
  /\ LaunchInit
  /\ StorageInit
  /\ BindingInit

ServicesNext ==
  /\ UNCHANGED service
  /\ \/ /\ service = "catalog" /\ RuntimeNext
        /\ UNCHANGED <<launchVars, storageVars, pairingVars, bindingVars>>
     \/ /\ service = "launch" /\ LaunchNext
        /\ UNCHANGED <<runtimeVars, storageVars, pairingVars, bindingVars>>
     \/ /\ service = "storage" /\ StorageNext
        /\ UNCHANGED <<runtimeVars, launchVars, pairingVars, bindingVars>>
     \/ /\ service = "pairing" /\ PairingNext /\ PairingBound'
        /\ UNCHANGED <<runtimeVars, launchVars, storageVars, bindingVars>>
     \/ /\ service = "bindings" /\ BindingNext /\ BindingBound'
        /\ UNCHANGED <<runtimeVars, launchVars, storageVars>>

ServicesSpec ==
  ServicesInit
    /\ [][ServicesNext]_<<service, runtimeVars, launchVars, storageVars, pairingVars,
                        bindingVars>>

(* The cfg takes the same two values for callers, requests and devices, each   *)
(* in another part, so that one permutation serves them all.                   *)
ServicesSymmetry == Permutations(RuntimeCallers)

=============================================================================
