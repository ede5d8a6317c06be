------------------------------ MODULE Devices ------------------------------
(***************************************************************************)
(* The device picked when Startup.cs begins, on the path to the host.      *)
(***************************************************************************)
EXTENDS HIDKeyboard, MassStorage

VARIABLE device

vars == <<path, keyboard, storage, device>>

Init ==
  /\ device \in {"keyboard", "storage"}
  /\ KeyboardInit /\ StorageInit

Keyboard(A) == device = "keyboard" /\ A /\ UNCHANGED <<storage, device>>
Storage(A)  == device = "storage" /\ A /\ UNCHANGED <<keyboard, device>>
Either(A)   == A /\ UNCHANGED <<keyboard, storage, device>>

Next ==
  \/ Keyboard(KeyboardNext)
  \/ Storage(StorageNext)
  \/ Either(PcReader \/ Firmware \/ HostConfigures \/ HostAsks)

(* Threads run, the firmware goes on, and the host configures a device and *)
(* goes on with what it has begun.                                         *)
Spec ==
  /\ Init /\ [][Next]_vars
  /\ WF_vars(Keyboard(SendReport)) /\ WF_vars(Keyboard(KeyboardRequested))
  /\ WF_vars(Keyboard(HostReadsReport))
  /\ WF_vars(Storage(StorageSteps))
  /\ WF_vars(Either(PcReader)) /\ WF_vars(Either(Firmware))
  /\ WF_vars(Either(HostConfigures))

(* Every variable of the device that is running has the values its comment *)
(* names.                                                                  *)
TypeOK == IF device = "keyboard" THEN KeyboardTypeOK ELSE StorageTypeOK
=============================================================================
