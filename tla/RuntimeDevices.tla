--------------------------- MODULE RuntimeDevices ---------------------------
(***************************************************************************)
(* The interrupt table and the registry of HAL devices of the runtime       *)
(* (src/kernel/c/bolun_runtime.c), with the device profiles that fill the   *)
(* registry.  Names and models are payload.                                 *)
(***************************************************************************)
EXTENDS RuntimeLog, SequencesExt

CONSTANTS MaxInterrupts,   \* BOLUN_MAX_INTERRUPTS
          CountModulus,    \* 2^64, the width of handled_count
          Irqs,            \* the interrupt numbers the clients use
          MaxHalDevices,   \* BOLUN_MAX_HAL_DEVICES
          DeviceClasses,   \* the device classes a profile registers, "LTE" among them
          Codenames        \* the code names the clients ask a profile for

ASSUME DevicesAssumption ==
  /\ MaxInterrupts \in Nat \ {0}
  /\ CountModulus \in Nat /\ CountModulus >= 2
  /\ MaxHalDevices \in Nat \ {0}
  /\ IsFiniteSet(DeviceClasses) /\ "LTE" \in DeviceClasses
  /\ 2 * Cardinality(DeviceClasses) <= MaxHalDevices   \* 36 of 96

VARIABLES interrupts,    \* runtime->interrupts[0 .. interrupt_count-1]
          hal_devices    \* runtime->hal_devices[0 .. hal_device_count-1]

deviceVars == <<interrupts, hal_devices>>

Interrupt == [irq : Irqs, handled_count : 0..CountModulus - 1, enabled : BOOLEAN]

-----------------------------------------------------------------------------
InterruptSlots(irq) == {i \in DOMAIN interrupts : interrupts[i].irq = irq}

\* (mutant) a second registration starts the count again
RenamedReset(interrupt) == [interrupt EXCEPT !.enabled = TRUE, !.handled_count = 0]

\* What registering a known interrupt does besides replacing its name.
Renamed(interrupt) == [interrupt EXCEPT !.enabled = TRUE]

\* bolun_runtime_register_interrupt
RegisterInterrupt(irq) ==
  \/ /\ InterruptSlots(irq) # {}
     /\ interrupts' = [interrupts EXCEPT ![Min(InterruptSlots(irq))] = Renamed(@)]
     /\ Succeed
  \/ /\ InterruptSlots(irq) = {}
     /\ Len(interrupts) >= MaxInterrupts
     /\ FailWith("FULL")
     /\ UNCHANGED interrupts
  \/ /\ InterruptSlots(irq) = {}
     /\ Len(interrupts) < MaxInterrupts
     /\ interrupts' = Append(interrupts, [irq |-> irq, handled_count |-> 0, enabled |-> TRUE])
     /\ Succeed

EnabledSlots(irq) == {i \in InterruptSlots(irq) : interrupts[i].enabled}

\* bolun_runtime_raise_interrupt, which logs the interrupt it has counted
RaiseInterrupt(irq) ==
  \/ /\ EnabledSlots(irq) # {}
     /\ interrupts' = [interrupts EXCEPT
          ![Min(EnabledSlots(irq))].handled_count = (@ + 1) % CountModulus]
     /\ AppendLog
     /\ Succeed
  \/ /\ EnabledSlots(irq) = {}
     /\ FailWith("NOT_FOUND")
     /\ UNCHANGED <<interrupts, logVars>>

-----------------------------------------------------------------------------
(***************************************************************************)
(* A profile registers one device of each class.  Lumia 710 names its       *)
(* devices and drivers differently from all the others, which differ only   *)
(* in whether their modem is present.  A code name the table does not know  *)
(* stands for lumia-950.                                                    *)
(***************************************************************************)
WithoutLte == {"lumia-710", "lumia-520", "lumia-525", "lumia-530", "lumia-535", "lumia-630"}

Family(codename) == IF codename = "lumia-710" THEN "lumia710" ELSE "lumia"

HalDevice ==
  [device_class : DeviceClasses, device_id : {"lumia710", "lumia"} \X DeviceClasses,
   driver : {"lumia710", "lumia", "client"}, present : BOOLEAN, powered : BOOLEAN]

ProfileDevice(codename, class) ==
  LET available == class # "LTE" \/ codename \notin WithoutLte
  IN  [device_class |-> class, device_id |-> <<Family(codename), class>>,
       driver |-> Family(codename), present |-> available, powered |-> available]

SameDevice(device, other) ==
  /\ device.device_class = other.device_class
  /\ device.device_id = other.device_id

\* (mutant) only the newest device is compared
KnownNewest(devices, device) ==
  {d \in DOMAIN devices : d = Len(devices) /\ SameDevice(devices[d], device)}

Known(devices, device) == {d \in DOMAIN devices : SameDevice(devices[d], device)}

\* (mutant) a known device is left as it was
RegisteredOnce(devices, device) ==
  IF Known(devices, device) = {} /\ Len(devices) < MaxHalDevices
    THEN Append(devices, device) ELSE devices

\* (mutant) the capacity of the registry is not checked
RegisteredUnbounded(devices, device) ==
  IF Known(devices, device) # {}
    THEN [devices EXCEPT ![Min(Known(devices, device))] = device]
    ELSE Append(devices, device)

\* (mutant) a known device is taken out and registered anew
RegisteredAnew(devices, device) ==
  IF Known(devices, device) # {}
    THEN Append(RemoveAt(devices, Min(Known(devices, device))), device)
  ELSE IF Len(devices) < MaxHalDevices THEN Append(devices, device)
  ELSE devices

\* (mutant) a full registry does not even take a known device
RegisteredWithRoom(devices, device) ==
  IF Len(devices) >= MaxHalDevices THEN devices
  ELSE IF Known(devices, device) # {}
    THEN [devices EXCEPT ![Min(Known(devices, device))] = device]
  ELSE Append(devices, device)

\* The table bolun_runtime_hal_register leaves: a known device is replaced.
Registered(devices, device) ==
  IF Known(devices, device) # {}
    THEN [devices EXCEPT ![Min(Known(devices, device))] = device]
  ELSE IF Len(devices) < MaxHalDevices THEN Append(devices, device)
  ELSE devices

HalRegister(device) ==
  /\ hal_devices' = Registered(hal_devices, device)
  /\ IF Known(hal_devices, device) # {} \/ Len(hal_devices) < MaxHalDevices
       THEN Succeed ELSE FailWith("FULL")

\* The classes of a profile, in the order it registers them.
ClassSeq == SetToSeq(DeviceClasses)

\* The table after each of the calls of register_device, whose results are ignored.
ProfileTables(devices, codename) ==
  LET table[n \in 0..Len(ClassSeq)] ==
        IF n = 0 THEN devices
        ELSE Registered(table[n - 1], ProfileDevice(codename, ClassSeq[n]))
  IN  table

WithProfile(devices, codename) == ProfileTables(devices, codename)[Len(ClassSeq)]

\* bolun_runtime_install_lumia_hal.  Devices of another profile stay.
InstallLumiaHal(codename) ==
  /\ hal_devices' = WithProfile(hal_devices, codename)
  /\ AppendLog
  /\ Succeed

\* The devices bolun_runtime_hal_write would hand a payload to, and the one whose
\* driver answers: the first of them.
Answering(class) ==
  {d \in DOMAIN hal_devices : /\ hal_devices[d].device_class = class
                              /\ hal_devices[d].present
                              /\ hal_devices[d].powered}

Answerer(class) == hal_devices[Min(Answering(class))]

HalWrite(class) ==
  /\ IF Answering(class) = {} THEN FailWith("NOT_FOUND") ELSE Succeed
  /\ UNCHANGED hal_devices

DevicesInit(codename) ==
  /\ interrupts = <<>>
  /\ hal_devices = WithProfile(<<>>, codename)

DevicesTypeOK ==
  /\ interrupts \in Seq(Interrupt)
  /\ Len(interrupts) <= MaxInterrupts
  /\ hal_devices \in Seq(HalDevice)
  /\ Len(hal_devices) <= MaxHalDevices
=============================================================================
