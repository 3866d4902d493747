---------------------------- MODULE ResourceLimits ----------------------------
(***************************************************************************)
(* The limits of an instance from the flags of its launcher to LXD         *)
(* (lxd/client.go, ValidateResourceLimit and ApplyResourceLimit; util.go,  *)
(* MergeConfigs), over any number of launches of one instance.             *)
(*                                                                         *)
(* The launcher reads the instance, merges its limits into what it read    *)
(* and writes all of it back; LXD refuses the write if the instance has    *)
(* changed since (its ETag).  Another client of LXD, such as a user of     *)
(* `lxc config`, edits the same instance, starts, stops and deletes it.    *)
(*                                                                         *)
(* A value is a number and the unit behind it, which is a sequence of      *)
(* texts, <<"M", "bit">> for `Mbit`: the code puts bases behind prefixes.  *)
(* Text that the code only compares and copies is a unit of its own.       *)
(* Cores are counted in thousandths.                                       *)
(* Removal and start of the instance are steps of module Instances, which  *)
(* has what may happen between their requests; they are one step here.     *)
(***************************************************************************)
EXTENDS Integers, Sequences

CONSTANTS
  Texts,           \* what units are made of
  Requests,        \* flags of launches
  Profile,         \* the devices that the instance has from its profiles
  EditedConfig,    \* keys the other client sets
  EditedDevices    \* pairs of a device and an option the other client sets

Word(text) == [num |-> 0, unit |-> <<text>>]
NoValue == Word("none")
Given(v) == v # NoValue
One == [num |-> 1, unit |-> <<>>]
Edited == Word("edited")

(* Options: functions from their names to values. *)
NoOptions == <<>>
Only(o, v) == [x \in {o} |-> v]
Option(given, options) == IF given THEN options ELSE NoOptions
Over(new, old) ==
  [o \in DOMAIN new \union DOMAIN old |-> IF o \in DOMAIN new THEN new[o] ELSE old[o]]

-----------------------------------------------------------------------------
(* ValidateResourceLimit: what is accepted, and what becomes of it. *)

RatePrefixes == {<<"k">>, <<"M">>, <<"G">>, <<"T">>}
RateUnits == {<<"k", "bit">>, <<"M", "bit">>, <<"G", "bit">>, <<"T", "bit">>}
SizePrefixes == {<<"Mi">>, <<"Gi">>, <<"Ti">>}
SizeUnits == {<<prefix, "B">> : prefix \in {"M", "G", "T", "Mi", "Gi", "Ti"}}

With(v, base) == [v EXCEPT !.unit = Append(@, base)]

EgressKnown(e) == e.unit \in RateUnits \union RatePrefixes
EgressRate(e) == IF e.unit \in RateUnits THEN e ELSE With(e, "bit")

(* Where the egress limit is looked at, the ingress limit is meant. *)
IngressAsIs(e, i) == e.unit = <<"k", "bit">> \/ i.unit \in RateUnits \ {<<"k", "bit">>}
IngressPrefixed(e, i) == e.unit = <<"k">> \/ i.unit \in RatePrefixes \ {<<"k">>}
IngressKnown(e, i) == IngressAsIs(e, i) \/ IngressPrefixed(e, i)
IngressRate(e, i) == IF IngressAsIs(e, i) THEN i ELSE With(i, "bit")

(* The size of the root device and of the memory. *)
SizeKnown(s) == s.unit \in SizeUnits \union SizePrefixes
Size(s) == IF s.unit \in SizeUnits THEN s ELSE With(s, "B")

(* Mutant of Percent: thousandths are taken for hundredths. *)
PercentOfHundredths(milli) == milli

(* `%0.0f%%`: to the nearest percent, and from the middle to the even one. *)
(* Two of the products float64(core)*100 that should lie in the middle do  *)
(* not: 54.50000000000001 and 57.49999999999999.                           *)
RoundsUp(milli) ==
  \/ milli % 10 > 5
  \/ milli % 10 = 5 /\ (milli \div 10) % 2 = 1 /\ milli # 575
  \/ milli = 545

Percent(milli) == milli \div 10 + (IF RoundsUp(milli) THEN 1 ELSE 0)

CpuKnown(c) == c.unit = <<"%">> \/ (c.unit = <<"core">> /\ c.num > 0)

Cpu(c) ==
  IF c.unit = <<"core">> /\ c.num >= 1000
    THEN Only("limits.cpu", [num |-> c.num \div 1000, unit |-> <<>>])
    ELSE Over(Only("limits.cpu", One),
              Only("limits.cpu.allowance",
                   IF c.unit = <<"%">> THEN c ELSE [num |-> Percent(c.num), unit |-> <<"%">>]))

Valid(f) ==
  /\ Given(f.egress) => EgressKnown(f.egress)
  /\ Given(f.ingress) => IngressKnown(f.egress, f.ingress)
  /\ Given(f.root) => SizeKnown(f.root)
  /\ Given(f.memory) => SizeKnown(f.memory)
  /\ Given(f.cpu) => CpuKnown(f.cpu)

(* Additional pairs come last and replace what was computed before. *)
Configs(f) ==
  Over(f.additional,
       Over(Option(f.container, Only("limits.processes", f.processes)),
            Over(Option(Given(f.cpu), Cpu(f.cpu)),
                 Option(Given(f.memory), Only("limits.memory", Size(f.memory))))))

NicOptions(f) ==
  Over(Option(Given(f.egress), Only("limits.egress", EgressRate(f.egress))),
       Option(Given(f.ingress), Only("limits.ingress", IngressRate(f.egress, f.ingress))))

(* The pool and the path go with the type. *)
RootOptions(f) ==
  Option(Given(f.root), Over(Only("size", Size(f.root)), Only("type", Word("disk"))))

DeviceLimits(f) == Over(Only("root", RootOptions(f)), Only(f.device, NicOptions(f)))

-----------------------------------------------------------------------------
(* util.go *)

(* Mutant of MergeConfigs: what is there already wins. *)
MergeConfigsOldFirst(old, new) == Over(old, new)

MergeConfigs(old, new) == Over(new, old)

MergeDeviceConfigs(old, new) ==
  [d \in DOMAIN old \union DOMAIN new |->
     MergeConfigs(IF d \in DOMAIN old THEN old[d] ELSE NoOptions,
                  IF d \in DOMAIN new THEN new[d] ELSE NoOptions)]

-----------------------------------------------------------------------------
VARIABLES
  status,    \* LXD: "absent", "stopped" or "running"
  config,    \* LXD: the configuration of the instance
  devices,   \* LXD: the instance's own devices
  pc,        \* where the launcher is
  flags,     \* its flags
  seen       \* what it has read from LXD

vars == <<status, config, devices, pc, flags, seen>>

Unread == [status |-> "absent", config |-> NoOptions, devices |-> NoOptions]

IsText(v) == v \in [num : Int, unit : Seq(Texts)]
AreTexts(options) == \A o \in DOMAIN options : IsText(options[o])

(* What flags and profiles say.  Of a percentage among them the code looks *)
(* at the sign alone.                                                      *)
Values(options) == {options[o] : o \in DOMAIN options}

AsGiven(v) ==
  \/ \E f \in Requests :
       v \in {f.ingress, f.cpu, f.processes} \union Values(f.additional) \union Values(f.envs)
  \/ \E d \in DOMAIN Profile : v \in Values(Profile[d])

(* A percentage that the code has computed is one of a whole. *)
IsValue(v) ==
  /\ IsText(v)
  /\ v.unit = <<"%">> => v.num \in 0..100 \/ AsGiven(v)

Sane(options) == \A o \in DOMAIN options : IsValue(options[o])

ASSUME TextsAssumption == {"none", "edited", "disk", "bit", "B", "%"} \subseteq Texts
ASSUME RequestsAssumption ==
  \A f \in Requests :
    /\ IsText(f.egress) /\ IsText(f.ingress) /\ IsText(f.root)
    /\ IsText(f.memory) /\ IsText(f.cpu) /\ IsText(f.processes)
    /\ AreTexts(f.additional) /\ AreTexts(f.envs)
ASSUME ProfileAssumption == \A d \in DOMAIN Profile : AreTexts(Profile[d])

Keys == EditedConfig \union UNION {DOMAIN Configs(f) \union DOMAIN f.envs : f \in Requests}

TypeOK ==
  /\ status \in {"absent", "stopped", "running"}
  /\ DOMAIN config \subseteq Keys /\ Sane(config)
  /\ \A d \in DOMAIN devices : Sane(devices[d])
  /\ status = "absent" => config = NoOptions /\ devices = NoOptions
  /\ pc \in {"off", "check", "remove", "create", "launch", "status", "read", "update",
             "start", "serve"}
  /\ flags \in Requests
  /\ DOMAIN seen = {"status", "config", "devices"}

Init ==
  /\ status = "absent" /\ config = NoOptions /\ devices = NoOptions
  /\ pc = "off"
  /\ flags \in Requests
  /\ seen = Unread

lxd == <<status, config, devices>>
Go(to) == pc' = to /\ UNCHANGED <<flags, seen>>
Gone == status' = "absent" /\ config' = NoOptions /\ devices' = NoOptions

-----------------------------------------------------------------------------
(* A launcher. *)

Boot(f) ==
  /\ pc = "off"
  /\ Valid(f)
  /\ pc' = "check" /\ flags' = f /\ seen' = Unread
  /\ UNCHANGED lxd

(* A request to LXD fails or is refused, or the process is killed. *)
GiveUp == pc # "off" /\ Go("off") /\ UNCHANGED lxd

CheckInstanceExists ==
  /\ pc = "check"
  /\ Go(IF status # "absent" /\ flags.remove THEN "remove" ELSE "create")
  /\ UNCHANGED lxd

(* Mutant of Remove: the instance is stopped and no more. *)
RemoveStopsOnly ==
  /\ pc = "remove"
  /\ status' = "stopped" /\ UNCHANGED <<config, devices>>
  /\ Go("create")

Remove ==
  /\ pc = "remove"
  /\ \/ Gone /\ Go("create")
     \/ status # "absent" /\ status' = "stopped" /\ UNCHANGED <<config, devices>> /\ Go("off")

(* LXD takes no device without a type. *)
Accepts(ds) == \A d \in DOMAIN ds : "type" \in DOMAIN ds[d]

CreateInstance ==
  /\ pc = "create"
  /\ IF status # "absent" THEN UNCHANGED lxd
     ELSE /\ Accepts(Only("root", RootOptions(flags)))
          /\ status' = "stopped"
          /\ config' = NoOptions
          /\ devices' = Only("root", RootOptions(flags))
  /\ Go("launch")

(* LaunchInstance stops an instance that runs. *)
StopFirst ==
  /\ pc = "launch"
  /\ status # "absent"
  /\ status' = "stopped" /\ UNCHANGED <<config, devices>>
  /\ Go("status")

(* It reads the status again, and after that ApplyResourceLimit the whole. *)
GetStatus ==
  /\ pc = "status"
  /\ status # "absent"
  /\ pc' = "read" /\ seen' = [Unread EXCEPT !.status = status]
  /\ UNCHANGED <<lxd, flags>>

GetInstance ==
  /\ pc = "read"
  /\ status # "absent"
  /\ pc' = "update"
  /\ seen' = [seen EXCEPT !.config = config, !.devices = devices]
  /\ UNCHANGED <<lxd, flags>>

(* Mutant of Unchanged: the ETag is not sent. *)
UnchangedOrNot == TRUE

(* If-Match: the ETag is a hash of what it stands for. *)
Unchanged == seen.config = config /\ seen.devices = devices

Expanded(ds) == Over(ds, Profile)

AskedConfig(f) == Over(f.envs, Configs(f))

(* An environment variable without a value makes the process panic. *)
ApplyResourceLimit ==
  /\ pc = "update"
  /\ status # "absent"
  /\ flags.envsGiven
  /\ Unchanged
  /\ config' = MergeConfigs(seen.config, AskedConfig(flags))
  /\ devices' = MergeDeviceConfigs(Expanded(seen.devices), DeviceLimits(flags))
  /\ Accepts(devices')
  /\ Go("start")
  /\ UNCHANGED status

(* Start, if the instance was stopped when its status was read. *)
StartInstance ==
  /\ pc = "start"
  /\ IF seen.status = "stopped"
       THEN status = "stopped" /\ status' = "running"
       ELSE status # "absent" /\ UNCHANGED status
  /\ UNCHANGED <<config, devices>>
  /\ Go("serve")

(* CleanupLaunch. *)
Cleanup == pc = "serve" /\ Gone /\ Go("off")

-----------------------------------------------------------------------------
(* The other client. *)

EditConfig(k) ==
  /\ status # "absent"
  /\ config' = Over(Only(k, Edited), config)
  /\ UNCHANGED <<status, devices, pc, flags, seen>>

EditDevice(d, o) ==
  /\ status # "absent"
  /\ d \in DOMAIN devices
  /\ devices' = Over(Only(d, Over(Only(o, Edited), devices[d])), devices)
  /\ UNCHANGED <<status, config, pc, flags, seen>>

StartOrStop ==
  /\ status # "absent"
  /\ status' \in {"stopped", "running"}
  /\ UNCHANGED <<config, devices, pc, flags, seen>>

Delete ==
  /\ status = "stopped"
  /\ Gone
  /\ UNCHANGED <<pc, flags, seen>>

-----------------------------------------------------------------------------
Launcher ==
  \/ \E f \in Requests : Boot(f)
  \/ GiveUp \/ CheckInstanceExists \/ Remove \/ CreateInstance \/ StopFirst \/ GetStatus
  \/ GetInstance \/ ApplyResourceLimit \/ StartInstance \/ Cleanup

OtherClient ==
  \/ \E k \in EditedConfig : EditConfig(k)
  \/ \E e \in EditedDevices : EditDevice(e[1], e[2])
  \/ StartOrStop \/ Delete

Next == Launcher \/ OtherClient

Spec == Init /\ [][Next]_vars

-----------------------------------------------------------------------------
(* An instance is started, and served, with every limit of the launch that *)
(* starts it, whatever it had before: only another client may have changed *)
(* one since (client.go, LaunchInstance and ApplyResourceLimit).           *)
InForce ==
  pc \in {"start", "serve"} /\ status # "absent" =>
    /\ \A o \in DOMAIN AskedConfig(flags) :
         o \in DOMAIN config /\ config[o] \in {AskedConfig(flags)[o], Edited}
    /\ \A d \in DOMAIN DeviceLimits(flags) : \A o \in DOMAIN DeviceLimits(flags)[d] :
         /\ d \in DOMAIN devices /\ o \in DOMAIN devices[d]
         /\ devices[d][o] \in {DeviceLimits(flags)[d][o], Edited}

Has(options, o, v) == o \in DOMAIN options /\ options[o] = v
DeviceHas(ds, d, o, v) == d \in DOMAIN ds /\ Has(ds[d], o, v)
AsksOfDevice(f, d, o) == d \in DOMAIN DeviceLimits(f) /\ o \in DOMAIN DeviceLimits(f)[d]

(* What another client has set stays set until it is asked to be something *)
(* else or the instance is deleted: a launcher that has read the instance  *)
(* before writes nothing back over it (client.go, ApplyResourceLimit, the  *)
(* ETag of UpdateInstance).                                                *)
KeepsEdits ==
  [][status # "absent" /\ status' # "absent" =>
       /\ \A o \in DOMAIN config \ DOMAIN AskedConfig(flags) :
            config[o] = Edited => Has(config', o, Edited)
       /\ \A d \in DOMAIN devices : \A o \in DOMAIN devices[d] :
            devices[d][o] = Edited /\ ~AsksOfDevice(flags, d, o) =>
              DeviceHas(devices', d, o, Edited)]_vars

(* A launch that is to remove an existing instance owes nothing to the     *)
(* launches before it: each option of what it starts, and of each of its   *)
(* devices, is its own, or of the profiles, or of another client           *)
(* (launch.go, validateLaunch).                                            *)
NoLeftovers ==
  pc = "serve" /\ status # "absent" /\ flags.remove =>
    /\ \A o \in DOMAIN config :
         config[o] = Edited \/ Has(AskedConfig(flags), o, config[o])
    /\ \A d \in DOMAIN devices :
         /\ d \in DOMAIN Profile \union DOMAIN DeviceLimits(flags)
         /\ \A o \in DOMAIN devices[d] :
              \/ devices[d][o] = Edited
              \/ DeviceHas(DeviceLimits(flags), d, o, devices[d][o])
              \/ DeviceHas(Profile, d, o, devices[d][o])
=============================================================================
