------------------------- MODULE ResourceLimitsProofs -------------------------
(***************************************************************************)
(* Proofs about ResourceLimits, for every set of requests and profiles and *)
(* everything the other client may edit.                                   *)
(***************************************************************************)
EXTENDS ResourceLimits, SequenceTheorems, TLAPS

-----------------------------------------------------------------------------
(* The calculations. *)

(* What is asked for wins. *)
LEMMA MergeGives ==
  ASSUME NEW old, NEW new, NEW o \in DOMAIN new
  PROVE  o \in DOMAIN MergeConfigs(old, new) /\ MergeConfigs(old, new)[o] = new[o]
BY DEF MergeConfigs, Over

(* The rest stays as it was. *)
LEMMA MergeKeeps ==
  ASSUME NEW old, NEW new, NEW o \in DOMAIN old, o \notin DOMAIN new
  PROVE  o \in DOMAIN MergeConfigs(old, new) /\ MergeConfigs(old, new)[o] = old[o]
BY DEF MergeConfigs, Over

(* A share of a core that is accepted becomes the percentage next to it;   *)
(* it is nothing at all for up to five thousandths, which are still greater*)
(* than 0, and the whole core from 995 on (client.go, ValidateResourceLimit*)
(* : `cpu core must be greater than 0`, and `%0.0f%%`).                    *)
THEOREM PercentOfShare ==
  ASSUME NEW milli \in 1..999
  PROVE  /\ Percent(milli) \in 0..100
         /\ 10 * Percent(milli) - milli \in -5..5
         /\ Percent(milli) = 0 <=> milli <= 5
         /\ Percent(milli) = 100 <=> milli >= 995
BY DEF Percent, RoundsUp

Rate == [num : Int, unit : {<<>>, <<"none">>} \union RateUnits \union RatePrefixes]
Kilo == {<<"k">>, <<"k", "bit">>}

(* The ingress limit is accepted and written like the egress limit, unless *)
(* one of the two is in kbit or k (client.go, ValidateResourceLimit).      *)
THEOREM IngressLikeEgress ==
  ASSUME NEW e \in Rate, NEW i \in Rate,
         e.unit \notin Kilo, i.unit \notin Kilo
  PROVE  /\ IngressKnown(e, i) <=> EgressKnown(i)
         /\ IngressKnown(e, i) => IngressRate(e, i) = EgressRate(i)
BY DEF Kilo, Rate, IngressKnown, EgressKnown, IngressRate, EgressRate, IngressAsIs,
       IngressPrefixed, RateUnits, RatePrefixes

(* A prefix is no unit. *)
LEMMA UnitsDiffer == \A a, b, base : <<a>> # <<b, base>>
<1> SUFFICES ASSUME NEW a, NEW b, NEW base PROVE <<a>> # <<b, base>>
  OBVIOUS
<1>1. Len(<<a>>) = 1 /\ Len(<<b, base>>) = 2
  OBVIOUS
<1> QED
  BY <1>1

(* With an egress limit in kbit every ingress limit is accepted as it is,  *)
(* and without one in k or kbit none in k or kbit is (client.go, the two   *)
(* conditions on egressLimit among those on ingressLimit).                 *)
THEOREM IngressUnderKilo ==
  ASSUME NEW e \in Rate, NEW i \in Rate
  PROVE  /\ e.unit = <<"k", "bit">> => IngressKnown(e, i) /\ IngressRate(e, i) = i
         /\ e.unit \notin Kilo /\ i.unit \in Kilo => ~IngressKnown(e, i)
<1>1. e.unit = <<"k", "bit">> => IngressKnown(e, i) /\ IngressRate(e, i) = i
  BY DEF IngressKnown, IngressRate, IngressAsIs
<1>2. ASSUME e.unit \notin Kilo, i.unit \in Kilo PROVE ~IngressKnown(e, i)
  <2>1. i.unit \notin RateUnits \ {<<"k", "bit">>} /\ i.unit \notin RatePrefixes \ {<<"k">>}
    BY <1>2, UnitsDiffer DEF Kilo, RateUnits, RatePrefixes
  <2> QED
    BY <1>2, <2>1 DEF Kilo, IngressKnown, IngressAsIs, IngressPrefixed
<1> QED
  BY <1>1, <1>2

-----------------------------------------------------------------------------
(* Types.  What is written is sane because it is what was given, or the    *)
(* flags have been validated: a share of a processor that was not would    *)
(* have no percentage.                                                     *)

(* The ways in which options are put together. *)
LEMMA OnlySane == ASSUME NEW o, NEW v, IsValue(v) PROVE Sane(Only(o, v))
BY DEF Only, Sane

LEMMA NothingSane == Sane(NoOptions)
BY DEF NoOptions, Sane

(* What flags and profiles give. *)
LEMMA GivenSane ==
  ASSUME NEW options, AreTexts(options), \A v \in Values(options) : AsGiven(v)
  PROVE  Sane(options)
BY DEF AreTexts, Values, Sane, IsValue

LEMMA OptionSane ==
  ASSUME NEW given \in BOOLEAN, NEW options, given => Sane(options)
  PROVE  Sane(Option(given, options))
BY NothingSane DEF Option

LEMMA OverSane ==
  ASSUME NEW new, NEW old, Sane(new), Sane(old)
  PROVE  Sane(Over(new, old))
BY DEF Over, Sane

(* The values that are no flags. *)
LEMMA EditedSane == IsValue(Edited) /\ IsValue(One) /\ IsValue(Word("disk"))
<1>1. /\ <<"edited">> \in Seq(Texts) /\ <<"disk">> \in Seq(Texts)
      /\ <<"edited">> # <<"%">> /\ <<"disk">> # <<"%">> /\ <<>> # <<"%">>
  BY TextsAssumption
<1> QED
  BY <1>1 DEF Edited, One, Word, IsValue, IsText

(* A prefix gets its base. *)
LEMMA WithValue ==
  ASSUME NEW v, IsText(v), NEW base \in {"bit", "B"}
  PROVE  IsValue(With(v, base))
<1>1. v.unit \in Seq(Texts) /\ base \in Texts
  BY TextsAssumption DEF IsText
<1>2. Append(v.unit, base) \in Seq(Texts)
  BY <1>1
<1>3. Append(v.unit, base) # <<"%">>
  <2> SUFFICES ASSUME Append(v.unit, base) = <<"%">> PROVE FALSE
    OBVIOUS
  <2>1. Len(Append(v.unit, base)) = Len(v.unit) + 1 /\ Append(v.unit, base)[Len(v.unit) + 1] = base
    BY <1>1, AppendProperties
  <2>2. Len(<<"%">>) = 1 /\ <<"%">>[1] = "%"
    OBVIOUS
  <2>3. Len(v.unit) \in Nat
    BY <1>1
  <2>4. Len(v.unit) + 1 = 1
    BY <2>1, <2>2
  <2>5. base = "%"
    BY <2>1, <2>2, <2>4
  <2> QED
    BY <2>5
<1>4. With(v, base) = [v EXCEPT !.unit = Append(v.unit, base)]
  BY DEF With
<1> QED
  BY <1>2, <1>3, <1>4 DEF IsValue, IsText

(* A percentage as it is written. *)
LEMMA HundredAtMost ==
  ASSUME NEW n \in 0..100, NEW unit \in Seq(Texts)
  PROVE  IsValue([num |-> n, unit |-> unit])
BY DEF IsValue, IsText

(* A share is less than a whole core, for only that many are validated. *)
LEMMA CpuSane ==
  ASSUME NEW f \in Requests, CpuKnown(f.cpu)
  PROVE  Sane(Cpu(f.cpu))
<1> DEFINE c == f.cpu
<1>0. IsText(c) /\ AsGiven(c) /\ CpuKnown(c)
  BY RequestsAssumption DEF AsGiven
<1> HIDE DEF c
<1>1. CASE c.unit = <<"core">> /\ c.num >= 1000
  <2>1. IsValue([num |-> c.num \div 1000, unit |-> <<>>])
    <3>1. c.num \in Int /\ <<>> # <<"%">> /\ <<>> \in Seq(Texts)
      BY <1>0 DEF IsText
    <3>2. c.num \div 1000 \in Int
      BY <3>1
    <3> QED
      BY <3>1, <3>2 DEF IsValue, IsText
  <2>2. Sane(Cpu(c))
    BY <1>1, <2>1, OnlySane DEF Cpu
  <2> QED
    BY <2>2 DEF c
<1>2. CASE ~(c.unit = <<"core">> /\ c.num >= 1000)
  <2> DEFINE share == IF c.unit = <<"%">> THEN c ELSE [num |-> Percent(c.num), unit |-> <<"%">>]
  <2>1. IsValue(share)
    <3>1. CASE c.unit = <<"%">>
      BY <1>0, <3>1 DEF IsValue
    <3>2. CASE c.unit # <<"%">>
      <4>1. c.num \in 1..999
        <5>1. c.num \in Int
          BY <1>0 DEF IsText
        <5>2. c.unit = <<"core">> /\ c.num > 0 /\ ~(c.num >= 1000)
          BY <1>0, <1>2, <3>2 DEF CpuKnown
        <5> QED
          BY <5>1, <5>2
      <4>2. Percent(c.num) \in 0..100
        BY <4>1, PercentOfShare
      <4>3. <<"%">> \in Seq(Texts)
        BY TextsAssumption
      <4>4. IsValue([num |-> Percent(c.num), unit |-> <<"%">>])
        BY <4>2, <4>3, HundredAtMost
      <4> QED
        BY <3>2, <4>4 DEF share
    <3> QED
      BY <3>1, <3>2
  <2> HIDE DEF share
  <2>2. Sane(Over(Only("limits.cpu", One), Only("limits.cpu.allowance", share)))
    BY <2>1, EditedSane, OnlySane, OverSane
  <2>3. Sane(Cpu(c))
    BY <1>2, <2>2 DEF Cpu, share
  <2> QED
    BY <2>3 DEF c
<1> QED
  BY <1>1, <1>2

(* Sizes are known, and get their base. *)
LEMMA SizeValue ==
  ASSUME NEW s, IsText(s)
  PROVE  IsValue(Size(s))
<1>1. CASE s.unit \in SizeUnits
  <2>1. s.unit # <<"%">>
    BY <1>1, UnitsDiffer DEF SizeUnits
  <2> QED
    BY <1>1, <2>1 DEF Size, IsValue
<1> QED
  BY <1>1, WithValue DEF Size

(* What a launch asks for. *)
LEMMA AskedSane ==
  ASSUME NEW f \in Requests, Valid(f)
  PROVE  Sane(AskedConfig(f)) /\ DOMAIN AskedConfig(f) \subseteq Keys
<1>1. IsText(f.memory) /\ IsValue(f.processes) /\ Sane(f.additional) /\ Sane(f.envs)
  BY RequestsAssumption, GivenSane DEF AsGiven, IsValue
<1> DEFINE memory == Option(Given(f.memory), Only("limits.memory", Size(f.memory)))
           cpu == Option(Given(f.cpu), Cpu(f.cpu))
           processes == Option(f.container, Only("limits.processes", f.processes))
<1>2. Sane(memory)
  <2>1. IsValue(Size(f.memory))
    BY <1>1, SizeValue
  <2> QED
    BY <2>1, OnlySane, OptionSane DEF Given
<1>3. Sane(cpu)
  BY CpuSane, OptionSane DEF Valid, Given
<1>4. Sane(processes)
  BY <1>1, OnlySane, NothingSane DEF Option
<1> HIDE DEF memory, cpu, processes
<1>5. Sane(Over(processes, Over(cpu, memory)))
  BY <1>2, <1>3, <1>4, OverSane
<1>6. Sane(Configs(f))
  BY <1>1, <1>5, OverSane DEF Configs, memory, cpu, processes
<1>7. DOMAIN AskedConfig(f) = DOMAIN f.envs \union DOMAIN Configs(f)
  BY DEF AskedConfig, Over
<1> QED
  BY <1>1, <1>6, <1>7, OverSane DEF AskedConfig, Keys

(* The options of the root device, and of all devices. *)
LEMMA RootSane ==
  ASSUME NEW f \in Requests
  PROVE  Sane(RootOptions(f))
<1>1. IsValue(Size(f.root))
  BY RequestsAssumption, SizeValue
<1>2. Sane(Over(Only("size", Size(f.root)), Only("type", Word("disk"))))
  BY <1>1, EditedSane, OnlySane, OverSane
<1> QED
  BY <1>2, OptionSane DEF RootOptions, Given

LEMMA DevicesSane ==
  ASSUME NEW f \in Requests, NEW d \in DOMAIN DeviceLimits(f)
  PROVE  Sane(DeviceLimits(f)[d])
<1>1. IsValue(EgressRate(f.egress)) /\ IsValue(IngressRate(f.egress, f.ingress))
  <2>1. IsText(f.egress) /\ IsText(f.ingress) /\ AsGiven(f.ingress)
    BY RequestsAssumption DEF AsGiven
  <2>2. CASE f.egress.unit \in RateUnits
    <3>1. f.egress.unit # <<"%">>
      BY <2>2, UnitsDiffer DEF RateUnits
    <3> QED
      BY <2>1, <2>2, <3>1, WithValue DEF EgressRate, IngressRate, IsValue
  <2>3. CASE f.egress.unit \notin RateUnits
    BY <2>1, <2>3, WithValue DEF EgressRate, IngressRate, IsValue
  <2> QED
    BY <2>2, <2>3
<1> DEFINE egress == Option(Given(f.egress), Only("limits.egress", EgressRate(f.egress)))
           ingress == Option(Given(f.ingress),
                             Only("limits.ingress", IngressRate(f.egress, f.ingress)))
<1>2. Sane(egress) /\ Sane(ingress)
  BY <1>1, OnlySane, OptionSane DEF Given
<1> HIDE DEF egress, ingress
<1>3. Sane(NicOptions(f))
  BY <1>2, OverSane DEF NicOptions, egress, ingress
<1>4. DeviceLimits(f)[d] \in {RootOptions(f), NicOptions(f)}
  BY DEF DeviceLimits, Over, Only
<1> QED
  BY <1>3, <1>4, RootSane

(* What is merged. *)
LEMMA MergedSane ==
  ASSUME NEW old, NEW new,
         \A d \in DOMAIN old : Sane(old[d]),
         \A d \in DOMAIN new : Sane(new[d]),
         NEW d \in DOMAIN MergeDeviceConfigs(old, new)
  PROVE  Sane(MergeDeviceConfigs(old, new)[d])
<1> DEFINE before == IF d \in DOMAIN old THEN old[d] ELSE NoOptions
           after == IF d \in DOMAIN new THEN new[d] ELSE NoOptions
<1>1. Sane(before) /\ Sane(after)
  BY NothingSane
<1>2. MergeDeviceConfigs(old, new)[d] = MergeConfigs(before, after)
  BY DEF MergeDeviceConfigs
<1> HIDE DEF before, after
<1> QED
  BY <1>1, <1>2, OverSane DEF MergeConfigs

(* The profiles' options come with the devices that are read. *)
LEMMA ExpandedSane ==
  ASSUME NEW ds, \A d \in DOMAIN ds : Sane(ds[d])
  PROVE  \A d \in DOMAIN Expanded(ds) : Sane(Expanded(ds)[d])
<1>1. ASSUME NEW d \in DOMAIN Profile PROVE Sane(Profile[d])
  BY ProfileAssumption, GivenSane DEF AsGiven
<1> QED
  BY <1>1 DEF Expanded, Over

(* TypeOK rests on the validation. *)
TypeInv == TypeOK /\ (pc # "off" => Valid(flags))

LEMMA TypeStep == TypeInv /\ [Next]_vars => TypeInv'
<1> SUFFICES ASSUME TypeInv, [Next]_vars PROVE TypeInv'
  OBVIOUS
<1> USE DEF TypeInv, lxd, Go, Unread
<1>1. ASSUME NEW f \in Requests, Boot(f) PROVE TypeInv'
  BY <1>1 DEF Boot, TypeOK, Sane
<1>2. CASE \/ GiveUp \/ CheckInstanceExists \/ StopFirst \/ GetStatus \/ GetInstance
           \/ StartInstance \/ StartOrStop \/ UNCHANGED vars
  <2>1. UNCHANGED <<config, devices, flags>>
    BY <1>2
       DEF GiveUp, CheckInstanceExists, StopFirst, GetStatus, GetInstance, StartInstance,
           StartOrStop, vars
  <2>2. /\ status' \in {"absent", "stopped", "running"}
        /\ status' = "absent" => status = "absent"
        /\ pc' \in {"off", "check", "remove", "create", "launch", "status", "read", "update",
                    "start", "serve"}
        /\ pc' # "off" => pc # "off"
        /\ DOMAIN seen' = {"status", "config", "devices"}
    BY <1>2
       DEF GiveUp, CheckInstanceExists, StopFirst, GetStatus, GetInstance, StartInstance,
           StartOrStop, vars, TypeOK
  <2> QED
    BY <2>1, <2>2 DEF TypeOK
<1>3. CASE Remove \/ Cleanup \/ Delete
  BY <1>3, NothingSane DEF Remove, Cleanup, Delete, Gone, TypeOK, NoOptions
<1>4. CASE CreateInstance
  <2>1. \A d \in DOMAIN Only("root", RootOptions(flags)) :
          Sane(Only("root", RootOptions(flags))[d])
    BY RootSane DEF Only, TypeOK
  <2>2. DOMAIN NoOptions \subseteq Keys /\ Sane(NoOptions)
    BY NothingSane DEF NoOptions
  <2> QED
    BY <1>4, <2>1, <2>2 DEF CreateInstance, TypeOK
<1>5. CASE ApplyResourceLimit
  <2>1. Valid(flags) /\ flags \in Requests
    BY <1>5 DEF ApplyResourceLimit, TypeOK
  <2>2. DOMAIN config' \subseteq Keys /\ Sane(config')
    <3>1. config' = Over(AskedConfig(flags), config)
      BY <1>5 DEF ApplyResourceLimit, Unchanged, MergeConfigs
    <3>2. Sane(config')
      BY <2>1, <3>1, AskedSane, OverSane DEF TypeOK
    <3>3. DOMAIN config' = DOMAIN AskedConfig(flags) \union DOMAIN config
      BY <3>1 DEF Over
    <3> QED
      BY <2>1, <3>2, <3>3, AskedSane DEF TypeOK
  <2>3. \A d \in DOMAIN devices' : Sane(devices'[d])
    <3>1. devices' = MergeDeviceConfigs(Expanded(devices), DeviceLimits(flags))
      BY <1>5 DEF ApplyResourceLimit, Unchanged
    <3>2. \A d \in DOMAIN Expanded(devices) : Sane(Expanded(devices)[d])
      BY ExpandedSane DEF TypeOK
    <3>3. \A d \in DOMAIN DeviceLimits(flags) : Sane(DeviceLimits(flags)[d])
      BY <2>1, DevicesSane
    <3> QED
      BY <3>1, <3>2, <3>3, MergedSane
  <2> QED
    BY <1>5, <2>1, <2>2, <2>3 DEF ApplyResourceLimit, TypeOK
<1>6. ASSUME NEW k \in EditedConfig, EditConfig(k) PROVE TypeInv'
  <2>1. Sane(config')
    BY <1>6, EditedSane, OnlySane, OverSane DEF EditConfig, TypeOK
  <2>2. DOMAIN config' = {k} \union DOMAIN config
    BY <1>6 DEF EditConfig, Over, Only
  <2> QED
    BY <1>6, <2>1, <2>2 DEF EditConfig, TypeOK, Keys
<1>7. ASSUME NEW e \in EditedDevices, EditDevice(e[1], e[2]) PROVE TypeInv'
  <2> DEFINE edited == Over(Only(e[2], Edited), devices[e[1]])
  <2>1. Sane(edited)
    BY <1>7, EditedSane, OnlySane, OverSane DEF EditDevice, TypeOK
  <2>2. devices' = Over(Only(e[1], edited), devices)
    BY <1>7 DEF EditDevice
  <2> HIDE DEF edited
  <2>3. \A d \in DOMAIN devices' : Sane(devices'[d])
    BY <2>1, <2>2 DEF Over, Only, TypeOK
  <2> QED
    BY <1>7, <2>3 DEF EditDevice, TypeOK
<1> QED
  BY <1>1, <1>2, <1>3, <1>4, <1>5, <1>6, <1>7 DEF Next, Launcher, OtherClient

(* Whatever is launched and edited, each option of the instance is known   *)
(* and has a value of its kind, and a percentage in it that was not given  *)
(* as one is in 0..100, as only shares of less than one core are written so*)
(* (client.go, ValidateResourceLimit and ApplyResourceLimit).              *)
THEOREM TypeCorrect == Spec => []TypeOK
<1>1. Init => TypeInv
  BY NothingSane DEF Init, TypeInv, TypeOK, Unread, NoOptions
<1>2. TypeInv => TypeOK
  BY DEF TypeInv
<1> QED
  BY <1>1, <1>2, TypeStep, PTL DEF Spec

-----------------------------------------------------------------------------
(* InForce is inductive: it comes about when the limits are written, and   *)
(* only the other client touches an instance that waits for its start or   *)
(* is served.                                                              *)

ConfigInForce(f) ==
  \A o \in DOMAIN AskedConfig(f) :
    o \in DOMAIN config /\ config[o] \in {AskedConfig(f)[o], Edited}

DevicesInForce(f) ==
  \A d \in DOMAIN DeviceLimits(f) : \A o \in DOMAIN DeviceLimits(f)[d] :
    /\ d \in DOMAIN devices /\ o \in DOMAIN devices[d]
    /\ devices[d][o] \in {DeviceLimits(f)[d][o], Edited}

LEMMA Written ==
  ASSUME ApplyResourceLimit
  PROVE  ConfigInForce(flags)' /\ DevicesInForce(flags)'
<1>1. UNCHANGED flags
  BY DEF ApplyResourceLimit, Go
<1>2. ASSUME NEW o \in DOMAIN AskedConfig(flags)
      PROVE  o \in DOMAIN config' /\ config'[o] = AskedConfig(flags)[o]
  BY MergeGives DEF ApplyResourceLimit
<1>3. ASSUME NEW d \in DOMAIN DeviceLimits(flags), NEW o \in DOMAIN DeviceLimits(flags)[d]
      PROVE  /\ d \in DOMAIN devices' /\ o \in DOMAIN devices'[d]
             /\ devices'[d][o] = DeviceLimits(flags)[d][o]
  <2> DEFINE old == Expanded(seen.devices)
             new == DeviceLimits(flags)
             before == IF d \in DOMAIN old THEN old[d] ELSE NoOptions
  <2>1. devices' = MergeDeviceConfigs(old, new)
    BY DEF ApplyResourceLimit
  <2>2. d \in DOMAIN devices' /\ devices'[d] = MergeConfigs(before, new[d])
    BY <2>1 DEF MergeDeviceConfigs
  <2> QED
    BY <2>2, MergeGives
<1>4. ConfigInForce(flags)'
  BY <1>1, <1>2 DEF ConfigInForce, AskedConfig
<1>5. DevicesInForce(flags)'
  BY <1>1, <1>3 DEF DevicesInForce, DeviceLimits
<1> QED
  BY <1>4, <1>5
(* An edit is allowed for. *)
LEMMA EditsAllowed ==
  ASSUME NEW f, OtherClient, ConfigInForce(f), DevicesInForce(f), status' # "absent"
  PROVE  ConfigInForce(f)' /\ DevicesInForce(f)'
<1>1. ASSUME NEW k \in EditedConfig, EditConfig(k)
      PROVE  ConfigInForce(f)' /\ DevicesInForce(f)'
  BY <1>1 DEF EditConfig, Over, Only, ConfigInForce, DevicesInForce
<1>2. ASSUME NEW e \in EditedDevices, EditDevice(e[1], e[2])
      PROVE  ConfigInForce(f)' /\ DevicesInForce(f)'
  <2>1. ConfigInForce(f)'
    BY <1>2 DEF EditDevice, ConfigInForce
  <2>2. devices' = Over(Only(e[1], Over(Only(e[2], Edited), devices[e[1]])), devices)
    BY <1>2 DEF EditDevice
  <2>3. ASSUME NEW d \in DOMAIN devices, NEW o \in DOMAIN devices[d]
        PROVE  /\ d \in DOMAIN devices' /\ o \in DOMAIN devices'[d]
               /\ devices'[d][o] \in {devices[d][o], Edited}
    BY <2>2 DEF Over, Only
  <2>4. DevicesInForce(f)'
    BY <2>3 DEF DevicesInForce
  <2> QED
    BY <2>1, <2>4
<1>3. CASE StartOrStop
  BY <1>3 DEF StartOrStop, ConfigInForce, DevicesInForce
<1>4. CASE Delete
  BY <1>4 DEF Delete, Gone
<1> QED
  BY <1>1, <1>2, <1>3, <1>4 DEF OtherClient

LEMMA InForceStep == InForce /\ [Next]_vars => InForce'
<1> SUFFICES ASSUME InForce, [Next]_vars PROVE InForce'
  OBVIOUS
<1>1. InForce <=> (pc \in {"start", "serve"} /\ status # "absent"
                     => ConfigInForce(flags) /\ DevicesInForce(flags))
  BY DEF InForce, ConfigInForce, DevicesInForce
<1>2. InForce' <=> (pc' \in {"start", "serve"} /\ status' # "absent"
                      => ConfigInForce(flags)' /\ DevicesInForce(flags)')
  BY DEF InForce, ConfigInForce, DevicesInForce
<1> SUFFICES ASSUME pc' \in {"start", "serve"}, status' # "absent"
             PROVE  ConfigInForce(flags)' /\ DevicesInForce(flags)'
  BY <1>2
<1>3. CASE Launcher
  <2>1. CASE ApplyResourceLimit
    BY <2>1, Written
  <2>2. CASE StartInstance
    <3>1. pc = "start" /\ status # "absent" /\ UNCHANGED <<config, devices, flags>>
      BY <2>2 DEF StartInstance, Go
    <3> QED
      BY <1>1, <3>1 DEF ConfigInForce, DevicesInForce
  <2>3. CASE ~ApplyResourceLimit /\ ~StartInstance
    BY <1>3, <2>3
       DEF Launcher, Boot, GiveUp, CheckInstanceExists, Remove, CreateInstance, StopFirst,
           GetStatus, GetInstance, Cleanup, Go
  <2> QED
    BY <2>1, <2>2, <2>3
<1>4. CASE OtherClient
  <2>1. UNCHANGED <<pc, flags>> /\ status # "absent"
    BY <1>4 DEF OtherClient, EditConfig, EditDevice, StartOrStop, Delete
  <2>2. ConfigInForce(flags) /\ DevicesInForce(flags)
    BY <1>1, <2>1
  <2> QED
    BY <1>4, <2>1, <2>2, EditsAllowed DEF ConfigInForce, DevicesInForce
<1>5. CASE UNCHANGED vars
  BY <1>1, <1>5 DEF vars, ConfigInForce, DevicesInForce
<1> QED
  BY <1>3, <1>4, <1>5 DEF Next

(* Whatever is asked for, whatever the profiles hold and whatever another  *)
(* client does meanwhile, an instance is started and served with all the   *)
(* limits of its launch (client.go, LaunchInstance).                       *)
THEOREM InForceHolds == Spec => []InForce
<1>1. Init => InForce
  BY DEF Init, InForce
<1> QED
  BY <1>1, InForceStep, PTL DEF Spec

-----------------------------------------------------------------------------
(* KeepsEdits needs no invariant: what is written is what was read, and    *)
(* what was read is what is there.                                         *)

LEMMA EditsKept ==
  ASSUME [Next]_vars, status # "absent", status' # "absent",
         NEW o \in DOMAIN config, o \notin DOMAIN AskedConfig(flags), config[o] = Edited
  PROVE  Has(config', o, Edited)
<1> USE DEF Has
<1>1. CASE ApplyResourceLimit
  <2>1. config' = MergeConfigs(config, AskedConfig(flags))
    BY <1>1 DEF ApplyResourceLimit, Unchanged
  <2> QED
    BY <2>1, MergeKeeps
<1>2. CASE \E k \in EditedConfig : EditConfig(k)
  BY <1>2 DEF EditConfig, Over, Only
<1>3. CASE UNCHANGED config
  BY <1>3
<1> QED
  BY <1>1, <1>2, <1>3
     DEF Next, vars, lxd, Launcher, OtherClient, Boot, GiveUp, CheckInstanceExists, Remove,
         CreateInstance, StopFirst, GetStatus, GetInstance, StartInstance, Cleanup, Gone,
         EditDevice, StartOrStop, Delete

(* The same of a device, which is also read and written in whole. *)
LEMMA DeviceEditsKept ==
  ASSUME [Next]_vars, status # "absent", status' # "absent",
         NEW d \in DOMAIN devices, NEW o \in DOMAIN devices[d], devices[d][o] = Edited,
         ~AsksOfDevice(flags, d, o)
  PROVE  DeviceHas(devices', d, o, Edited)
<1> USE DEF DeviceHas, Has
<1>1. CASE ApplyResourceLimit
  <2> DEFINE old == Expanded(devices)
             new == DeviceLimits(flags)
             after == IF d \in DOMAIN new THEN new[d] ELSE NoOptions
  <2>1. devices' = MergeDeviceConfigs(old, new)
    BY <1>1 DEF ApplyResourceLimit, Unchanged
  <2>2. d \in DOMAIN old /\ old[d] = devices[d]
    BY DEF Expanded, Over
  <2>3. o \notin DOMAIN after
    BY DEF AsksOfDevice, NoOptions
  <2>4. d \in DOMAIN devices' /\ devices'[d] = MergeConfigs(old[d], after)
    BY <2>1, <2>2 DEF MergeDeviceConfigs
  <2> HIDE DEF old, after
  <2> QED
    BY <2>2, <2>3, <2>4, MergeKeeps
<1>2. ASSUME NEW e \in EditedDevices, EditDevice(e[1], e[2])
      PROVE  DeviceHas(devices', d, o, Edited)
  <2>1. devices' = Over(Only(e[1], Over(Only(e[2], Edited), devices[e[1]])), devices)
    BY <1>2 DEF EditDevice
  <2> QED
    BY <2>1 DEF Over, Only
<1>3. CASE UNCHANGED devices
  BY <1>3
<1> QED
  BY <1>1, <1>2, <1>3
     DEF Next, vars, lxd, Launcher, OtherClient, Boot, GiveUp, CheckInstanceExists, Remove,
         CreateInstance, StopFirst, GetStatus, GetInstance, StartInstance, Cleanup, Gone,
         EditConfig, StartOrStop, Delete

(* No edit of another client is lost to a launcher that had read the       *)
(* instance before it (client.go, ApplyResourceLimit).                     *)
THEOREM KeepsEditsHolds == Spec => KeepsEdits
<1>1. [Next]_vars =>
        [status # "absent" /\ status' # "absent" =>
           /\ \A o \in DOMAIN config \ DOMAIN AskedConfig(flags) :
                config[o] = Edited => Has(config', o, Edited)
           /\ \A d \in DOMAIN devices : \A o \in DOMAIN devices[d] :
                devices[d][o] = Edited /\ ~AsksOfDevice(flags, d, o) =>
                  DeviceHas(devices', d, o, Edited)]_vars
  BY EditsKept, DeviceEditsKept
<1> QED
  BY <1>1, PTL DEF Spec, KeepsEdits

-----------------------------------------------------------------------------
(* NoLeftovers is not inductive: it rests on what the launch has found.    *)

(* Nothing but what another client has set, and what CreateInstance gives. *)
Bare ==
  /\ \A o \in DOMAIN config : config[o] = Edited
  /\ \A d \in DOMAIN devices :
       /\ d = "root"
       /\ \A o \in DOMAIN devices[d] :
            devices[d][o] = Edited \/ Has(RootOptions(flags), o, devices[d][o])

(* Nothing but that, what the launch asks for and what the profiles have. *)
OwnOption(d, o, v) ==
  \/ v = Edited
  \/ DeviceHas(DeviceLimits(flags), d, o, v)
  \/ DeviceHas(Profile, d, o, v)

Own ==
  /\ \A o \in DOMAIN config : config[o] = Edited \/ Has(AskedConfig(flags), o, config[o])
  /\ \A d \in DOMAIN devices :
       /\ d \in DOMAIN Profile \union DOMAIN DeviceLimits(flags)
       /\ \A o \in DOMAIN devices[d] : OwnOption(d, o, devices[d][o])

(* A launch that removes creates its instance anew, bare until the limits  *)
(* are written.                                                            *)
Anew ==
  flags.remove =>
    /\ pc = "create" => status = "absent"
    /\ pc \in {"launch", "status", "read", "update"} /\ status # "absent" => Bare
    /\ pc \in {"start", "serve"} /\ status # "absent" => Own

(* Another client adds options of its own and no device. *)
LEMMA EditsSpare ==
  ASSUME OtherClient, status' # "absent"
  PROVE  /\ UNCHANGED <<pc, flags>> /\ status # "absent"
         /\ \A o \in DOMAIN config' : config'[o] = Edited \/ Has(config, o, config'[o])
         /\ \A d \in DOMAIN devices' :
              /\ d \in DOMAIN devices
              /\ \A o \in DOMAIN devices'[d] :
                   devices'[d][o] = Edited \/ Has(devices[d], o, devices'[d][o])
<1> USE DEF Has
<1>1. ASSUME NEW k \in EditedConfig, EditConfig(k)
      PROVE  \A o \in DOMAIN config' : config'[o] = Edited \/ Has(config, o, config'[o])
  BY <1>1 DEF EditConfig, Over, Only
<1>2. ASSUME NEW e \in EditedDevices, EditDevice(e[1], e[2])
      PROVE  \A d \in DOMAIN devices' :
               /\ d \in DOMAIN devices
               /\ \A o \in DOMAIN devices'[d] :
                    devices'[d][o] = Edited \/ Has(devices[d], o, devices'[d][o])
  BY <1>2 DEF EditDevice, Over, Only
<1>3. UNCHANGED <<pc, flags>> /\ status # "absent"
  BY DEF OtherClient, EditConfig, EditDevice, StartOrStop, Delete
<1> QED
  BY <1>1, <1>2, <1>3 DEF OtherClient, EditConfig, EditDevice, StartOrStop, Delete, Gone

LEMMA WritesOwn ==
  ASSUME ApplyResourceLimit, Bare
  PROVE  Own'
<1>1. seen.config = config /\ seen.devices = devices /\ flags' = flags
  BY DEF ApplyResourceLimit, Unchanged, Go
<1>2. config' = MergeConfigs(config, AskedConfig(flags))
  BY <1>1 DEF ApplyResourceLimit
<1>3. \A o \in DOMAIN config' : config'[o] = Edited \/ Has(AskedConfig(flags), o, config'[o])
  BY <1>2 DEF MergeConfigs, Over, Bare, Has
<1> DEFINE old == Expanded(devices)
           new == DeviceLimits(flags)
<1>4. devices' = MergeDeviceConfigs(old, new)
  BY <1>1 DEF ApplyResourceLimit
<1>5. "root" \in DOMAIN new /\ new["root"] = RootOptions(flags)
  BY DEF DeviceLimits, Over, Only
<1>6. ASSUME NEW d \in DOMAIN old
      PROVE  /\ d \in DOMAIN Profile \union DOMAIN new
             /\ \A o \in DOMAIN old[d] : OwnOption(d, o, old[d][o])
  <2>1. CASE d \in DOMAIN devices
    BY <1>5, <2>1 DEF Expanded, Over, Bare, OwnOption, DeviceHas
  <2>2. CASE d \notin DOMAIN devices
    <3>1. d \in DOMAIN Profile /\ old[d] = Profile[d]
      BY <2>2 DEF Expanded, Over
    <3> QED
      BY <3>1 DEF OwnOption, DeviceHas, Has
  <2> QED
    BY <2>1, <2>2
<1>7. ASSUME NEW d \in DOMAIN new, NEW o \in DOMAIN new[d]
      PROVE  OwnOption(d, o, new[d][o])
  BY <1>7 DEF OwnOption, DeviceHas, Has
<1> HIDE DEF old, new
<1>8. ASSUME NEW d \in DOMAIN devices'
      PROVE  /\ d \in DOMAIN Profile \union DOMAIN new
             /\ \A o \in DOMAIN devices'[d] : OwnOption(d, o, devices'[d][o])
  <2> DEFINE before == IF d \in DOMAIN old THEN old[d] ELSE NoOptions
             after == IF d \in DOMAIN new THEN new[d] ELSE NoOptions
  <2>1. d \in DOMAIN old \union DOMAIN new /\ devices'[d] = MergeConfigs(before, after)
    BY <1>4, <1>8 DEF MergeDeviceConfigs
  <2>2. \A o \in DOMAIN before : OwnOption(d, o, before[o])
    BY <1>6 DEF NoOptions
  <2>3. \A o \in DOMAIN after : OwnOption(d, o, after[o])
    BY <1>7 DEF NoOptions
  <2> HIDE DEF before, after
  <2>4. \A o \in DOMAIN devices'[d] : OwnOption(d, o, devices'[d][o])
    BY <2>1, <2>2, <2>3 DEF MergeConfigs, Over
  <2> QED
    BY <1>6, <2>1, <2>4
<1> QED
  BY <1>1, <1>3, <1>8 DEF Own, AskedConfig, DeviceLimits, OwnOption, new

LEMMA AnewStep == Anew /\ [Next]_vars => Anew'
<1> SUFFICES ASSUME Anew, [Next]_vars PROVE Anew'
  OBVIOUS
<1>1. CASE UNCHANGED vars
  BY <1>1 DEF vars, Anew, Bare, Own, OwnOption
<1>2. CASE OtherClient
  <2>1. CASE status' = "absent"
    BY <2>1 DEF Anew
  <2>2. CASE status' # "absent"
    <3>1. /\ pc' = pc /\ flags' = flags /\ status # "absent"
          /\ \A o \in DOMAIN config' : config'[o] = Edited \/ Has(config, o, config'[o])
          /\ \A d \in DOMAIN devices' :
               /\ d \in DOMAIN devices
               /\ \A o \in DOMAIN devices'[d] :
                    devices'[d][o] = Edited \/ Has(devices[d], o, devices'[d][o])
      BY <1>2, <2>2, EditsSpare
    <3>2. Bare => Bare'
      BY <3>1 DEF Bare, Has, RootOptions
    <3>3. Own => Own'
      BY <3>1 DEF Own, OwnOption, Has, AskedConfig, DeviceLimits
    <3> QED
      BY <3>1, <3>2, <3>3 DEF Anew
  <2> QED
    BY <2>1, <2>2
<1>3. CASE Launcher
  <2>1. CASE (\E f \in Requests : Boot(f)) \/ GiveUp \/ CheckInstanceExists \/ Remove \/ Cleanup
    BY <2>1 DEF Boot, GiveUp, CheckInstanceExists, Remove, Cleanup, Gone, Go, lxd, Anew
  <2>2. CASE CreateInstance
    <3>1. CASE flags.remove
      <4>1. status = "absent" /\ pc = "create"
        BY <2>2, <3>1 DEF CreateInstance, Anew
      <4>2. /\ config' = NoOptions /\ devices' = Only("root", RootOptions(flags))
            /\ pc' = "launch"
        BY <2>2, <4>1 DEF CreateInstance, Go
      <4>3. Bare'
        BY <2>2, <4>2 DEF CreateInstance, Go, Bare, NoOptions, Only, Has, RootOptions
      <4> QED
        BY <4>2, <4>3 DEF Anew
    <3>2. CASE ~flags.remove
      BY <2>2, <3>2 DEF CreateInstance, Go, Anew
    <3> QED
      BY <3>1, <3>2
  <2>3. CASE StopFirst \/ GetStatus \/ GetInstance
    <3>1. /\ pc \in {"launch", "status", "read"} /\ pc' \in {"status", "read", "update"}
          /\ status # "absent" /\ UNCHANGED <<config, devices, flags>>
      BY <2>3 DEF StopFirst, GetStatus, GetInstance, Go, lxd
    <3>2. Bare => Bare'
      BY <3>1 DEF Bare
    <3> QED
      BY <3>1, <3>2 DEF Anew
  <2>4. CASE ApplyResourceLimit
    <3>1. pc = "update" /\ pc' = "start" /\ status # "absent" /\ UNCHANGED <<status, flags>>
      BY <2>4 DEF ApplyResourceLimit, Go
    <3> QED
      BY <2>4, <3>1, WritesOwn DEF Anew
  <2>5. CASE StartInstance
    <3>1. /\ pc = "start" /\ pc' = "serve" /\ status # "absent"
          /\ UNCHANGED <<config, devices, flags>>
      BY <2>5 DEF StartInstance, Go
    <3>2. Own => Own'
      BY <3>1 DEF Own, OwnOption, AskedConfig, DeviceLimits
    <3> QED
      BY <3>1, <3>2 DEF Anew
  <2> QED
    BY <1>3, <2>1, <2>2, <2>3, <2>4, <2>5 DEF Launcher
<1> QED
  BY <1>1, <1>2, <1>3 DEF Next

(* A launch that removes an existing instance leaves no option and no      *)
(* device of an earlier launch behind, whoever stops, deletes or edits the *)
(* instance meanwhile (launch.go, validateLaunch; client.go,               *)
(* ApplyResourceLimit and the ETag of UpdateInstance).                     *)
THEOREM NoLeftoversHolds == Spec => []NoLeftovers
<1>1. Init => Anew
  BY DEF Init, Anew
<1>2. Anew /\ [Next]_vars => Anew'
  BY AnewStep
<1>3. Anew => NoLeftovers
  BY DEF Anew, Own, OwnOption, NoLeftovers
<1> QED
  BY <1>1, <1>2, <1>3, PTL DEF Spec
=============================================================================
