--------------------------- MODULE DiagnosticsProofs ---------------------------
(***************************************************************************)
(* Proofs about Diagnostics, for any number of attempts, configuration     *)
(* queries, sensors, faults, changes and lost answers.                     *)
(***************************************************************************)
EXTENDS Diagnostics, FiniteSetTheorems, TLAPS

-----------------------------------------------------------------------------
(* The verdict: the first rule that applies. *)

LEMMA FirstIs ==
  ASSUME NEW rules, NEW n \in Nat, DOMAIN rules = 1 .. n, NEW k \in 1 .. n, rules[k][1],
         \A j \in 1 .. k - 1 : ~ rules[j][1]
  PROVE  First(rules) = rules[k]
<1> DEFINE Good(i) == rules[i][1] /\ \A j \in 1 .. i - 1 : ~ rules[j][1]
<1>1. Good(k) /\ k \in DOMAIN rules
  OBVIOUS
<1>2. ASSUME NEW i \in 1 .. n, Good(i) PROVE i = k
  <2>1. ~ k \in 1 .. i - 1 /\ ~ i \in 1 .. k - 1
    BY <1>2
  <2> QED
    BY <2>1
<1>3. (CHOOSE i \in DOMAIN rules : Good(i)) = k
  BY <1>1, <1>2
<1> QED
  BY <1>3 DEF First

LEMMA RuleConditions ==
  /\ DOMAIN Rules = 1 .. 14
  /\ Rules[1][1] = (usb = "absent")
  /\ Rules[2][1] = (usb = "denied")
  /\ Rules[3][1] = listened
  /\ Rules[4][1] = (Valid(health) = {} /\ probe # "none")
  /\ Rules[5][1] = (Valid(health) = {})
  /\ Rules[6][1] = ~ Consistent
  /\ Rules[7][1] = LowBattery
  /\ Rules[8][1] = resets
  /\ Rules[9][1] = IdentityFails
  /\ Rules[10][1] = ConfigFails
  /\ Rules[11][1] = LiveFails
  /\ Rules[12][1] = Shows(live, "angle")
  /\ Rules[13][1] = (history = "bad")
  /\ Rules[14][1]
BY DEF Rules

LEMMA RuleNames ==
  /\ Rules[1][3] = "usb_not_enumerated" /\ Rules[2][3] = "usb_access_denied"
  /\ Rules[3][3] = "possible_bootloader_mode" /\ Rules[4][3] = "serial_framing_or_firmware"
  /\ Rules[5][3] = "sensor_power_mcu_or_uart" /\ Rules[6][3] = "unstable_identity"
  /\ Rules[7][3] = "power_problem" /\ Rules[8][3] = "repeated_sensor_resets"
  /\ Rules[9][3] = "identity_or_firmware_instability"
  /\ Rules[10][3] = "configuration_or_firmware_problem"
  /\ Rules[11][3] = "measurement_hardware_or_firmware"
  /\ Rules[12][3] = "measurement_plausibility_problem"
  /\ Rules[13][3] = "history_or_storage_problem" /\ Rules[14][3] = "sensor_responsive"
  /\ Rules[14][2] = "ready"
  /\ \A k \in {1, 2, 3, 4, 5, 6, 7, 8, 9, 10, 11, 12, 13} : Rules[k][2] # "ready"
BY DEF Rules

LEMMA FirstRule ==
  ASSUME NEW k \in 1 .. 14, Rules[k][1], \A j \in 1 .. k - 1 : ~ Rules[j][1]
  PROVE  Classification = Rules[k][3] /\ Verdict[2] = Rules[k][2]
<1>1. DOMAIN Rules = 1 .. 14 /\ 14 \in Nat
  BY RuleConditions
<1>2. First(Rules) = Rules[k]
  BY <1>1, FirstIs
<1>3. Verdict = Rules[k]
  BY <1>2 DEF Verdict
<1> QED
  BY <1>3 DEF Classification

\* What is said, by the conditions of the rules in their order.
LEMMA Classified ==
  /\ usb = "absent" => Classification = "usb_not_enumerated" /\ Verdict[2] # "ready"
  /\ usb = "denied" => Classification = "usb_access_denied" /\ Verdict[2] # "ready"
  /\ usb \notin {"absent", "denied"} =>
       IF listened THEN Classification = "possible_bootloader_mode" /\ Verdict[2] # "ready"
       ELSE IF Valid(health) = {} /\ probe # "none"
       THEN Classification = "serial_framing_or_firmware" /\ Verdict[2] # "ready"
       ELSE IF Valid(health) = {}
       THEN Classification = "sensor_power_mcu_or_uart" /\ Verdict[2] # "ready"
       ELSE IF ~ Consistent THEN Classification = "unstable_identity" /\ Verdict[2] # "ready"
       ELSE IF LowBattery THEN Classification = "power_problem" /\ Verdict[2] # "ready"
       ELSE IF resets THEN Classification = "repeated_sensor_resets" /\ Verdict[2] # "ready"
       ELSE IF IdentityFails
       THEN Classification = "identity_or_firmware_instability" /\ Verdict[2] # "ready"
       ELSE IF ConfigFails
       THEN Classification = "configuration_or_firmware_problem" /\ Verdict[2] # "ready"
       ELSE IF LiveFails
       THEN Classification = "measurement_hardware_or_firmware" /\ Verdict[2] # "ready"
       ELSE IF Shows(live, "angle")
       THEN Classification = "measurement_plausibility_problem" /\ Verdict[2] # "ready"
       ELSE IF history = "bad"
       THEN Classification = "history_or_storage_problem" /\ Verdict[2] # "ready"
       ELSE Classification = "sensor_responsive" /\ Verdict[2] = "ready"
<1> DEFINE c(k) == Rules[k][1]
           Said(k) == Classification = Rules[k][3] /\ Verdict[2] = Rules[k][2]
<1>1. ASSUME NEW k \in 1 .. 14, c(k), \A j \in 1 .. k - 1 : ~ c(j) PROVE Said(k)
  BY <1>1, FirstRule
<1> HIDE DEF c, Said
<1>2. \A k \in 1 .. 14 : \A j \in 1 .. k - 1 : j \in 1 .. 13 /\ j < k
  OBVIOUS
<1>3. \A j \in 1 .. 13 : j \in {1, 2, 3, 4, 5, 6, 7, 8, 9, 10, 11, 12, 13}
  OBVIOUS
<1>4. /\ c(1) => Said(1)
      /\ ~ c(1) /\ c(2) => Said(2)
      /\ ~ c(1) /\ ~ c(2) /\ c(3) => Said(3)
      /\ ~ c(1) /\ ~ c(2) /\ ~ c(3) /\ c(4) => Said(4)
      /\ ~ c(1) /\ ~ c(2) /\ ~ c(3) /\ ~ c(4) /\ c(5) => Said(5)
      /\ ~ c(1) /\ ~ c(2) /\ ~ c(3) /\ ~ c(4) /\ ~ c(5) /\ c(6) => Said(6)
      /\ ~ c(1) /\ ~ c(2) /\ ~ c(3) /\ ~ c(4) /\ ~ c(5) /\ ~ c(6) /\ c(7) => Said(7)
  BY <1>1
<1> DEFINE Low == ~ c(1) /\ ~ c(2) /\ ~ c(3) /\ ~ c(4) /\ ~ c(5) /\ ~ c(6) /\ ~ c(7)
<1>5. /\ Low /\ c(8) => Said(8)
      /\ Low /\ ~ c(8) /\ c(9) => Said(9)
      /\ Low /\ ~ c(8) /\ ~ c(9) /\ c(10) => Said(10)
      /\ Low /\ ~ c(8) /\ ~ c(9) /\ ~ c(10) /\ c(11) => Said(11)
      /\ Low /\ ~ c(8) /\ ~ c(9) /\ ~ c(10) /\ ~ c(11) /\ c(12) => Said(12)
      /\ Low /\ ~ c(8) /\ ~ c(9) /\ ~ c(10) /\ ~ c(11) /\ ~ c(12) /\ c(13) => Said(13)
      /\ Low /\ ~ c(8) /\ ~ c(9) /\ ~ c(10) /\ ~ c(11) /\ ~ c(12) /\ ~ c(13) /\ c(14) => Said(14)
  BY <1>1
<1>6. /\ Said(1) => Classification = "usb_not_enumerated" /\ Verdict[2] # "ready"
      /\ Said(2) => Classification = "usb_access_denied" /\ Verdict[2] # "ready"
      /\ Said(3) => Classification = "possible_bootloader_mode" /\ Verdict[2] # "ready"
      /\ Said(4) => Classification = "serial_framing_or_firmware" /\ Verdict[2] # "ready"
      /\ Said(5) => Classification = "sensor_power_mcu_or_uart" /\ Verdict[2] # "ready"
      /\ Said(6) => Classification = "unstable_identity" /\ Verdict[2] # "ready"
      /\ Said(7) => Classification = "power_problem" /\ Verdict[2] # "ready"
      /\ Said(8) => Classification = "repeated_sensor_resets" /\ Verdict[2] # "ready"
      /\ Said(9) => Classification = "identity_or_firmware_instability" /\ Verdict[2] # "ready"
      /\ Said(10) => Classification = "configuration_or_firmware_problem" /\ Verdict[2] # "ready"
      /\ Said(11) => Classification = "measurement_hardware_or_firmware" /\ Verdict[2] # "ready"
      /\ Said(12) => Classification = "measurement_plausibility_problem" /\ Verdict[2] # "ready"
      /\ Said(13) => Classification = "history_or_storage_problem" /\ Verdict[2] # "ready"
      /\ Said(14) => Classification = "sensor_responsive" /\ Verdict[2] = "ready"
  BY RuleNames DEF Said
<1>7. /\ (c(1) <=> usb = "absent") /\ (c(2) <=> usb = "denied") /\ (c(3) <=> listened)
      /\ (c(4) <=> Valid(health) = {} /\ probe # "none") /\ (c(5) <=> Valid(health) = {})
      /\ (c(6) <=> ~ Consistent) /\ (c(7) <=> LowBattery) /\ (c(8) <=> resets)
      /\ (c(9) <=> IdentityFails) /\ (c(10) <=> ConfigFails) /\ (c(11) <=> LiveFails)
      /\ (c(12) <=> Shows(live, "angle")) /\ (c(13) <=> history = "bad") /\ c(14)
  BY RuleConditions DEF c
<1>8. usb = "absent" => ~ usb = "denied"
  OBVIOUS
<1> HIDE DEF Low
<1>9. Low <=> ~ c(1) /\ ~ c(2) /\ ~ c(3) /\ ~ c(4) /\ ~ c(5) /\ ~ c(6) /\ ~ c(7)
  BY DEF Low
<1> QED
  BY <1>4, <1>5, <1>6, <1>7, <1>8, <1>9

\* What is to be said of a sensor that answers, by its faults in order.
LEMMA FirstFaultFor ==
  ASSUME NEW at
  PROVE
    IF "battery" \in at.faults THEN FirstFault(at) = "power_problem"
    ELSE IF "resets" \in at.faults THEN FirstFault(at) = "repeated_sensor_resets"
    ELSE IF "identity" \in at.faults THEN FirstFault(at) = "identity_or_firmware_instability"
    ELSE IF "families" \in at.faults THEN FirstFault(at) = "configuration_or_firmware_problem"
    ELSE IF at.faults \cap {"live", "error"} # {}
    THEN FirstFault(at) = "measurement_hardware_or_firmware"
    ELSE IF "angle" \in at.faults THEN FirstFault(at) = "measurement_plausibility_problem"
    ELSE IF at.faults \cap {"clock", "history"} = {"history"}
    THEN FirstFault(at) = "history_or_storage_problem"
    ELSE FirstFault(at) = "sensor_responsive"
<1> DEFINE L == <<
       <<"battery" \in at.faults,                  "power_problem">>,
       <<"resets" \in at.faults,                   "repeated_sensor_resets">>,
       <<"identity" \in at.faults,                 "identity_or_firmware_instability">>,
       <<"families" \in at.faults,                 "configuration_or_firmware_problem">>,
       <<at.faults \cap {"live", "error"} # {},     "measurement_hardware_or_firmware">>,
       <<"angle" \in at.faults,                    "measurement_plausibility_problem">>,
       <<at.faults \cap {"clock", "history"} = {"history"}, "history_or_storage_problem">>,
       <<TRUE,                                     "sensor_responsive">> >>
     c(k) == L[k][1]
     Said(k) == FirstFault(at) = L[k][2]
<1>1. FirstFault(at) = First(L)[2]
  BY DEF FirstFault
<1>2. DOMAIN L = 1 .. 8 /\ 8 \in Nat
  OBVIOUS
<1>3. /\ L[1][1] = ("battery" \in at.faults) /\ L[2][1] = ("resets" \in at.faults)
      /\ L[3][1] = ("identity" \in at.faults) /\ L[4][1] = ("families" \in at.faults)
      /\ L[5][1] = (at.faults \cap {"live", "error"} # {})
      /\ L[6][1] = ("angle" \in at.faults)
      /\ L[7][1] = (at.faults \cap {"clock", "history"} = {"history"})
      /\ L[8][1]
  OBVIOUS
<1>4. /\ L[1][2] = "power_problem" /\ L[2][2] = "repeated_sensor_resets"
      /\ L[3][2] = "identity_or_firmware_instability"
      /\ L[4][2] = "configuration_or_firmware_problem"
      /\ L[5][2] = "measurement_hardware_or_firmware"
      /\ L[6][2] = "measurement_plausibility_problem"
      /\ L[7][2] = "history_or_storage_problem" /\ L[8][2] = "sensor_responsive"
  OBVIOUS
<1> HIDE DEF L
<1>5. ASSUME NEW k \in 1 .. 8, c(k), \A j \in 1 .. k - 1 : ~ c(j) PROVE Said(k)
  <2>1. First(L) = L[k]
    BY <1>2, <1>5, FirstIs
  <2> QED
    BY <1>1, <2>1
<1> HIDE DEF c, Said
<1>6. /\ c(1) => Said(1)
      /\ ~ c(1) /\ c(2) => Said(2)
      /\ ~ c(1) /\ ~ c(2) /\ c(3) => Said(3)
      /\ ~ c(1) /\ ~ c(2) /\ ~ c(3) /\ c(4) => Said(4)
      /\ ~ c(1) /\ ~ c(2) /\ ~ c(3) /\ ~ c(4) /\ c(5) => Said(5)
      /\ ~ c(1) /\ ~ c(2) /\ ~ c(3) /\ ~ c(4) /\ ~ c(5) /\ c(6) => Said(6)
      /\ ~ c(1) /\ ~ c(2) /\ ~ c(3) /\ ~ c(4) /\ ~ c(5) /\ ~ c(6) /\ c(7) => Said(7)
      /\ ~ c(1) /\ ~ c(2) /\ ~ c(3) /\ ~ c(4) /\ ~ c(5) /\ ~ c(6) /\ ~ c(7) /\ c(8) => Said(8)
  BY <1>5
<1>7. /\ (c(1) <=> "battery" \in at.faults) /\ (c(2) <=> "resets" \in at.faults)
      /\ (c(3) <=> "identity" \in at.faults) /\ (c(4) <=> "families" \in at.faults)
      /\ (c(5) <=> at.faults \cap {"live", "error"} # {})
      /\ (c(6) <=> "angle" \in at.faults)
      /\ (c(7) <=> at.faults \cap {"clock", "history"} = {"history"})
      /\ c(8)
  BY <1>3 DEF c
<1>8. /\ (Said(1) <=> FirstFault(at) = "power_problem")
      /\ (Said(2) <=> FirstFault(at) = "repeated_sensor_resets")
      /\ (Said(3) <=> FirstFault(at) = "identity_or_firmware_instability")
      /\ (Said(4) <=> FirstFault(at) = "configuration_or_firmware_problem")
      /\ (Said(5) <=> FirstFault(at) = "measurement_hardware_or_firmware")
      /\ (Said(6) <=> FirstFault(at) = "measurement_plausibility_problem")
      /\ (Said(7) <=> FirstFault(at) = "history_or_storage_problem")
      /\ (Said(8) <=> FirstFault(at) = "sensor_responsive")
  BY <1>4 DEF Said
<1> QED
  BY <1>6, <1>7, <1>8

\* What may be said of one situation, by its layers.
LEMMA NamedFor ==
  ASSUME NEW at
  PROVE
    /\ at.link = "absent" => Named(at) = {"usb_not_enumerated"}
    /\ at.link = "denied" => Named(at) = {"usb_access_denied"}
    /\ at.link = "silent" => Named(at) = {"sensor_power_mcu_or_uart"}
    /\ at.link = "noise" => Named(at) = {"possible_bootloader_mode", "serial_framing_or_firmware"}
    /\ at.link = "boot" => Named(at) = {"possible_bootloader_mode", "serial_framing_or_firmware",
                                       "sensor_power_mcu_or_uart"}
    /\ at.link = "up" => Named(at) = {FirstFault(at)}
BY DEF Named

\* Only a bootloader or noise is taken for a signal of the bootloader; where no
\* answer comes noise brings bytes, a bootloader some or none, a silent or
\* absent line none.
LEMMA SignalsAndBytes ==
  ASSUME NEW link \in {"absent", "denied", "silent", "noise", "boot", "up"}
  PROVE
    /\ \A r \in Arriving(link) : Signal(r) \in BOOLEAN /\ (Signal(r) => link \in {"boot", "noise"})
    /\ Heard(link) \subseteq {"bytes", "none"}
    /\ link = "noise" => Heard(link) = {"bytes"}
    /\ link = "boot" => Heard(link) = {"bytes", "none"}
    /\ link \in {"absent", "denied", "silent"} => Heard(link) = {"none"}
<1>1. CASE link \in {"boot", "noise"}
  BY <1>1 DEF Arriving, Signal, Heard
<1>2. CASE link = "up"
  BY <1>2 DEF Arriving, Signal, Heard
<1>3. CASE link \in {"absent", "denied", "silent"}
  <2>1. Arriving(link) = {Nothing} /\ ~ Signal(Nothing)
    BY <1>3 DEF Arriving, Signal, Nothing
  <2>2. Heard(link) = {"none"}
    BY <1>3 DEF Heard
  <2>3. \A r \in Arriving(link) : r = Nothing
    BY <2>1
  <2>4. \A r \in Arriving(link) : ~ Signal(r)
    BY <2>1, <2>3
  <2>5. link \notin {"noise", "boot"}
    BY <1>3
  <2>6. \A r \in Arriving(link) : Signal(r) \in BOOLEAN
    BY DEF Signal
  <2> QED
    BY <1>3, <2>2, <2>4, <2>5, <2>6
<1> QED
  BY <1>1, <1>2, <1>3

-----------------------------------------------------------------------------
(* Types. *)

Typed ==
  /\ now \in Situation /\ past \in Seq(Situation)
  /\ suite \in {"deep", "recovery"}
  /\ pc \in {"idle", "usb", "listen", "probe", "health", "identity", "recent", "families",
             "live", "history", "status", "done"}
  /\ usb \in {"absent", "denied", "open"} /\ listened \in BOOLEAN
  /\ probe \in {"framed", "bytes", "none"} /\ resets \in BOOLEAN
  /\ health \in Seq(Reading) /\ Len(health) <= Attempts
  /\ identity \in Seq(Reading) /\ Len(identity) <= Attempts
  /\ live \in Seq(Reading) /\ Len(live) <= Attempts
  /\ families \in Seq(Reading) /\ Len(families) <= Families
  /\ history \in {"ok", "skipped", "bad"}
  /\ losses \in 0 .. MaxLosses

LEMMA SituationParts ==
  ASSUME NEW s \in Situation
  PROVE  /\ s.link \in {"absent", "denied", "silent", "noise", "boot", "up"}
         /\ s.node \in 1 .. MaxNode /\ s.faults \in SUBSET Fault
         /\ s.link # "up" => s.faults = {}
BY DiagnosticsAssumption DEF Situation

LEMMA ListenHears ==
  ASSUME Typed, Listen
  PROVE  listened' \in BOOLEAN /\ (listened' => now.link \in {"boot", "noise"})
<1>1. now.link \in {"absent", "denied", "silent", "noise", "boot", "up"}
  BY SituationParts DEF Typed
<1>2. PICK r \in Arriving(now.link) : listened' = Signal(r)
  BY DEF Listen
<1> QED
  BY <1>1, <1>2, SignalsAndBytes

LEMMA ProbeHears == ASSUME Typed, Probe PROVE probe' \in {"framed", "bytes", "none"}
<1>1. now.link \in {"absent", "denied", "silent", "noise", "boot", "up"}
  BY SituationParts DEF Typed
<1>2. PICK ok \in BOOLEAN : probe' \in IF ok THEN {"framed"} ELSE Heard(now.link)
  BY DEF Probe
<1> QED
  BY <1>1, <1>2, SignalsAndBytes

LEMMA ReadingTypes ==
  ASSUME now \in Situation, NEW ok \in BOOLEAN
  PROVE  ReadingOf(ok) \in Reading /\ ReadingOf(ok).ok = ok
BY DiagnosticsAssumption, SituationParts DEF ReadingOf, Reading

LEMMA TransactionTypes ==
  ASSUME losses \in 0 .. MaxLosses, NEW failing, NEW ok \in BOOLEAN, Transaction(failing, ok)
  PROVE  losses' \in 0 .. MaxLosses /\ losses' >= losses
BY DiagnosticsAssumption DEF Transaction

\* A series that takes one reading more.
LEMMA SeriesTypes ==
  ASSUME now \in Situation, NEW s \in Seq(Reading), NEW n \in Nat, Len(s) < n,
         NEW ok \in BOOLEAN, NEW t, t = Append(s, ReadingOf(ok))
  PROVE  /\ t \in Seq(Reading) /\ Len(t) <= n /\ Len(t) = Len(s) + 1
         /\ t[Len(s) + 1] = ReadingOf(ok) /\ \A i \in 1 .. Len(s) : t[i] = s[i]
<1>1. ReadingOf(ok) \in Reading
  BY ReadingTypes
<1> HIDE DEF ReadingOf
<1> QED
  BY <1>1

LEMMA TypedInit == ASSUME Init PROVE Typed
<1>1. << >> \in Seq(Situation) /\ << >> \in Seq(Reading)
  OBVIOUS
<1>2. 0 <= Attempts /\ 0 <= Families /\ 0 \in 0 .. MaxLosses
  BY DiagnosticsAssumption
<1>3. Len(health) = 0 /\ Len(identity) = 0 /\ Len(live) = 0 /\ Len(families) = 0
  BY DEF Init
<1> QED
  BY <1>1, <1>2, <1>3 DEF Init, Typed

LEMMA TypedStep == ASSUME Typed, [Next]_vars PROVE Typed'
<1>0. Attempts \in Nat /\ Families \in Nat
  BY DiagnosticsAssumption
<1>1. CASE UNCHANGED vars
  BY <1>1 DEF vars, Typed
<1>2. CASE Change
  <2>1. past' \in Seq(Situation)
    BY <1>2 DEF Change, Typed
  <2> QED
    BY <1>2, <2>1 DEF Change, found, Typed
<1>3. CASE Begin
  <2>1. past' \in Seq(Situation)
    BY <1>3 DEF Begin, Typed
  <2> QED
    BY <1>3, <2>1 DEF Begin, found, Typed
<1>4. CASE Usb
  BY <1>4 DEF Usb, Typed
<1>5. CASE Listen
  <2>1. listened' \in BOOLEAN
    BY <1>5, ListenHears
  <2> QED
    BY <1>5, <2>1 DEF Listen, Goes, Typed
<1>6. CASE Probe
  <2>1. losses' \in 0 .. MaxLosses
    BY <1>6, TransactionTypes DEF Probe, Typed
  <2>2. probe' \in {"framed", "bytes", "none"}
    BY <1>6, ProbeHears
  <2> QED
    BY <1>6, <2>1, <2>2 DEF Probe, Goes, Typed
<1>7. CASE ReadHealth
  <2>1. PICK ok \in BOOLEAN : Transaction({}, ok) /\ health' = Append(health, ReadingOf(ok))
                              /\ Len(health) < Attempts
    BY <1>7 DEF ReadHealth, Series
  <2>2. losses' \in 0 .. MaxLosses /\ health' \in Seq(Reading) /\ Len(health') <= Attempts
    BY <1>0, <2>1, TransactionTypes, SeriesTypes DEF Typed
  <2> QED
    BY <1>7, <2>2 DEF ReadHealth, Goes, Typed
<1>8. CASE ReadIdentity
  <2>1. PICK ok \in BOOLEAN : Transaction({"identity"}, ok)
                              /\ identity' = Append(identity, ReadingOf(ok))
                              /\ Len(identity) < Attempts
    BY <1>8 DEF ReadIdentity, Series
  <2>2. losses' \in 0 .. MaxLosses /\ identity' \in Seq(Reading) /\ Len(identity') <= Attempts
    BY <1>0, <2>1, TransactionTypes, SeriesTypes DEF Typed
  <2> QED
    BY <1>8, <2>2 DEF ReadIdentity, Goes, Typed
<1>9. CASE Recent
  BY <1>9 DEF Recent, Goes, Typed
<1>10. CASE ReadFamily
  <2>1. PICK ok \in BOOLEAN :
                 Transaction(IF Len(families) = Families - 1 THEN {"families"} ELSE {}, ok)
                              /\ families' = Append(families, ReadingOf(ok))
                              /\ Len(families) < Families
    BY <1>10 DEF ReadFamily, Series
  <2>2. losses' \in 0 .. MaxLosses /\ families' \in Seq(Reading) /\ Len(families') <= Families
    BY <1>0, <2>1, TransactionTypes, SeriesTypes DEF Typed
  <2> QED
    BY <1>10, <2>2 DEF ReadFamily, Goes, Typed
<1>11. CASE ReadLive
  <2>1. PICK ok \in BOOLEAN : Transaction({"live"}, ok) /\ live' = Append(live, ReadingOf(ok))
                              /\ Len(live) < Attempts
    BY <1>11 DEF ReadLive, Series
  <2>2. losses' \in 0 .. MaxLosses /\ live' \in Seq(Reading) /\ Len(live') <= Attempts
    BY <1>0, <2>1, TransactionTypes, SeriesTypes DEF Typed
  <2> QED
    BY <1>11, <2>2 DEF ReadLive, Goes, Typed
<1>12. CASE CheckHistory
  <2>1. losses' \in 0 .. MaxLosses
    BY <1>12, TransactionTypes DEF CheckHistory, Typed
  <2>2. history' \in {"ok", "skipped", "bad"}
    BY <1>12 DEF CheckHistory
  <2> QED
    BY <1>12, <2>1, <2>2 DEF CheckHistory, Goes, Typed
<1>13. CASE RecoveryHealth
  <2>1. PICK ok \in BOOLEAN : Transaction({}, ok) /\ health' = Append(health, ReadingOf(ok))
                              /\ Len(health) < 1
    BY <1>13 DEF RecoveryHealth, Series
  <2>2. Len(health) < Attempts
    BY <2>1, DiagnosticsAssumption DEF Typed
  <2>3. losses' \in 0 .. MaxLosses /\ health' \in Seq(Reading) /\ Len(health') <= Attempts
    BY <1>0, <2>1, <2>2, TransactionTypes, SeriesTypes DEF Typed
  <2> QED
    BY <1>13, <2>3 DEF RecoveryHealth, Typed
<1>14. CASE RecoveryBackup
  <2>1. PICK ok \in BOOLEAN : Transaction({"identity", "families"}, ok)
                              /\ families' = Append(families, ReadingOf(ok)) /\ Len(families) < 1
    BY <1>14 DEF RecoveryBackup, Series
  <2>2. Len(families) < Families
    BY <2>1, DiagnosticsAssumption DEF Typed
  <2>3. losses' \in 0 .. MaxLosses /\ families' \in Seq(Reading) /\ Len(families') <= Families
    BY <1>0, <2>1, <2>2, TransactionTypes, SeriesTypes DEF Typed
  <2> QED
    BY <1>14, <2>3 DEF RecoveryBackup, Typed
<1>15. CASE RecoveryStatus
  BY <1>15 DEF RecoveryStatus, Typed
<1> QED
  BY <1>1, <1>2, <1>3, <1>4, <1>5, <1>6, <1>7, <1>8, <1>9, <1>10, <1>11, <1>12, <1>13, <1>14,
     <1>15 DEF Next, Stage

LEMMA TypedAlways == Spec => []Typed
BY TypedInit, TypedStep, PTL DEF Spec

\* Readings, verdict inputs and situations have their types, and no series is
\* longer than it is to be, for any number of attempts and of queries.
THEOREM DiagnosticTypes == Spec => []TypeOK
<1>1. ASSUME Typed PROVE TypeOK
  <2>1. \A i \in DOMAIN past : past[i] \in Situation
    BY <1>1 DEF Typed
  <2> QED
    BY <1>1, <2>1 DEF Typed, TypeOK
<1> QED
  BY <1>1, TypedAlways, PTL

-----------------------------------------------------------------------------
(* Where a run is. *)

\* The run is at one of these stages, or has come through them all.
Come(stages) == pc \in stages \/ (pc = "done" /\ usb = "open")

Placed ==
  /\ pc = "idle" => /\ past = << >> /\ losses = 0 /\ ~ listened
                    /\ health = << >> /\ identity = << >> /\ families = << >> /\ live = << >>
  /\ pc # "idle" => past # << >> /\ past[Len(past)] = now
  /\ pc # "done" => usb = "open" /\ history = "skipped"
  /\ suite = "recovery" => history = "skipped"
  /\ suite = "deep" =>
       /\ Come({"identity", "recent", "families", "live", "history"}) => Len(health) = Attempts
       /\ Come({"recent", "families", "live", "history"}) => Len(identity) = Attempts
       /\ Come({"live", "history"}) => Len(families) = Families
       /\ Come({"history"}) => Len(live) = Attempts
       /\ Come({"families", "live", "history"}) => (resets <=> "resets" \in LastHealth)
       /\ pc # "status"

LEMMA PlacedStep == ASSUME Typed, Placed, [Next]_vars PROVE Placed'
<1>1. CASE UNCHANGED vars
  BY <1>1 DEF vars, Placed, Come, LastHealth, Valid
<1>2. CASE Change
  <2>1. /\ past' = Append(past, now') /\ pc \notin {"idle", "done"}
        /\ UNCHANGED <<suite, pc, found>>
    BY <1>2 DEF Change
  <2>2. now' \in Situation
    BY <1>2 DEF Change
  <2>3. past' # << >> /\ past'[Len(past')] = now'
    <3>1. past \in Seq(Situation) /\ past' = Append(past, now')
      BY <2>1 DEF Typed
    <3>2. Len(past') = Len(past) + 1 /\ past'[Len(past) + 1] = now' /\ Len(past) \in Nat
      BY <2>2, <3>1
    <3>3. Len(past') # 0
      BY <3>2
    <3> QED
      BY <3>2, <3>3
  <2>4. LastHealth' = LastHealth
    BY <2>1 DEF LastHealth, Valid, found
  <2> QED
    BY <2>1, <2>3, <2>4 DEF Placed, Come, found
<1>3. CASE Begin
  <2>1. past' # << >> /\ past'[Len(past')] = now'
    BY <1>3 DEF Begin
  <2> QED
    BY <1>3, <2>1 DEF Begin, Placed, Come, found
<1>4. CASE Usb
  <2>1. Come({"identity", "recent", "families", "live", "history"})' = FALSE
    BY <1>4 DEF Usb, Come
  <2>2. pc \notin {"idle", "done"} /\ pc' \notin {"idle", "status"}
        /\ UNCHANGED <<now, suite, past, history>> /\ (pc' # "done" => usb' = "open")
    BY <1>4 DEF Usb
  <2> QED
    BY <2>1, <2>2 DEF Placed, Come
<1>5. CASE Listen \/ Probe
  <2>1. /\ suite = "deep" /\ pc \in {"listen", "probe"} /\ pc' \in {"probe", "health"}
        /\ UNCHANGED <<now, suite, past, usb, history>>
    BY <1>5 DEF Listen, Probe, Goes
  <2> QED
    BY <2>1 DEF Placed, Come
<1>6. CASE ReadHealth
  <2>1. /\ suite = "deep" /\ pc = "health"
        /\ pc' = IF Len(health') = Attempts THEN "identity" ELSE "health"
        /\ UNCHANGED <<now, suite, past, usb, history>>
    BY <1>6 DEF ReadHealth, Goes
  <2> QED
    BY <2>1 DEF Placed, Come
<1>7. CASE ReadIdentity
  <2>1. /\ suite = "deep" /\ pc = "identity"
        /\ pc' = IF Len(identity') = Attempts THEN "recent" ELSE "identity"
        /\ UNCHANGED <<now, suite, past, usb, history, health>>
    BY <1>7 DEF ReadIdentity, Goes
  <2> QED
    BY <2>1 DEF Placed, Come
<1>8. CASE Recent
  <2>1. /\ suite = "deep" /\ pc = "recent" /\ pc' = "families"
        /\ resets' = ("resets" \in LastHealth)
        /\ UNCHANGED <<now, suite, past, usb, history, health, identity>>
    BY <1>8 DEF Recent, Goes
  <2>2. LastHealth' = LastHealth
    BY <2>1 DEF LastHealth, Valid
  <2> QED
    BY <2>1, <2>2 DEF Placed, Come
<1>9. CASE ReadFamily
  <2>1. /\ suite = "deep" /\ pc = "families"
        /\ pc' = IF Len(families') = Families THEN "live" ELSE "families"
        /\ UNCHANGED <<now, suite, past, usb, history, health, identity, resets>>
    BY <1>9 DEF ReadFamily, Goes
  <2>2. LastHealth' = LastHealth
    BY <2>1 DEF LastHealth, Valid
  <2> QED
    BY <2>1, <2>2 DEF Placed, Come
<1>10. CASE ReadLive
  <2>1. /\ suite = "deep" /\ pc = "live"
        /\ pc' = IF Len(live') = Attempts THEN "history" ELSE "live"
        /\ UNCHANGED <<now, suite, past, usb, history, health, identity, families, resets>>
    BY <1>10 DEF ReadLive, Goes
  <2>2. LastHealth' = LastHealth
    BY <2>1 DEF LastHealth, Valid
  <2> QED
    BY <2>1, <2>2 DEF Placed, Come
<1>11. CASE CheckHistory
  <2>1. /\ suite = "deep" /\ pc = "history" /\ pc' = "done"
        /\ UNCHANGED <<now, suite, past, usb, health, identity, families, live, resets>>
    BY <1>11 DEF CheckHistory, Goes
  <2>2. LastHealth' = LastHealth
    BY <2>1 DEF LastHealth, Valid
  <2> QED
    BY <2>1, <2>2 DEF Placed, Come
<1>12. CASE RecoveryHealth \/ RecoveryBackup \/ RecoveryStatus
  <2>1. /\ suite = "recovery" /\ pc \notin {"idle", "done"} /\ pc' # "idle"
        /\ UNCHANGED <<now, suite, past, usb, history>>
    BY <1>12 DEF RecoveryHealth, RecoveryBackup, RecoveryStatus
  <2> QED
    BY <2>1 DEF Placed
<1> QED
  BY <1>1, <1>2, <1>3, <1>4, <1>5, <1>6, <1>7, <1>8, <1>9, <1>10, <1>11, <1>12 DEF Next, Stage

LEMMA PlacedAlways == Spec => [](Typed /\ Placed)
<1>1. ASSUME Init PROVE Placed
  BY <1>1 DEF Init, Placed, Come
<1> QED
  BY <1>1, TypedInit, TypedStep, PlacedStep, PTL DEF Spec

-----------------------------------------------------------------------------
(* Where a reading comes from. *)

\* In the situations p and with l losses: a reading that came is of a sensor
\* that answered, without the faults that fail its query; one that did not is
\* lost, or there was another reason at some time.
Explained(r, failing, p, l) ==
  IF r.ok THEN /\ \E i \in DOMAIN p : /\ p[i].link = "up" /\ p[i].node = r.node
                                      /\ p[i].faults = r.faults
               /\ r.faults \cap failing = {}
  ELSE l > 0 \/ \E i \in DOMAIN p : p[i].link # "up" \/ p[i].faults \cap failing # {}

\* What fails each query of a series.
Explains(s, F, p, l) == \A i \in 1 .. Len(s) : Explained(s[i], F[i], p, l)

HealthFaults   == [i \in Nat |-> {}]
IdentityFaults == [i \in Nat |-> {"identity"}]
LiveFaults     == [i \in Nat |-> {"live"}]
FamilyFaults   == [i \in Nat |-> IF suite = "recovery" THEN {"identity", "families"}
                                 ELSE IF i = Families THEN {"families"} ELSE {}]

Readings ==
  /\ Explains(health, HealthFaults, past, losses)
  /\ Explains(identity, IdentityFaults, past, losses)
  /\ Explains(families, FamilyFaults, past, losses)
  /\ Explains(live, LiveFaults, past, losses)

LEMMA StillExplains ==
  ASSUME NEW p, NEW q, NEW l \in Nat, NEW m \in Nat, m >= l,
         \A i \in DOMAIN p : i \in DOMAIN q /\ q[i] = p[i],
         NEW s, NEW F, Explains(s, F, p, l)
  PROVE  Explains(s, F, q, m)
<1>1. ASSUME NEW i \in 1 .. Len(s) PROVE Explained(s[i], F[i], q, m)
  <2>1. Explained(s[i], F[i], p, l)
    BY DEF Explains
  <2>2. l > 0 => m > 0
    OBVIOUS
  <2> QED
    BY <2>1, <2>2 DEF Explained
<1> QED
  BY <1>1 DEF Explains

LEMMA NowIsPast ==
  ASSUME Typed, Placed, pc # "idle"
  PROVE  Len(past) \in DOMAIN past /\ past[Len(past)] = now
<1>1. past \in Seq(Situation) /\ past # << >>
  BY DEF Typed, Placed
<1> QED
  BY <1>1 DEF Placed

LEMMA NewExplained ==
  ASSUME Typed, Placed, pc # "idle", NEW ok \in BOOLEAN, NEW failing, Transaction(failing, ok)
  PROVE  Explained(ReadingOf(ok), failing, past, losses')
<1>1. Len(past) \in DOMAIN past /\ past[Len(past)] = now
  BY NowIsPast
<1>2. losses \in Nat
  BY DEF Typed
<1>3. CASE ok
  <2>1. now.link = "up" /\ now.faults \cap failing = {}
    BY <1>3 DEF Transaction, Answers
  <2>2. ReadingOf(ok).ok /\ ReadingOf(ok).node = now.node /\ ReadingOf(ok).faults = now.faults
    BY <1>3 DEF ReadingOf
  <2> QED
    BY <1>1, <2>1, <2>2 DEF Explained
<1>4. CASE ~ ok
  <2>1. ~ ReadingOf(ok).ok
    BY <1>4 DEF ReadingOf
  <2>2. losses' > 0 \/ now.link # "up" \/ now.faults \cap failing # {}
    BY <1>2, <1>4 DEF Transaction, Answers
  <2> QED
    BY <1>1, <2>1, <2>2 DEF Explained
<1> QED
  BY <1>3, <1>4

LEMMA SeriesExplains ==
  ASSUME Typed, Placed, pc # "idle", NEW s \in Seq(Reading), NEW n \in Nat, Len(s) < n,
         NEW F, NEW ok \in BOOLEAN, Transaction(F[Len(s) + 1], ok),
         NEW t, t = Append(s, ReadingOf(ok)), Explains(s, F, past, losses)
  PROVE  Explains(t, F, past, losses')
<1>1. now \in Situation /\ losses \in 0 .. MaxLosses /\ MaxLosses \in Nat
  BY DiagnosticsAssumption DEF Typed
<1>2. losses \in Nat /\ losses' \in Nat /\ losses' >= losses
  BY <1>1, TransactionTypes
<1>3. /\ Len(t) = Len(s) + 1 /\ Len(s) \in Nat
      /\ t[Len(s) + 1] = ReadingOf(ok) /\ \A i \in 1 .. Len(s) : t[i] = s[i]
  BY <1>1, SeriesTypes
<1>4. Explains(s, F, past, losses')
  BY <1>2, StillExplains
<1>5. Explained(ReadingOf(ok), F[Len(s) + 1], past, losses')
  BY NewExplained
<1>6. ASSUME NEW i \in 1 .. Len(t) PROVE Explained(t[i], F[i], past, losses')
  <2>1. i \in 1 .. Len(s) \/ i = Len(s) + 1
    BY <1>3
  <2>2. CASE i \in 1 .. Len(s)
    BY <1>3, <1>4, <2>2 DEF Explains
  <2>3. CASE i = Len(s) + 1
    BY <1>3, <1>5, <2>3
  <2> QED
    BY <2>1, <2>2, <2>3
<1> QED
  BY <1>6 DEF Explains

\* Situations are only added, and losses only counted.
LEMMA PastGrows ==
  ASSUME Typed, Placed, [Next]_vars
  PROVE  /\ \A i \in DOMAIN past : i \in DOMAIN past' /\ past'[i] = past[i]
         /\ losses \in Nat /\ losses' \in Nat /\ losses' >= losses /\ suite' = suite
         /\ past' = past \/ pc = "idle" \/ Change
<1>1. MaxLosses \in Nat /\ losses \in Nat /\ losses' \in Nat
  BY TypedStep, DiagnosticsAssumption DEF Typed
<1>2. CASE UNCHANGED vars
  BY <1>1, <1>2 DEF vars
<1>3. CASE Change
  <2>1. past \in Seq(Situation) /\ past' = Append(past, now') /\ now' \in Situation
        /\ losses' = losses /\ suite' = suite
    BY <1>3 DEF Change, Typed
  <2>2. \A i \in DOMAIN past : i \in DOMAIN past' /\ past'[i] = past[i]
    BY <2>1
  <2> QED
    BY <1>1, <1>3, <2>1, <2>2
<1>4. CASE Begin
  <2>1. past = << >> /\ pc = "idle" /\ losses' = losses /\ suite' = suite
    BY <1>4 DEF Begin, Placed
  <2> QED
    BY <1>1, <2>1
<1>5. ASSUME NEW failing, NEW ok \in BOOLEAN, Transaction(failing, ok) PROVE losses' >= losses
  BY <1>5, TransactionTypes DEF Typed
<1>6. CASE Probe \/ ReadHealth \/ ReadIdentity \/ ReadFamily \/ ReadLive
  <2>1. past' = past /\ suite' = suite
        /\ \E failing : \E ok \in BOOLEAN : Transaction(failing, ok)
    BY <1>6 DEF Probe, ReadHealth, ReadIdentity, ReadFamily, ReadLive, Series, Goes
  <2> QED
    BY <1>1, <1>5, <2>1
<1>7. CASE RecoveryHealth \/ RecoveryBackup
  <2>1. past' = past /\ suite' = suite
        /\ \E failing : \E ok \in BOOLEAN : Transaction(failing, ok)
    BY <1>7 DEF RecoveryHealth, RecoveryBackup, Series
  <2> QED
    BY <1>1, <1>5, <2>1
<1>8. CASE CheckHistory
  <2>1. past' = past /\ suite' = suite
        /\ (losses' = losses \/ \E failing : \E ok \in BOOLEAN : Transaction(failing, ok))
    BY <1>8 DEF CheckHistory, Goes
  <2> QED
    BY <1>1, <1>5, <2>1
<1>9. CASE Usb \/ Listen \/ Recent \/ RecoveryStatus
  <2>1. past' = past /\ suite' = suite /\ losses' = losses
    BY <1>9 DEF Usb, Listen, Recent, RecoveryStatus, Goes
  <2> QED
    BY <1>1, <2>1
<1> QED
  BY <1>2, <1>3, <1>4, <1>6, <1>7, <1>8, <1>9 DEF Next, Stage

LEMMA ReadingsStep ==
  ASSUME Typed, Placed, Readings, [Next]_vars
  PROVE  Readings'
<1>0. Attempts \in Nat /\ Families \in Nat
  BY DiagnosticsAssumption
<1>1. /\ HealthFaults' = HealthFaults /\ IdentityFaults' = IdentityFaults
      /\ LiveFaults' = LiveFaults /\ FamilyFaults' = FamilyFaults
  BY PastGrows DEF HealthFaults, IdentityFaults, LiveFaults, FamilyFaults
<1>2. /\ Explains(health, HealthFaults, past', losses')
      /\ Explains(identity, IdentityFaults, past', losses')
      /\ Explains(families, FamilyFaults, past', losses')
      /\ Explains(live, LiveFaults, past', losses')
  BY PastGrows, StillExplains DEF Readings
<1>3. health' # health => Explains(health', HealthFaults, past', losses')
  <2>1. SUFFICES ASSUME ReadHealth \/ RecoveryHealth
                 PROVE  Explains(health', HealthFaults, past', losses')
    BY DEF Next, Stage, Change, Begin, Usb, Listen, Probe, ReadIdentity, Recent, ReadFamily,
           ReadLive, CheckHistory, RecoveryBackup, RecoveryStatus, found, vars
  <2>2. PICK ok \in BOOLEAN : Transaction({}, ok) /\ health' = Append(health, ReadingOf(ok))
                              /\ (Len(health) < Attempts \/ Len(health) < 1)
    BY <2>1 DEF ReadHealth, RecoveryHealth, Series
  <2>3. past' = past /\ pc = "health"
    BY <2>1 DEF ReadHealth, RecoveryHealth, Goes
  <2>4. Len(health) \in Nat /\ health \in Seq(Reading)
    BY DEF Typed
  <2>5. HealthFaults[Len(health) + 1] = {}
    BY <2>4 DEF HealthFaults
  <2>6. Explains(health', HealthFaults, past, losses')
    BY <1>0, <2>2, <2>3, <2>4, <2>5, SeriesExplains DEF Readings
  <2> QED
    BY <2>3, <2>6
<1>4. identity' # identity => Explains(identity', IdentityFaults, past', losses')
  <2>1. SUFFICES ASSUME ReadIdentity
                 PROVE  Explains(identity', IdentityFaults, past', losses')
    BY DEF Next, Stage, Change, Begin, Usb, Listen, Probe, ReadHealth, Recent, ReadFamily,
           ReadLive, CheckHistory, RecoveryHealth, RecoveryBackup, RecoveryStatus, found, vars
  <2>2. PICK ok \in BOOLEAN : Transaction({"identity"}, ok)
                              /\ identity' = Append(identity, ReadingOf(ok))
                              /\ Len(identity) < Attempts
    BY <2>1 DEF ReadIdentity, Series
  <2>3. past' = past /\ pc = "identity"
    BY <2>1 DEF ReadIdentity, Goes
  <2>4. Len(identity) \in Nat /\ identity \in Seq(Reading)
    BY DEF Typed
  <2>5. IdentityFaults[Len(identity) + 1] = {"identity"}
    BY <2>4 DEF IdentityFaults
  <2>6. Explains(identity', IdentityFaults, past, losses')
    BY <1>0, <2>2, <2>3, <2>4, <2>5, SeriesExplains DEF Readings
  <2> QED
    BY <2>3, <2>6
<1>5. live' # live => Explains(live', LiveFaults, past', losses')
  <2>1. SUFFICES ASSUME ReadLive PROVE Explains(live', LiveFaults, past', losses')
    BY DEF Next, Stage, Change, Begin, Usb, Listen, Probe, ReadHealth, ReadIdentity, Recent,
           ReadFamily, CheckHistory, RecoveryHealth, RecoveryBackup, RecoveryStatus, found, vars
  <2>2. PICK ok \in BOOLEAN : Transaction({"live"}, ok) /\ live' = Append(live, ReadingOf(ok))
                              /\ Len(live) < Attempts
    BY <2>1 DEF ReadLive, Series
  <2>3. past' = past /\ pc = "live"
    BY <2>1 DEF ReadLive, Goes
  <2>4. Len(live) \in Nat /\ live \in Seq(Reading)
    BY DEF Typed
  <2>5. LiveFaults[Len(live) + 1] = {"live"}
    BY <2>4 DEF LiveFaults
  <2>6. Explains(live', LiveFaults, past, losses')
    BY <1>0, <2>2, <2>3, <2>4, <2>5, SeriesExplains DEF Readings
  <2> QED
    BY <2>3, <2>6
<1>6. families' # families => Explains(families', FamilyFaults, past', losses')
  <2>1. SUFFICES ASSUME ReadFamily \/ RecoveryBackup
                 PROVE  Explains(families', FamilyFaults, past', losses')
    BY DEF Next, Stage, Change, Begin, Usb, Listen, Probe, ReadHealth, ReadIdentity, Recent,
           ReadLive, CheckHistory, RecoveryHealth, RecoveryStatus, found, vars
  <2>2. past' = past /\ pc = "families"
    BY <2>1 DEF ReadFamily, RecoveryBackup, Goes
  <2>3. Len(families) \in Nat /\ families \in Seq(Reading)
    BY DEF Typed
  <2>4. PICK ok \in BOOLEAN : Transaction(FamilyFaults[Len(families) + 1], ok)
                              /\ families' = Append(families, ReadingOf(ok))
                              /\ (Len(families) < Families \/ Len(families) < 1)
    <3>1. CASE ReadFamily
      <4>1. suite = "deep"
        BY <3>1 DEF ReadFamily, Goes
      <4>2. Len(families) = Families - 1 <=> Len(families) + 1 = Families
        BY <1>0, <2>3
      <4>3. FamilyFaults[Len(families) + 1]
              = IF Len(families) = Families - 1 THEN {"families"} ELSE {}
        BY <2>3, <4>1, <4>2 DEF FamilyFaults
      <4> QED
        BY <3>1, <4>3 DEF ReadFamily, Series
    <3>2. CASE RecoveryBackup
      <4>1. suite = "recovery"
        BY <3>2 DEF RecoveryBackup
      <4>2. FamilyFaults[Len(families) + 1] = {"identity", "families"}
        BY <2>3, <4>1 DEF FamilyFaults
      <4> QED
        BY <3>2, <4>2 DEF RecoveryBackup, Series
    <3> QED
      BY <2>1, <3>1, <3>2
  <2>5. Explains(families', FamilyFaults, past, losses')
    BY <1>0, <2>2, <2>3, <2>4, SeriesExplains DEF Readings
  <2> QED
    BY <2>2, <2>5
<1> QED
  BY <1>1, <1>2, <1>3, <1>4, <1>5, <1>6 DEF Readings

-----------------------------------------------------------------------------
(* The last health reading that came. *)

LastThere == Valid(health) # {} => \E i \in Valid(health) : \A j \in Valid(health) : j <= i

\* Only a read of its stage adds a health reading.
LEMMA HealthGrows ==
  ASSUME [Next]_vars
  PROVE  \/ health' = health
         \/ /\ pc = "health" /\ past' = past
            /\ \E ok \in BOOLEAN : /\ Transaction({}, ok)
                                   /\ health' = Append(health, ReadingOf(ok))
<1>1. CASE ReadHealth
  <2>1. pc = "health" /\ past' = past
    BY <1>1 DEF ReadHealth, Goes
  <2> QED
    BY <1>1, <2>1 DEF ReadHealth, Series
<1>2. CASE RecoveryHealth
  <2>1. pc = "health" /\ past' = past
    BY <1>2 DEF RecoveryHealth
  <2> QED
    BY <1>2, <2>1 DEF RecoveryHealth, Series
<1>3. CASE ~ ReadHealth /\ ~ RecoveryHealth
  BY <1>3 DEF Next, Stage, Change, Begin, Usb, Listen, Probe, ReadIdentity, Recent, ReadFamily,
              ReadLive, CheckHistory, RecoveryBackup, RecoveryStatus, found, vars
<1> QED
  BY <1>1, <1>2, <1>3

LEMMA LastThereStep == ASSUME Typed, LastThere, [Next]_vars PROVE LastThere'
<1>1. CASE health' = health
  BY <1>1 DEF LastThere, Valid
<1>2. CASE health' # health
  <2>1. PICK ok \in BOOLEAN : health' = Append(health, ReadingOf(ok))
    BY <1>2, HealthGrows
  <2>2. ReadingOf(ok).ok = ok
    BY DEF ReadingOf
  <2> DEFINE r == ReadingOf(ok)
             n == Len(health)
  <2>3. health \in Seq(Reading) /\ n \in Nat
    BY DEF Typed
  <2>4. r \in Reading
    BY ReadingTypes DEF Typed
  <2> HIDE DEF r
  <2>5. /\ Len(health') = n + 1 /\ health'[n + 1] = r
        /\ \A i \in 1 .. n : health'[i] = health[i]
    BY <2>1, <2>3, <2>4 DEF r
  <2> HIDE DEF n
  <2>6. \A i \in 1 .. n : i \in 1 .. n + 1 /\ i <= n + 1
    BY <2>3
  <2>7. \A i \in 1 .. n + 1 : i \in 1 .. n \/ i = n + 1
    BY <2>3
  <2>8. CASE ok
    <3>1. n + 1 \in Valid(health)'
      <4>1. n + 1 \in 1 .. n + 1
        BY <2>3
      <4>2. Valid(health)' = {i \in 1 .. n + 1 : health'[i].ok}
        BY <2>5 DEF Valid
      <4> QED
        BY <2>2, <2>5, <2>8, <4>1, <4>2 DEF r
    <3>2. \A j \in Valid(health)' : j <= n + 1
      BY <2>3, <2>5 DEF Valid
    <3> QED
      BY <3>1, <3>2 DEF LastThere
  <2>9. CASE ~ ok
    <3>1. Valid(health)' = Valid(health)
      BY <2>2, <2>5, <2>6, <2>7, <2>9 DEF Valid, r, n
    <3> QED
      BY <3>1 DEF LastThere
  <2> QED
    BY <2>8, <2>9
<1> QED
  BY <1>1, <1>2

LEMMA LastValid ==
  ASSUME LastThere, Valid(health) # {}
  PROVE  \E i \in Valid(health) : LastHealth = health[i].faults
<1>1. PICK i \in Valid(health) : \A j \in Valid(health) : j <= i
  BY DEF LastThere
<1>2. (CHOOSE k \in Valid(health) : \A j \in Valid(health) : j <= k) \in Valid(health)
  BY <1>1
<1> QED
  BY <1>2 DEF LastHealth

-----------------------------------------------------------------------------
(* What the other findings come from. *)

LEMMA DoneStays == ASSUME pc = "done", [Next]_vars PROVE UNCHANGED vars
BY DEF Next, Stage, Change, Begin, Usb, Listen, Probe, ReadHealth, ReadIdentity, Recent,
       ReadFamily, ReadLive, CheckHistory, RecoveryHealth, RecoveryBackup, RecoveryStatus, Goes

\* At some time the sensor answered without this fault.
Without(f) == \E i \in DOMAIN past : past[i].link = "up" /\ f \notin past[i].faults

Marks ==
  /\ usb = "absent" => Was("absent")
  /\ usb = "denied" => Was("denied")
  /\ listened => Was("boot") \/ Was("noise")
  /\ history = "bad" => Missed \/ Had({"history"})
  /\ history = "ok" => "clock" \notin LastHealth /\ Without("history")

LEMMA MarksStep == ASSUME Typed, Placed, Marks, [Next]_vars PROVE Marks'
<1>1. /\ \A link : Was(link) => Was(link)'
      /\ Missed => Missed'
      /\ Had({"history"}) => Had({"history"})'
      /\ Without("history") => Without("history")'
  <2>1. losses > 0 => losses' > 0
    BY PastGrows
  <2>2. \A i \in DOMAIN past : i \in DOMAIN past' /\ past'[i] = past[i]
    BY PastGrows
  <2> QED
    BY <2>1, <2>2 DEF Was, Missed, Had, Without
<1>2. CASE UNCHANGED vars
  BY <1>2 DEF vars, Marks, Was, Missed, Had, Without, LastHealth, Valid
<1>3. CASE Usb
  <2>1. history = "skipped" /\ history' = history /\ listened' = listened
        /\ (usb' = "absent" => now.link = "absent") /\ (usb' = "denied" => now.link = "denied")
        /\ pc # "idle" /\ past' = past
    BY <1>3 DEF Usb, Placed
  <2>2. Len(past) \in DOMAIN past /\ past[Len(past)] = now
    BY <2>1, NowIsPast
  <2>3. (usb' = "absent" => Was("absent")) /\ (usb' = "denied" => Was("denied"))
    BY <2>1, <2>2 DEF Was
  <2> QED
    BY <1>1, <2>1, <2>3 DEF Marks
<1>4. CASE Listen
  <2>1. history = "skipped" /\ history' = history /\ usb' = usb
        /\ (listened' => now.link \in {"boot", "noise"}) /\ pc # "idle" /\ past' = past
    BY <1>4, ListenHears DEF Listen, Goes, Placed
  <2>2. Len(past) \in DOMAIN past /\ past[Len(past)] = now
    BY <2>1, NowIsPast
  <2>3. listened' => Was("boot") \/ Was("noise")
    BY <2>1, <2>2 DEF Was
  <2> QED
    BY <1>1, <2>1, <2>3 DEF Marks
<1>5. CASE CheckHistory
  <2>1. usb' = usb /\ listened' = listened /\ pc # "idle" /\ past' = past /\ health' = health
    BY <1>5 DEF CheckHistory, Goes
  <2>2. Len(past) \in DOMAIN past /\ past[Len(past)] = now
    BY <2>1, NowIsPast
  <2>3. LastHealth' = LastHealth
    BY <2>1 DEF LastHealth, Valid
  <2>4. CASE history' = "skipped"
    BY <1>1, <2>1, <2>4 DEF Marks
  <2>5. CASE history' # "skipped"
    <3>1. "clock" \notin LastHealth
      BY <1>5, <2>5 DEF CheckHistory
    <3>2. PICK ok \in BOOLEAN : /\ Transaction({"history"}, ok)
                                /\ history' = IF ok THEN "ok" ELSE "bad"
      BY <1>5, <2>5 DEF CheckHistory
    <3>3. CASE ok
      <4>1. now.link = "up" /\ "history" \notin now.faults
        BY <3>2, <3>3 DEF Transaction, Answers
      <4>2. Without("history")
        BY <2>2, <4>1 DEF Without
      <4> QED
        BY <1>1, <2>1, <2>3, <3>1, <3>2, <3>3, <4>2 DEF Marks
    <3>4. CASE ~ ok
      <4>1. losses' > 0 \/ now.link # "up" \/ now.faults \cap {"history"} # {}
        <5>1. losses \in Nat
          BY DEF Typed
        <5> QED
          BY <3>2, <3>4, <5>1 DEF Transaction, Answers
      <4>2. (Missed \/ Had({"history"}))'
        BY <2>1, <2>2, <4>1 DEF Missed, Had
      <4> QED
        BY <1>1, <2>1, <3>2, <3>4, <4>2 DEF Marks
    <3> QED
      BY <3>3, <3>4
  <2> QED
    BY <2>4, <2>5
<1>6. CASE Change \/ Begin \/ Probe \/ ReadHealth \/ ReadIdentity \/ Recent \/ ReadFamily
           \/ ReadLive \/ RecoveryHealth \/ RecoveryBackup \/ RecoveryStatus
  <2>1. pc # "done" /\ usb' = usb /\ listened' = listened /\ history' = history
    BY <1>6 DEF Change, Begin, Probe, ReadHealth, ReadIdentity, Recent, ReadFamily, ReadLive,
                RecoveryHealth, RecoveryBackup, RecoveryStatus, Goes, found
  <2>2. history = "skipped"
    BY <2>1 DEF Placed
  <2> QED
    BY <1>1, <2>1, <2>2 DEF Marks
<1> QED
  BY <1>2, <1>3, <1>4, <1>5, <1>6 DEF Next, Stage

-----------------------------------------------------------------------------
(* Lost answers. *)

AllUp == \A i \in DOMAIN past : past[i].link = "up"

\* The probe of the framing brought nothing.
ProbeLost == IF /\ suite = "deep" /\ usb = "open" /\ probe = "none"
                /\ pc \notin {"idle", "usb", "listen", "probe"} THEN 1 ELSE 0

\* Of a sensor that answers all the time, each reading that did not come is an
\* answer lost.
Losses == AllUp /\ Valid(health) = {} => losses >= Len(health) + ProbeLost

LEMMA LossesStep == ASSUME Typed, Placed, Losses, [Next]_vars PROVE Losses'
<1>1. SUFFICES ASSUME AllUp', Valid(health)' = {} PROVE losses' >= (Len(health) + ProbeLost)'
  BY DEF Losses
<1>2. AllUp
  BY <1>1, PastGrows DEF AllUp
<1>3. losses \in Nat /\ losses' \in Nat /\ losses' >= losses
  BY PastGrows
<1>4. Len(health) \in Nat /\ Len(health') \in Nat
  BY TypedStep DEF Typed
<1>5. ProbeLost \in {0, 1} /\ ProbeLost' \in {0, 1}
  BY DEF ProbeLost
<1>6. pc # "idle" => now.link = "up"
  BY <1>2, NowIsPast DEF AllUp
<1>7. CASE health' # health
  <2>1. PICK ok \in BOOLEAN : Transaction({}, ok) /\ health' = Append(health, ReadingOf(ok))
    BY <1>7, HealthGrows
  <2>2. pc = "health"
    BY <1>7, HealthGrows
  <2> DEFINE n == Len(health)
             r == ReadingOf(ok)
  <2>3. health \in Seq(Reading) /\ r \in Reading /\ r.ok = ok
    BY ReadingTypes DEF Typed
  <2> HIDE DEF r
  <2>4. /\ Len(health') = n + 1 /\ health'[n + 1] = r
        /\ \A i \in 1 .. n : health'[i] = health[i]
    BY <2>1, <2>3 DEF r
  <2> HIDE DEF n
  <2>5. /\ n \in Nat /\ \A i \in 1 .. n : i \in 1 .. n + 1
        /\ n + 1 \in 1 .. n + 1
    BY <1>4 DEF n
  <2>6. Valid(health)' = {i \in 1 .. n + 1 : health'[i].ok}
    BY <2>4 DEF Valid
  <2>7. ~ ok
    BY <1>1, <2>3, <2>4, <2>5, <2>6
  <2>8. Valid(health) = {}
    <3>1. Valid(health) = {i \in 1 .. n : health[i].ok}
      BY DEF Valid, n
    <3> QED
      BY <1>1, <2>4, <2>5, <2>6, <3>1
  <2>9. losses' = losses + 1
    <3>1. Answers({})
      BY <1>6, <2>2 DEF Answers
    <3> QED
      BY <2>1, <2>7, <3>1 DEF Transaction
  <2>10. ProbeLost' = ProbeLost
    <3>1. ReadHealth \/ RecoveryHealth
      BY <1>7 DEF Next, Stage, Change, Begin, Usb, Listen, Probe, ReadIdentity, Recent,
         ReadFamily,
                  ReadLive, CheckHistory, RecoveryBackup, RecoveryStatus, found, vars
    <3>2. pc' \in {"health", "identity", "families", "done"}
      BY <3>1 DEF ReadHealth, RecoveryHealth, Goes
    <3>3. suite' = suite /\ usb' = usb /\ probe' = probe
      BY <3>1 DEF ReadHealth, RecoveryHealth, Goes
    <3> QED
      BY <2>2, <3>2, <3>3 DEF ProbeLost
  <2>11. losses >= n + ProbeLost
    BY <1>2, <2>8 DEF Losses, n
  <2> QED
    BY <1>3, <1>5, <2>4, <2>5, <2>9, <2>10, <2>11
<1>8. CASE health' = health
  <2>1. Valid(health) = {}
    BY <1>1, <1>8 DEF Valid
  <2>2. losses >= Len(health) + ProbeLost
    BY <1>2, <2>1 DEF Losses
  <2>3. CASE Probe
    <3>1. ProbeLost = 0 /\ pc # "idle"
      BY <2>3 DEF Probe, Goes, ProbeLost
    <3>2. PICK ok \in BOOLEAN : Transaction({}, ok) /\ (probe' = "none" => ~ ok)
      BY <2>3 DEF Probe
    <3>3. ~ ok => losses' = losses + 1
      BY <1>6, <3>1, <3>2 DEF Transaction, Answers
    <3>4. ok => ProbeLost' = 0
      BY <3>2 DEF ProbeLost
    <3> QED
      BY <1>3, <1>4, <1>5, <1>8, <2>2, <3>1, <3>3, <3>4
  <2>4. CASE ~ Probe
    <3>1. ProbeLost' = ProbeLost \/ ProbeLost' = 0
      <4>1. CASE Change \/ UNCHANGED vars
        BY <4>1 DEF Change, vars, found, ProbeLost
      <4>2. CASE Begin
        BY <4>2 DEF Begin, ProbeLost
      <4>3. CASE Usb
        BY <4>3 DEF Usb, ProbeLost
      <4>4. CASE Listen
        BY <4>4 DEF Listen, Goes, ProbeLost
      <4>5. CASE ReadHealth \/ ReadIdentity \/ Recent \/ ReadFamily \/ ReadLive \/ CheckHistory
        <5>1. suite' = suite /\ usb' = usb /\ probe' = probe
              /\ pc \notin {"idle", "usb", "listen", "probe"}
          BY <4>5 DEF ReadHealth, ReadIdentity, Recent, ReadFamily, ReadLive, CheckHistory, Goes
        <5> QED
          BY <5>1 DEF ProbeLost
      <4>6. CASE RecoveryHealth \/ RecoveryBackup \/ RecoveryStatus
        BY <4>6 DEF RecoveryHealth, RecoveryBackup, RecoveryStatus, ProbeLost
      <4> QED
        BY <2>4, <4>1, <4>2, <4>3, <4>4, <4>5, <4>6 DEF Next, Stage
    <3> QED
      BY <1>3, <1>4, <1>5, <1>8, <2>2, <3>1
  <2> QED
    BY <2>3, <2>4
<1> QED
  BY <1>7, <1>8

-----------------------------------------------------------------------------
(* The invariant, and what it says when the run is done. *)

IInv == Typed /\ Placed /\ Readings /\ LastThere /\ Marks /\ Losses

LEMMA IInvAlways == Spec => []IInv
<1>1. ASSUME Init PROVE IInv
  <2>1. Typed
    BY <1>1, TypedInit
  <2>2. /\ health = << >> /\ identity = << >> /\ families = << >> /\ live = << >>
        /\ usb = "open" /\ ~ listened /\ history = "skipped" /\ losses = 0 /\ pc = "idle"
        /\ past = << >>
    BY <1>1 DEF Init
  <2>3. Placed
    BY <2>2 DEF Placed, Come
  <2>4. \A F, p, l : Explains(<< >>, F, p, l)
    BY DEF Explains
  <2>5. Valid(health) = {}
    BY <2>2 DEF Valid
  <2>6. ProbeLost = 0 /\ Len(health) = 0
    BY <2>2 DEF ProbeLost
  <2> QED
    BY <2>1, <2>2, <2>3, <2>4, <2>5, <2>6 DEF IInv, Readings, LastThere, Marks, Losses
<1>2. ASSUME IInv, [Next]_vars PROVE IInv'
  BY <1>2, TypedStep, PlacedStep, ReadingsStep, LastThereStep, MarksStep, LossesStep DEF IInv
<1> QED
  BY <1>1, <1>2, PTL DEF Spec

\* A reading that came is of a sensor that answered; one that did not has a
\* reason.
LEMMA ReadingSeen ==
  ASSUME NEW s, NEW F, Explains(s, F, past, losses), NEW i \in 1 .. Len(s)
  PROVE  /\ s[i].ok => \E k \in DOMAIN past : /\ past[k].link = "up" /\ past[k].node = s[i].node
                                              /\ past[k].faults = s[i].faults
         /\ s[i].ok => s[i].faults \cap F[i] = {}
         /\ ~ s[i].ok => Missed \/ Had(F[i])
BY DEF Explains, Explained, Missed, Had

\* What the last health reading showed, a sensor that answered showed.
LEMMA HealthSeen ==
  ASSUME IInv, Valid(health) # {}
  PROVE  \E k \in DOMAIN past : past[k].link = "up" /\ past[k].faults = LastHealth
<1>1. PICK i \in Valid(health) : LastHealth = health[i].faults
  BY LastValid DEF IInv
<1>2. i \in 1 .. Len(health) /\ health[i].ok
  BY DEF Valid
<1>3. Explains(health, HealthFaults, past, losses)
  BY DEF IInv, Readings
<1> QED
  BY <1>1, <1>2, <1>3, ReadingSeen

LEMMA CauseIsThere == ASSUME IInv PROVE CauseSeen
<1> DEFINE said == Classification
<1>1. SUFFICES ASSUME Done, suite = "deep" PROVE CauseSeen
  BY DEF CauseSeen
<1>2. usb \in {"absent", "denied", "open"} /\ pc = "done"
  BY <1>1 DEF IInv, Typed, Done
<1>3. /\ Explains(health, HealthFaults, past, losses)
      /\ Explains(identity, IdentityFaults, past, losses)
      /\ Explains(families, FamilyFaults, past, losses)
      /\ Explains(live, LiveFaults, past, losses)
  BY DEF IInv, Readings
<1>4. /\ \A i \in 1 .. Len(health) : HealthFaults[i] = {}
      /\ \A i \in 1 .. Len(identity) : IdentityFaults[i] = {"identity"}
      /\ \A i \in 1 .. Len(live) : LiveFaults[i] = {"live"}
      /\ \A i \in 1 .. Len(families) : FamilyFaults[i] \subseteq {"families"}
  <2>1. \A n \in Nat : \A i \in 1 .. n : i \in Nat
    OBVIOUS
  <2>2. Len(health) \in Nat /\ Len(identity) \in Nat /\ Len(live) \in Nat /\ Len(families) \in Nat
    BY DEF IInv, Typed
  <2> QED
    BY <1>1, <2>1, <2>2 DEF HealthFaults, IdentityFaults, LiveFaults, FamilyFaults
<1>5. \A F : Had({}) = FALSE /\ (F \subseteq {"families"} /\ Had(F) => Had({"families"}))
  BY DEF Had
<1>6. CASE usb # "open"
  BY <1>2, <1>6, Classified DEF CauseSeen, IInv, Marks
<1>7. CASE usb = "open"
  <2>1. /\ Len(health) = Attempts /\ Len(identity) = Attempts /\ Len(live) = Attempts
        /\ (resets <=> "resets" \in LastHealth)
    BY <1>1, <1>2, <1>7 DEF IInv, Placed, Come
  <2>2. 1 \in 1 .. Attempts
    BY DiagnosticsAssumption
  <2>3. usb \notin {"absent", "denied"}
    BY <1>7
  <2>4. CASE listened
    <3>1. said = "possible_bootloader_mode" /\ (Was("boot") \/ Was("noise"))
      BY <2>3, <2>4, Classified DEF IInv, Marks
    <3> QED
      BY <3>1 DEF CauseSeen
  <2>5. CASE ~ listened /\ Valid(health) = {} /\ probe # "none"
    <3>1. said = "serial_framing_or_firmware"
      BY <2>3, <2>5, Classified
    <3>2. 1 \in 1 .. Len(health) /\ ~ health[1].ok
      BY <2>1, <2>2, <2>5 DEF Valid
    <3>3. Missed
      <4>1. Missed \/ Had(HealthFaults[1])
        BY <1>3, <3>2, ReadingSeen
      <4>2. HealthFaults[1] = {}
        BY <1>4, <3>2
      <4> QED
        BY <4>1, <4>2 DEF Had
    <3> QED
      BY <3>1, <3>3 DEF CauseSeen
  <2>6. CASE ~ listened /\ Valid(health) = {} /\ ~ probe # "none"
    <3>1. said = "sensor_power_mcu_or_uart"
      BY <2>3, <2>6, Classified
    <3>2. AllUp => losses >= Attempts + 1
      <4>1. ProbeLost = 1
        BY <1>1, <1>2, <1>7, <2>6 DEF ProbeLost
      <4> QED
        BY <2>1, <2>6, <4>1 DEF IInv, Losses
    <3>3. AllUp => losses > Attempts
      <4>1. losses \in Nat /\ Attempts \in Nat
        BY DiagnosticsAssumption DEF IInv, Typed
      <4> QED
        BY <3>2, <4>1
    <3>4. losses > Attempts \/ \E i \in DOMAIN past : past[i].link # "up"
      BY <3>3 DEF AllUp
    <3> QED
      BY <3>1, <3>4 DEF CauseSeen
  <2>7. CASE ~ listened /\ Valid(health) # {} /\ ~ Consistent
    <3>1. said = "unstable_identity"
      BY <2>3, <2>7, Classified
    <3>2. PICK i,
       j \in 1 .. Len(health) : health[i].ok /\ health[j].ok /\ health[i].node # health[j].node
      BY <2>7 DEF Consistent
    <3>3. \E k \in DOMAIN past : past[k].link = "up" /\ past[k].node = health[i].node
      BY <1>3, <3>2, ReadingSeen
    <3>4. \E k \in DOMAIN past : past[k].link = "up" /\ past[k].node = health[j].node
      BY <1>3, <3>2, ReadingSeen
    <3>5. \E k, l \in DOMAIN past : past[k].link = "up" /\ past[l].link = "up"
                                    /\ past[k].node # past[l].node
      BY <3>2, <3>3, <3>4
    <3> QED
      BY <3>1, <3>5 DEF CauseSeen
  <2>8. CASE ~ listened /\ Valid(health) # {} /\ Consistent
    <3>1. PICK k \in DOMAIN past : past[k].link = "up" /\ past[k].faults = LastHealth
      BY <2>8, HealthSeen
    <3>2. CASE LowBattery
      <4>1. said = "power_problem"
        BY <2>3, <2>8, <3>2, Classified
      <4>2. Had({"battery"})
        BY <3>1, <3>2 DEF Had, LowBattery
      <4> QED
        BY <4>1, <4>2 DEF CauseSeen
    <3>3. CASE ~ LowBattery /\ resets
      <4>1. said = "repeated_sensor_resets"
        BY <2>3, <2>8, <3>3, Classified
      <4>2. Had({"resets"})
        BY <2>1, <3>1, <3>3 DEF Had
      <4> QED
        BY <4>1, <4>2 DEF CauseSeen
    <3>4. CASE ~ LowBattery /\ ~ resets /\ IdentityFails
      <4>1. said = "identity_or_firmware_instability"
        BY <2>3, <2>8, <3>4, Classified
      <4>2. Missed \/ Had({"identity"})
        <5>1. PICK i \in 1 .. Len(identity) : ~ identity[i].ok
          BY <3>4 DEF IdentityFails
        <5>2. Missed \/ Had(IdentityFaults[i])
          BY <1>3, <5>1, ReadingSeen
        <5>3. IdentityFaults[i] = {"identity"}
          BY <1>4
        <5> QED
          BY <5>2, <5>3 DEF Had
      <4> QED
        BY <4>1, <4>2 DEF CauseSeen
    <3> DEFINE Third == ~ LowBattery /\ ~ resets /\ ~ IdentityFails
    <3>5. CASE Third /\ ConfigFails
      <4>1. said = "configuration_or_firmware_problem"
        BY <2>3, <2>8, <3>5, Classified
      <4>2. \E i \in 1 .. Len(families) : ~ families[i].ok
        <5>1. identity[1].ok
          BY <2>1, <2>2, <3>5 DEF IdentityFails
        <5> QED
          BY <3>5, <5>1 DEF ConfigFails
      <4>3. Missed \/ Had({"families"})
        BY <1>3, <1>4, <1>5, <4>2, ReadingSeen
      <4> QED
        BY <4>1, <4>3 DEF CauseSeen
    <3>6. CASE Third /\ ~ ConfigFails /\ LiveFails
      <4>1. said = "measurement_hardware_or_firmware"
        BY <2>3, <2>8, <3>6, Classified
      <4>2. CASE Valid(live) = {}
        <5>1. 1 \in 1 .. Len(live) /\ ~ live[1].ok
          BY <2>1, <2>2, <4>2 DEF Valid
        <5>2. Missed \/ Had(LiveFaults[1])
          BY <1>3, <5>1, ReadingSeen
        <5>3. LiveFaults[1] = {"live"}
          BY <1>4, <5>1
        <5>4. Missed \/ Had({"live", "error"})
          BY <5>2, <5>3 DEF Had
        <5> QED
          BY <4>1, <5>4 DEF CauseSeen
      <4>3. CASE Shows(live, "error")
        <5>1. PICK i \in 1 .. Len(live) : live[i].ok /\ "error" \in live[i].faults
          BY <4>3 DEF Shows
        <5>2. \E j \in DOMAIN past : past[j].faults = live[i].faults
          BY <1>3, <5>1, ReadingSeen
        <5>3. Missed \/ Had({"live", "error"})
          BY <5>1, <5>2 DEF Had
        <5> QED
          BY <4>1, <5>3 DEF CauseSeen
      <4> QED
        BY <3>6, <4>2, <4>3 DEF LiveFails
    <3>7. CASE Third /\ ~ ConfigFails /\ ~ LiveFails /\ Shows(live, "angle")
      <4>1. said = "measurement_plausibility_problem"
        BY <2>3, <2>8, <3>7, Classified
      <4>2. PICK i \in 1 .. Len(live) : live[i].ok /\ "angle" \in live[i].faults
        BY <3>7 DEF Shows
      <4>3. \E j \in DOMAIN past : past[j].faults = live[i].faults
        BY <1>3, <4>2, ReadingSeen
      <4>4. Had({"angle"})
        BY <4>2, <4>3 DEF Had
      <4> QED
        BY <4>1, <4>4 DEF CauseSeen
    <3>8. CASE Third /\ ~ ConfigFails /\ ~ LiveFails /\ ~ Shows(live, "angle") /\ history = "bad"
      <4>1. said = "history_or_storage_problem"
        BY <2>3, <2>8, <3>8, Classified
      <4>2. Missed \/ Had({"history"})
        BY <3>8 DEF IInv, Marks
      <4> QED
        BY <4>1, <4>2 DEF CauseSeen
    <3>9. CASE Third /\ ~ ConfigFails /\ ~ LiveFails /\ ~ Shows(live, "angle") /\ history # "bad"
      <4>1. said = "sensor_responsive"
        BY <2>3, <2>8, <3>9, Classified
      <4>2. Was("up")
        BY <3>1 DEF Was
      <4> QED
        BY <4>1, <4>2 DEF CauseSeen
    <3> QED
      BY <3>2, <3>3, <3>4, <3>5, <3>6, <3>7, <3>8, <3>9
  <2> QED
    BY <2>4, <2>5, <2>6, <2>7, <2>8
<1> QED
  BY <1>6, <1>7

\* Whatever changes during a run of the deep suite and whatever is lost, the
\* cause it names was there at some time of the run: run_deep_diagnostics
\* reads in twenty transactions, and _classify sees only what they brought.
THEOREM NamedCauseWasThere == Spec => []CauseSeen
BY IInvAlways, CauseIsThere, PTL

-----------------------------------------------------------------------------
(* What a verdict of "ready" rests on. *)

\* A reading that came without the fault is a moment without it.
LEMMA ReadingWithout ==
  ASSUME NEW s, NEW F, Explains(s, F, past, losses), NEW i \in 1 .. Len(s), s[i].ok, NEW f,
         f \in F[i] \/ f \notin s[i].faults
  PROVE  Without(f)
<1>1. \E k \in DOMAIN past : past[k].link = "up" /\ past[k].faults = s[i].faults
  BY ReadingSeen
<1>2. f \notin s[i].faults
  BY ReadingSeen
<1> QED
  BY <1>1, <1>2 DEF Without

LEMMA HealthWithout ==
  ASSUME IInv, Valid(health) # {}, NEW f, f \notin LastHealth
  PROVE  Without(f)
BY HealthSeen DEF Without

\* "ready" of the deep suite: no rule but the last one applies.
LEMMA ReadyConditions ==
  ASSUME usb \in {"absent", "denied", "open"}, Verdict[2] = "ready"
  PROVE  /\ usb = "open" /\ Valid(health) # {} /\ ~ LowBattery /\ ~ resets /\ ~ IdentityFails
         /\ ~ ConfigFails /\ ~ LiveFails /\ ~ Shows(live, "angle") /\ history # "bad"
<1>1. usb = "open"
  BY Classified
<1>2. usb \notin {"absent", "denied"}
  BY <1>1
<1> QED
  BY <1>1, <1>2, Classified

LEMMA ReadyIsWitnessed == ASSUME IInv PROVE ReadyWitnessed
<1>1. SUFFICES ASSUME Done, Overall = "ready", NEW f \in Looked PROVE Without(f)
  BY DEF ReadyWitnessed, Without
<1>2. usb \in {"absent", "denied", "open"} /\ pc = "done" /\ suite \in {"deep", "recovery"}
      /\ history \in {"ok", "skipped", "bad"}
  BY <1>1 DEF IInv, Typed, Done
<1>3. /\ Explains(identity, IdentityFaults, past, losses)
      /\ Explains(families, FamilyFaults, past, losses)
      /\ Explains(live, LiveFaults, past, losses)
  BY DEF IInv, Readings
<1>4. CASE suite = "deep"
  <2>1. Verdict[2] = "ready"
    BY <1>1, <1>4 DEF Overall
  <2>2. /\ usb = "open" /\ Valid(health) # {} /\ ~ LowBattery /\ ~ resets /\ ~ IdentityFails
        /\ ~ ConfigFails /\ ~ LiveFails /\ ~ Shows(live, "angle") /\ history # "bad"
    BY <1>2, <2>1, ReadyConditions
  <2>3. /\ Len(identity) = Attempts /\ Len(families) = Families
        /\ (resets <=> "resets" \in LastHealth)
    BY <1>2, <1>4, <2>2 DEF IInv, Placed, Come
  <2>4. 1 \in 1 .. Attempts /\ Families \in 1 .. Families /\ Families \in Nat /\ 1 \in Nat
    BY DiagnosticsAssumption
  <2>5. PICK i \in 1 .. Len(live) : live[i].ok
    BY <2>2 DEF LiveFails, Valid
  <2>6. CASE f \in {"battery", "resets"}
    <3>1. f \notin LastHealth
      BY <2>2, <2>3, <2>6 DEF LowBattery
    <3> QED
      BY <2>2, <3>1, HealthWithout
  <2>7. CASE f = "identity"
    <3>1. 1 \in 1 .. Len(identity) /\ identity[1].ok
      BY <2>2, <2>3, <2>4 DEF IdentityFails
    <3>2. f \in IdentityFaults[1]
      BY <2>4, <2>7 DEF IdentityFaults
    <3> QED
      BY <1>3, <3>1, <3>2, ReadingWithout
  <2>8. CASE f = "families"
    <3>1. Families \in 1 .. Len(families) /\ families[Families].ok
      BY <2>2, <2>3, <2>4 DEF ConfigFails
    <3>2. f \in FamilyFaults[Families]
      BY <1>4, <2>4, <2>8 DEF FamilyFaults
    <3> QED
      BY <1>3, <3>1, <3>2, ReadingWithout
  <2>9. CASE f = "live"
    <3>1. f \in LiveFaults[i]
      <4>1. i \in Nat
        BY DEF IInv, Typed
      <4> QED
        BY <2>9, <4>1 DEF LiveFaults
    <3> QED
      BY <1>3, <2>5, <3>1, ReadingWithout
  <2>10. CASE f \in {"error", "angle"}
    <3>1. f \notin live[i].faults
      BY <2>2, <2>5, <2>10 DEF LiveFails, Shows
    <3> QED
      BY <1>3, <2>5, <3>1, ReadingWithout
  <2>11. CASE f \in {"clock", "history"}
    <3>1. history = "ok"
      <4>1. history # "skipped"
        BY <1>1, <1>4, <2>11 DEF Looked
      <4> QED
        BY <1>2, <2>2, <4>1
    <3>2. "clock" \notin LastHealth /\ Without("history")
      BY <3>1 DEF IInv, Marks
    <3> QED
      BY <2>2, <2>11, <3>2, HealthWithout
  <2>12. f \in DeepFault
    BY <1>1, <1>4 DEF Looked
  <2> QED
    BY <2>6, <2>7, <2>8, <2>9, <2>10, <2>11, <2>12 DEF DeepFault
<1>5. CASE suite = "recovery"
  <2>1. ~ RecoveryFailed /\ ~ RecoveryWarns
    BY <1>1, <1>5 DEF Overall
  <2>2. f \in RecoveryFault
    BY <1>1, <1>5 DEF Looked
  <2>3. CASE f = "battery"
    <3>1. Valid(health) # {} /\ f \notin LastHealth
      BY <2>1, <2>3 DEF RecoveryFailed, RecoveryWarns, LowBattery
    <3> QED
      BY <3>1, HealthWithout
  <2>4. CASE f # "battery"
    <3>1. PICK i \in 1 .. Len(families) : families[i].ok
      BY <2>1 DEF RecoveryFailed, Valid
    <3>2. FamilyFaults[i] = {"identity", "families"}
      <4>1. i \in Nat
        BY DEF IInv, Typed
      <4> QED
        BY <1>5, <4>1 DEF FamilyFaults
    <3>3. f \in {"sentinel", "radio", "axes"} => f \notin families[i].faults
      BY <2>1, <3>1 DEF RecoveryFailed, RecoveryWarns, Shows
    <3>4. f \in FamilyFaults[i] \/ f \notin families[i].faults
      BY <2>2, <2>4, <3>2, <3>3 DEF RecoveryFault
    <3> QED
      BY <1>3, <3>1, <3>4, ReadingWithout
  <2> QED
    BY <2>3, <2>4
<1> QED
  BY <1>2, <1>4, <1>5

\* "ready" means that everything the suite looks at was in order at some time
\* of the run, for the deep suite and for the recovery check, however many
\* readings each step takes.
THEOREM ReadyIsEarned == Spec => []ReadyWitnessed
BY IInvAlways, ReadyIsWitnessed, PTL

-----------------------------------------------------------------------------
(* A run in which nothing changes and nothing is lost. *)

\* The reading is what a query that these faults fail brings at this situation.
Faithful(r, at, failing) ==
  /\ r.ok <=> at.link = "up" /\ at.faults \cap failing = {}
  /\ r.ok => r.node = at.node /\ r.faults = at.faults

Matches(s, F, at) == \A i \in 1 .. Len(s) : Faithful(s[i], at, F[i])

Undisturbed == suite = "deep" /\ Len(past) = 1 /\ losses = 0

ProbesOf(at) == IF at.link = "up" THEN {"framed"} ELSE Heard(at.link)

HistoryOf(at) == IF "clock" \in LastHealth THEN "skipped"
                 ELSE IF at.link = "up" /\ at.faults \cap {"history"} = {} THEN "ok" ELSE "bad"

FindingsOf(at) ==
  /\ usb = IF pc \notin {"idle", "usb"} /\ at.link \in {"absent", "denied"} THEN at.link ELSE "open"
  /\ listened => pc \notin {"idle", "usb", "listen"} /\ at.link \in {"boot", "noise"}
  /\ pc \notin {"idle", "usb", "listen", "probe"} /\ usb = "open" => probe \in ProbesOf(at)
  /\ pc = "done" /\ usb = "open" => history = HistoryOf(at)

SeriesOf(at) ==
  /\ Matches(health, HealthFaults, at) /\ Matches(identity, IdentityFaults, at)
  /\ Matches(families, FamilyFaults, at) /\ Matches(live, LiveFaults, at)

\* What has been found so far is what the one situation shows.
Steady == Undisturbed => FindingsOf(past[1]) /\ SeriesOf(past[1])

LEMMA FaithfulReading ==
  ASSUME losses = 0, losses' = 0, NEW ok \in BOOLEAN, NEW failing, Transaction(failing, ok)
  PROVE  ok = Answers(failing) /\ Faithful(ReadingOf(ok), now, failing)
<1>1. ok = Answers(failing)
  BY DEF Transaction
<1>2. ReadingOf(ok).ok = ok
  BY DEF ReadingOf
<1>3. ok => ReadingOf(ok).node = now.node /\ ReadingOf(ok).faults = now.faults
  BY DEF ReadingOf
<1> QED
  BY <1>1, <1>2, <1>3 DEF Faithful, Answers

LEMMA MatchesMore ==
  ASSUME now \in Situation, losses = 0, losses' = 0,
         NEW s \in Seq(Reading), NEW n \in Nat, Len(s) < n, NEW F,
         NEW ok \in BOOLEAN, Transaction(F[Len(s) + 1], ok),
         NEW t, t = Append(s, ReadingOf(ok)), Matches(s, F, now)
  PROVE  Matches(t, F, now)
<1>1. /\ Len(t) = Len(s) + 1 /\ Len(s) \in Nat
      /\ t[Len(s) + 1] = ReadingOf(ok) /\ \A i \in 1 .. Len(s) : t[i] = s[i]
  BY SeriesTypes
<1>2. Faithful(ReadingOf(ok), now, F[Len(s) + 1])
  BY FaithfulReading
<1>3. ASSUME NEW i \in 1 .. Len(t) PROVE Faithful(t[i], now, F[i])
  <2>1. i \in 1 .. Len(s) \/ i = Len(s) + 1
    BY <1>1
  <2>2. CASE i \in 1 .. Len(s)
    BY <1>1, <2>2 DEF Matches
  <2>3. CASE i = Len(s) + 1
    BY <1>1, <1>2, <2>3
  <2> QED
    BY <2>1, <2>2, <2>3
<1> QED
  BY <1>3 DEF Matches

\* An undisturbed run was so before its last step.
LEMMA UndisturbedBefore ==
  ASSUME Typed, Placed, [Next]_vars, Undisturbed', ~ Begin
  PROVE  /\ Undisturbed /\ past' = past /\ losses' = 0 /\ losses = 0
         /\ pc # "idle" /\ past[1] = now /\ now' = now
<1>1. losses \in Nat /\ losses' = 0 /\ losses' >= losses /\ suite' = suite /\ suite' = "deep"
  BY PastGrows DEF Undisturbed
<1>2. losses = 0
  BY <1>1
<1>3. past' = past
  <2>1. CASE Change
    <3>1. past \in Seq(Situation) /\ past # << >> /\ past' = Append(past, now')
          /\ now' \in Situation
      BY <2>1 DEF Change, Typed, Placed
    <3>2. Len(past) \in Nat /\ Len(past) # 0 /\ Len(past') = Len(past) + 1
      BY <3>1
    <3>3. Len(past') # 1
      BY <3>2
    <3> QED
      BY <3>3 DEF Undisturbed
  <2>2. CASE ~ Change
    BY <2>2 DEF Next, Stage, Usb, Listen, Probe, ReadHealth, ReadIdentity, Recent, ReadFamily,
                ReadLive, CheckHistory, RecoveryHealth, RecoveryBackup, RecoveryStatus,
                   Goes, vars
  <2> QED
    BY <2>1, <2>2
<1>4. Len(past) = 1
  BY <1>3 DEF Undisturbed
<1>5. pc # "idle"
  BY <1>4 DEF Placed
<1>6. past[1] = now
  BY <1>4, <1>5 DEF Placed
<1>7. now' = now
  <2>1. past # << >> /\ pc # "idle"
    BY <1>5 DEF Placed
  <2>2. CASE Change
    <3>1. past \in Seq(Situation) /\ past' = Append(past, now') /\ now' \in Situation
      BY <2>2 DEF Change, Typed
    <3>2. Len(past') = Len(past) + 1 /\ Len(past) \in Nat
      BY <3>1
    <3> QED
      BY <1>3, <3>2
  <2>3. CASE ~ Change
    BY <1>5, <2>3 DEF Next, Stage, Begin, Usb, Listen, Probe, ReadHealth, ReadIdentity, Recent,
                ReadFamily, ReadLive, CheckHistory, RecoveryHealth, RecoveryBackup,
                RecoveryStatus, Goes, vars
  <2> QED
    BY <2>2, <2>3
<1> QED
  BY <1>1, <1>2, <1>3, <1>4, <1>5, <1>6, <1>7 DEF Undisturbed

LEMMA SteadyStep == ASSUME Typed, Placed, Steady, [Next]_vars PROVE Steady'
<1>1. SUFFICES ASSUME Undisturbed' PROVE FindingsOf(past[1])' /\ SeriesOf(past[1])'
  BY DEF Steady
<1>2. CASE Begin
  <2>1. /\ pc' = "usb" /\ usb' = "open" /\ ~ listened' /\ health' = << >> /\ identity' = << >>
        /\ families' = << >> /\ live' = << >>
    BY <1>2 DEF Begin, Placed, found
  <2>2. \A F, at : Matches(<< >>, F, at)
    BY DEF Matches
  <2>3. SeriesOf(past[1])'
    BY <2>1, <2>2 DEF SeriesOf, Matches
  <2> QED
    BY <2>1, <2>3 DEF FindingsOf
<1>3. CASE ~ Begin
  <2>1. /\ Undisturbed /\ past' = past /\ losses' = 0 /\ losses = 0
        /\ pc # "idle" /\ past[1] = now /\ now' = now
    BY <1>1, <1>3, UndisturbedBefore
  <2>2. FindingsOf(now) /\ SeriesOf(now) /\ suite = "deep"
    BY <2>1 DEF Steady, Undisturbed
  <2>3. SUFFICES FindingsOf(now)' /\ SeriesOf(now)'
    BY <2>1 DEF FindingsOf, SeriesOf, Matches
  <2>4. /\ HealthFaults' = HealthFaults /\ IdentityFaults' = IdentityFaults
        /\ LiveFaults' = LiveFaults /\ FamilyFaults' = FamilyFaults
    BY PastGrows DEF HealthFaults, IdentityFaults, LiveFaults, FamilyFaults
  <2>5. now \in Situation /\ Attempts \in Nat /\ Families \in Nat
    BY DiagnosticsAssumption DEF Typed
  <2>6. SeriesOf(now)'
    <3>1. Matches(health, HealthFaults, now)'
      <4>1. CASE health' = health
        BY <2>1, <2>2, <2>4, <4>1 DEF SeriesOf, Matches
      <4>2. CASE health' # health
        <5>1. ReadHealth
          BY <2>2, <4>2 DEF Next, Stage, Change, Begin, Usb, Listen, Probe, ReadIdentity,
             Recent,
                 ReadFamily, ReadLive, CheckHistory, RecoveryHealth, RecoveryBackup,
                 RecoveryStatus, found, vars
        <5>2. PICK ok \in BOOLEAN : Transaction({}, ok) /\ health' = Append(health, ReadingOf(ok))
                                    /\ Len(health) < Attempts
          BY <5>1 DEF ReadHealth, Series
        <5>3. Len(health) \in Nat /\ health \in Seq(Reading)
          BY DEF Typed
        <5>4. HealthFaults[Len(health) + 1] = {}
          BY <5>3 DEF HealthFaults
        <5>5. Matches(health', HealthFaults, now)
          BY <2>1, <2>2, <2>5, <5>2, <5>3, <5>4, MatchesMore DEF SeriesOf
        <5> QED
          BY <2>1, <2>4, <5>5 DEF Matches
      <4> QED
        BY <4>1, <4>2
    <3>2. Matches(identity, IdentityFaults, now)'
      <4>1. CASE identity' = identity
        BY <2>1, <2>2, <2>4, <4>1 DEF SeriesOf, Matches
      <4>2. CASE identity' # identity
        <5>1. ReadIdentity
          BY <4>2 DEF Next, Stage, Change, Begin, Usb, Listen, Probe, ReadHealth, Recent,
                 ReadFamily, ReadLive, CheckHistory, RecoveryHealth, RecoveryBackup,
                 RecoveryStatus, found, vars
        <5>2. PICK ok \in BOOLEAN : Transaction({"identity"}, ok)
                                    /\ identity' = Append(identity, ReadingOf(ok))
                                    /\ Len(identity) < Attempts
          BY <5>1 DEF ReadIdentity, Series
        <5>3. Len(identity) \in Nat /\ identity \in Seq(Reading)
          BY DEF Typed
        <5>4. IdentityFaults[Len(identity) + 1] = {"identity"}
          BY <5>3 DEF IdentityFaults
        <5>5. Matches(identity', IdentityFaults, now)
          BY <2>1, <2>2, <2>5, <5>2, <5>3, <5>4, MatchesMore DEF SeriesOf
        <5> QED
          BY <2>1, <2>4, <5>5 DEF Matches
      <4> QED
        BY <4>1, <4>2
    <3>3. Matches(families, FamilyFaults, now)'
      <4>1. CASE families' = families
        BY <2>1, <2>2, <2>4, <4>1 DEF SeriesOf, Matches
      <4>2. CASE families' # families
        <5>1. ReadFamily
          BY <2>2, <4>2 DEF Next, Stage, Change, Begin, Usb, Listen, Probe, ReadHealth,
                 ReadIdentity, Recent, ReadLive, CheckHistory, RecoveryHealth, RecoveryBackup,
                 RecoveryStatus, found, vars
        <5>2. PICK ok \in BOOLEAN :
                Transaction(IF Len(families) = Families - 1 THEN {"families"} ELSE {}, ok)
                /\ families' = Append(families, ReadingOf(ok)) /\ Len(families) < Families
          BY <5>1 DEF ReadFamily, Series
        <5>3. Len(families) \in Nat /\ families \in Seq(Reading)
          BY DEF Typed
        <5>4. Len(families) = Families - 1 <=> Len(families) + 1 = Families
          BY <2>5, <5>3
        <5>5. FamilyFaults[Len(families) + 1]
                = IF Len(families) = Families - 1 THEN {"families"} ELSE {}
          BY <2>2, <5>3, <5>4 DEF FamilyFaults
        <5>6. Matches(families', FamilyFaults, now)
          BY <2>1, <2>2, <2>5, <5>2, <5>3, <5>5, MatchesMore DEF SeriesOf
        <5> QED
          BY <2>1, <2>4, <5>6 DEF Matches
      <4> QED
        BY <4>1, <4>2
    <3>4. Matches(live, LiveFaults, now)'
      <4>1. CASE live' = live
        BY <2>1, <2>2, <2>4, <4>1 DEF SeriesOf, Matches
      <4>2. CASE live' # live
        <5>1. ReadLive
          BY <4>2 DEF Next, Stage, Change, Begin, Usb, Listen, Probe, ReadHealth, ReadIdentity,
                 Recent, ReadFamily, CheckHistory, RecoveryHealth, RecoveryBackup,
                 RecoveryStatus, found, vars
        <5>2. PICK ok \in BOOLEAN : Transaction({"live"}, ok)
                                    /\ live' = Append(live, ReadingOf(ok))
                                    /\ Len(live) < Attempts
          BY <5>1 DEF ReadLive, Series
        <5>3. Len(live) \in Nat /\ live \in Seq(Reading)
          BY DEF Typed
        <5>4. LiveFaults[Len(live) + 1] = {"live"}
          BY <5>3 DEF LiveFaults
        <5>5. Matches(live', LiveFaults, now)
          BY <2>1, <2>2, <2>5, <5>2, <5>3, <5>4, MatchesMore DEF SeriesOf
        <5> QED
          BY <2>1, <2>4, <5>5 DEF Matches
      <4> QED
        BY <4>1, <4>2
    <3> QED
      BY <3>1, <3>2, <3>3, <3>4 DEF SeriesOf
  <2>7. FindingsOf(now)'
    <3>1. CASE UNCHANGED vars
      BY <2>2, <3>1 DEF vars, FindingsOf, ProbesOf, HistoryOf, LastHealth, Valid
    <3>2. CASE Change
      <4>1. pc' = pc /\ pc # "done" /\ usb' = usb /\ listened' = listened /\ probe' = probe
        BY <3>2 DEF Change, found
      <4> QED
        BY <2>1, <2>2, <4>1 DEF FindingsOf, ProbesOf
    <3>3. CASE Usb
      <4>1. pc = "usb" /\ listened' = listened /\ (usb' = "open" => pc' = "listen")
            /\ (usb' # "open" => pc' = "done")
            /\ usb' = IF now.link \in {"absent", "denied"} THEN now.link ELSE "open"
        BY <2>2, <3>3 DEF Usb
      <4> QED
        BY <2>1, <2>2, <4>1 DEF FindingsOf
    <3>4. CASE Listen
      <4>1. /\ pc = "listen" /\ pc' = "probe" /\ usb' = usb
            /\ listened' => now.link \in {"boot", "noise"}
        BY <3>4, ListenHears DEF Listen, Goes
      <4> QED
        BY <2>1, <2>2, <4>1 DEF FindingsOf
    <3>5. CASE Probe
      <4>1. pc = "probe" /\ pc' = "health" /\ listened' = listened /\ usb' = usb
        BY <3>5 DEF Probe, Goes
      <4>2. PICK ok \in BOOLEAN : /\ Transaction({}, ok)
                                  /\ probe' \in IF ok THEN {"framed"} ELSE Heard(now.link)
        BY <3>5 DEF Probe
      <4>3. ok <=> now.link = "up"
        BY <2>1, <4>2, FaithfulReading DEF Answers
      <4>4. probe' \in ProbesOf(now)
        BY <4>2, <4>3 DEF ProbesOf
      <4>5. ProbesOf(now)' = ProbesOf(now)
        BY <2>1 DEF ProbesOf
      <4> QED
        BY <2>1, <2>2, <4>1, <4>4, <4>5 DEF FindingsOf
    <3>6. CASE ReadHealth \/ ReadIdentity \/ Recent \/ ReadFamily \/ ReadLive
      <4>1. /\ pc \in {"health", "identity", "recent", "families", "live"}
            /\ pc' \in {"health", "identity", "recent", "families", "live", "history"}
            /\ usb' = usb /\ listened' = listened /\ probe' = probe
        BY <3>6 DEF ReadHealth, ReadIdentity, Recent, ReadFamily, ReadLive, Goes
      <4>2. ProbesOf(now)' = ProbesOf(now)
        BY <2>1 DEF ProbesOf
      <4> QED
        BY <2>1, <2>2, <4>1, <4>2 DEF FindingsOf
    <3>7. CASE CheckHistory
      <4>1. /\ pc = "history" /\ pc' = "done" /\ health' = health
            /\ usb' = usb /\ listened' = listened /\ probe' = probe
        BY <3>7 DEF CheckHistory, Goes
      <4>2. ProbesOf(now)' = ProbesOf(now)
        BY <2>1 DEF ProbesOf
      <4>3. LastHealth' = LastHealth
        BY <4>1 DEF LastHealth, Valid
      <4>4. HistoryOf(now)' = HistoryOf(now)
        BY <2>1, <4>3 DEF HistoryOf
      <4>5. history' = HistoryOf(now)
        <5>1. CASE "clock" \in LastHealth
          BY <3>7, <5>1 DEF CheckHistory, HistoryOf
        <5>2. CASE "clock" \notin LastHealth
          <6>1. PICK ok \in BOOLEAN : Transaction({"history"}, ok)
                                      /\ history' = IF ok THEN "ok" ELSE "bad"
            BY <3>7, <5>2 DEF CheckHistory
          <6>2. ok = Answers({"history"})
            BY <2>1, <6>1, FaithfulReading
          <6> QED
            BY <5>2, <6>1, <6>2 DEF HistoryOf, Answers
        <5> QED
          BY <5>1, <5>2
      <4> QED
        BY <2>1, <2>2, <4>1, <4>2, <4>4, <4>5 DEF FindingsOf
    <3>8. ~ RecoveryHealth /\ ~ RecoveryBackup /\ ~ RecoveryStatus
      BY <2>2 DEF RecoveryHealth, RecoveryBackup, RecoveryStatus
    <3> QED
      BY <1>3, <3>1, <3>2, <3>3, <3>4, <3>5, <3>6, <3>7, <3>8 DEF Next, Stage
  <2> QED
    BY <2>6, <2>7
<1> QED
  BY <1>2, <1>3

LEMMA SteadyAlways == Spec => [](IInv /\ Steady)
<1>1. ASSUME Init PROVE Steady
  <2>1. past = << >>
    BY <1>1 DEF Init
  <2>2. ~ Undisturbed
    BY <2>1 DEF Undisturbed
  <2> QED
    BY <2>2 DEF Steady
<1>2. ASSUME IInv, Steady, [Next]_vars PROVE Steady'
  BY <1>2, SteadyStep DEF IInv
<1> QED
  BY <1>1, <1>2, IInvAlways, PTL DEF Spec

\* Of a sensor that answers, the health series shows just what there is.
LEMMA AllHealthCame ==
  ASSUME IInv, NEW at, at.link = "up", Matches(health, HealthFaults, at), Len(health) = Attempts
  PROVE  /\ Valid(health) = 1 .. Attempts /\ Valid(health) # {} /\ LastHealth = at.faults
         /\ Consistent
<1>1. Attempts \in Nat /\ 1 \in 1 .. Attempts /\ \A i \in 1 .. Attempts : i \in Nat
  BY DiagnosticsAssumption
<1>2. ASSUME NEW i \in 1 .. Attempts
      PROVE  health[i].ok /\ health[i].node = at.node /\ health[i].faults = at.faults
  <2>1. HealthFaults[i] = {} /\ Faithful(health[i], at, HealthFaults[i])
    BY <1>1 DEF HealthFaults, Matches
  <2> QED
    BY <2>1 DEF Faithful
<1>3. Valid(health) = 1 .. Attempts
  BY <1>2 DEF Valid
<1>4. Valid(health) # {}
  BY <1>1, <1>3
<1>5. PICK i \in Valid(health) : LastHealth = health[i].faults
  BY <1>4, LastValid DEF IInv
<1>6. LastHealth = at.faults
  BY <1>2, <1>3, <1>5
<1>7. Consistent
  BY <1>2 DEF Consistent
<1> QED
  BY <1>3, <1>4, <1>6, <1>7

\* Of one that does not, no health reading came.
LEMMA NoHealthCame ==
  ASSUME NEW at, at.link # "up", Matches(health, HealthFaults, at)
  PROVE  Valid(health) = {}
BY DEF Matches, Faithful, Valid

LEMMA StableIsNamed == ASSUME IInv, Steady PROVE StableVerdict
<1>1. SUFFICES ASSUME Done, Undisturbed PROVE StableVerdict
  BY DEF StableVerdict, Undisturbed
<1> DEFINE at == past[1]
<1>2. pc = "done" /\ suite = "deep" /\ FindingsOf(at) /\ SeriesOf(at)
  BY <1>1 DEF Done, Undisturbed, Steady
<1>3. at.link \in {"absent", "denied", "silent", "noise", "boot", "up"}
  <2>1. past \in Seq(Situation) /\ Len(past) = 1
    BY <1>1 DEF Undisturbed, IInv, Typed
  <2>2. past[1] \in Situation
    BY <2>1
  <2> QED
    BY <2>2, SituationParts
<1> HIDE DEF at
<1>4. SUFFICES /\ Classification \in Named(at)
               /\ at.link = "up" /\ at.faults \cap DeepFault = {} => NotPassed = {}
  BY DEF StableVerdict, at
<1>5. /\ usb = IF at.link \in {"absent", "denied"} THEN at.link ELSE "open"
      /\ listened => at.link \in {"boot", "noise"}
      /\ usb = "open" => probe \in ProbesOf(at) /\ history = HistoryOf(at)
  BY <1>2 DEF FindingsOf
<1>6. CASE at.link \in {"absent", "denied"}
  <2>1. usb = at.link
    BY <1>5, <1>6
  <2> QED
    BY <1>6, <2>1, Classified, NamedFor
<1>7. CASE at.link \in {"silent", "noise", "boot"}
  <2>1. usb \notin {"absent", "denied"} /\ usb = "open"
    BY <1>5, <1>7
  <2>2. Valid(health) = {}
    BY <1>2, <1>7, NoHealthCame DEF SeriesOf
  <2>3. probe \in Heard(at.link)
    BY <1>5, <1>7, <2>1 DEF ProbesOf
  <2>4. IF listened THEN Classification = "possible_bootloader_mode"
        ELSE IF probe # "none" THEN Classification = "serial_framing_or_firmware"
        ELSE Classification = "sensor_power_mcu_or_uart"
    BY <2>1, <2>2, Classified
  <2>5. CASE at.link = "silent"
    BY <1>5, <2>3, <2>4, <2>5, NamedFor, SignalsAndBytes
  <2>6. CASE at.link = "noise"
    BY <2>3, <2>4, <2>6, NamedFor, SignalsAndBytes
  <2>7. CASE at.link = "boot"
    BY <2>4, <2>7, NamedFor
  <2> QED
    BY <1>7, <2>5, <2>6, <2>7
<1>8. CASE at.link = "up"
  <2>1. usb \notin {"absent", "denied"} /\ usb = "open" /\ ~ listened /\ probe = "framed"
    BY <1>5, <1>8 DEF ProbesOf
  <2>2. /\ Len(health) = Attempts /\ Len(identity) = Attempts /\ Len(live) = Attempts
        /\ Len(families) = Families /\ (resets <=> "resets" \in LastHealth)
    BY <1>2, <2>1 DEF IInv, Placed, Come
  <2>3. /\ Matches(health, HealthFaults, at) /\ Matches(identity, IdentityFaults, at)
        /\ Matches(families, FamilyFaults, at) /\ Matches(live, LiveFaults, at)
    BY <1>2 DEF SeriesOf
  <2>4. /\ Valid(health) = 1 .. Attempts /\ Valid(health) # {} /\ LastHealth = at.faults
        /\ Consistent
    BY <1>8, <2>2, <2>3, AllHealthCame
  <2>5. /\ Attempts \in Nat /\ 1 \in 1 .. Attempts /\ Families \in Nat
        /\ Families \in 1 .. Families
        /\ \A i \in 1 .. Attempts : i \in Nat /\ \A j \in 1 .. Families : j \in Nat
    BY DiagnosticsAssumption
  <2>6. \A i \in 1 .. Attempts : identity[i].ok <=> "identity" \notin at.faults
    <3>1. TAKE i \in 1 .. Attempts
    <3>2. IdentityFaults[i] = {"identity"} /\ Faithful(identity[i], at, IdentityFaults[i])
      BY <2>2, <2>3, <2>5 DEF IdentityFaults, Matches
    <3> QED
      BY <1>8, <3>2 DEF Faithful
  <2>7. IdentityFails <=> "identity" \in at.faults
    BY <2>2, <2>5, <2>6 DEF IdentityFails
  <2>8. \A i \in 1 .. Families :
          families[i].ok <=> ~ (i = Families /\ "families" \in at.faults)
    <3>1. TAKE i \in 1 .. Families
    <3>2. FamilyFaults[i] = (IF i = Families THEN {"families"} ELSE {})
          /\ Faithful(families[i], at, FamilyFaults[i])
      <4>1. i \in Nat
        BY <2>5
      <4> QED
        BY <1>2, <2>2, <2>3, <4>1 DEF FamilyFaults, Matches
    <3> QED
      BY <1>8, <3>2 DEF Faithful
  <2>9. ~ IdentityFails => (ConfigFails <=> "families" \in at.faults)
    <3>1. ~ IdentityFails => identity[1].ok
      BY <2>2, <2>5 DEF IdentityFails
    <3> QED
      BY <2>2, <2>5, <2>8, <3>1 DEF ConfigFails
  <2>10. \A i \in 1 .. Attempts : /\ live[i].ok <=> "live" \notin at.faults
                                  /\ live[i].ok => live[i].faults = at.faults
    <3>1. TAKE i \in 1 .. Attempts
    <3>2. LiveFaults[i] = {"live"} /\ Faithful(live[i], at, LiveFaults[i])
      BY <2>2, <2>3, <2>5 DEF LiveFaults, Matches
    <3> QED
      BY <1>8, <3>2 DEF Faithful
  <2>11. Valid(live) = IF "live" \in at.faults THEN {} ELSE 1 .. Attempts
    BY <2>2, <2>10 DEF Valid
  <2>12. \A f : Shows(live, f) <=> "live" \notin at.faults /\ f \in at.faults
    BY <2>2, <2>5, <2>10 DEF Shows
  <2>13. LiveFails <=> at.faults \cap {"live", "error"} # {}
    BY <2>5, <2>11, <2>12 DEF LiveFails
  <2>14. history = IF "clock" \in at.faults THEN "skipped"
                   ELSE IF "history" \in at.faults THEN "bad" ELSE "ok"
    BY <1>5, <1>8, <2>1, <2>4 DEF HistoryOf
  <2>15. history = "bad" <=> at.faults \cap {"clock", "history"} = {"history"}
    BY <2>14
  <2>16. LowBattery <=> "battery" \in at.faults
    BY <2>4 DEF LowBattery
  <2>17. resets <=> "resets" \in at.faults
    BY <2>2, <2>4
  <2>18. Classification = FirstFault(at)
    <3>1. IF LowBattery THEN Classification = "power_problem"
          ELSE IF resets THEN Classification = "repeated_sensor_resets"
          ELSE IF IdentityFails THEN Classification = "identity_or_firmware_instability"
          ELSE IF ConfigFails THEN Classification = "configuration_or_firmware_problem"
          ELSE IF LiveFails THEN Classification = "measurement_hardware_or_firmware"
          ELSE IF Shows(live, "angle") THEN Classification = "measurement_plausibility_problem"
          ELSE IF history = "bad" THEN Classification = "history_or_storage_problem"
          ELSE Classification = "sensor_responsive"
      BY <2>1, <2>4, Classified
    <3>2. IF "battery" \in at.faults THEN FirstFault(at) = "power_problem"
          ELSE IF "resets" \in at.faults THEN FirstFault(at) = "repeated_sensor_resets"
          ELSE IF "identity" \in at.faults THEN FirstFault(at) = "identity_or_firmware_instability"
          ELSE IF "families" \in at.faults THEN FirstFault(at) = "configuration_or_firmware_problem"
          ELSE IF at.faults \cap {"live", "error"} # {}
          THEN FirstFault(at) = "measurement_hardware_or_firmware"
          ELSE IF "angle" \in at.faults THEN FirstFault(at) = "measurement_plausibility_problem"
          ELSE IF at.faults \cap {"clock", "history"} = {"history"}
          THEN FirstFault(at) = "history_or_storage_problem"
          ELSE FirstFault(at) = "sensor_responsive"
      BY FirstFaultFor
    <3>3. ~ LiveFails => (Shows(live, "angle") <=> "angle" \in at.faults)
      BY <2>12, <2>13
    <3> QED
      BY <2>7, <2>9, <2>13, <2>15, <2>16, <2>17, <3>1, <3>2, <3>3
  <2>19. ASSUME at.faults \cap DeepFault = {} PROVE NotPassed = {}
    <3>1. /\ "identity" \notin at.faults /\ "families" \notin at.faults /\ "live" \notin at.faults
          /\ "error" \notin at.faults /\ "clock" \notin at.faults /\ "history" \notin at.faults
      BY <2>19 DEF DeepFault
    <3>2. Cardinality(1 .. Attempts) = Attempts
      BY <2>5, FS_Interval
    <3>3. ~ Cardinality(Valid(health)) < Attempts /\ ~ Cardinality(Valid(live)) < Attempts
      BY <2>4, <2>5, <2>11, <3>1, <3>2
    <3>4. ~ IdentityFails /\ ~ ConfigFails /\ ~ Shows(live, "error") /\ history = "ok"
      BY <2>7, <2>9, <2>12, <2>14, <3>1
    <3> QED
      BY <2>1, <3>3, <3>4 DEF NotPassed
  <2> QED
    BY <1>8, <2>18, <2>19, NamedFor
<1> QED
  BY <1>3, <1>6, <1>7, <1>8

\* Of a sensor whose situation stays and of which no answer is lost, the deep
\* suite names the layer that is wrong or the first fault of a sensor that
\* answers, and takes neither for a bootloader, however many attempts each step
\* takes; with nothing wrong every step of the report has passed.
THEOREM StableSituationIsNamed == Spec => []StableVerdict
BY SteadyAlways, StableIsNamed, PTL
===============================================================================
