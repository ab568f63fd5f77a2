----------------------------- MODULE GattProofs -----------------------------
(***************************************************************************)
(* Proofs about the GATT server: about Characteristic, for values of every *)
(* size and any number of set_value calls, with and without a peer that    *)
(* writes, and about BluetoothSetup, for any number of services and UUIDs  *)
(* and whatever call of the initialization fails.                          *)
(***************************************************************************)
EXTENDS Characteristic, BluetoothSetup, SequenceTheorems, TLAPS

\* set_value copies the span it was given, and only its own copy is disturbed.
CopyInRange ==
  /\ copying # Idle => copying <= new_size /\ new_size \in Spans /\ sets >= 1
  /\ copying = Idle => foreign # "during"

\* What has been copied is there, unless the peer wrote meanwhile.
Copied ==
  copying # Idle =>
    \A i \in Cells : i <= copying =>
      value[i] = sets \/ (foreign = "during" /\ value[i] = Foreign)

\* So is, between two calls, everything a notification would make the length cover.
Sized ==
  copying = Idle =>
    \A i \in Cells : i <= value_size =>
      value[i] = sets \/ (foreign # "never" /\ value[i] = Foreign)

\* What the peer reads: the copied part is new, the rest is one set_value old, or its own.
Served ==
  \A i \in Cells : i <= length =>
    \/ value[i] = sets
    \/ foreign # "never" /\ value[i] = Foreign
    \/ copying # Idle /\ i > copying /\ value[i] = sets - 1

\* Both lengths are the same, the fixed one or the one that was set, unless that is
\* refused; a variable one the object holds for empty until the first set_value.
Agreed ==
  /\ variable_length /\ sets = 0 /\ copying = Idle => value_size = 0
  /\ copying = Idle /\ Settled /\ value_size <= MaxSize => length = value_size
  /\ ~variable_length => value_size = MaxSize

ValueInv == TypeOK /\ CopyInRange /\ Copied /\ Sized /\ Served /\ Agreed

\* What the length may be lies within the memory.
LEMMA SizesFit ==
  /\ Sizes \subseteq Nat /\ Spans \subseteq Nat
  /\ \A n \in Sizes : n <= MaxSize
  /\ \A n \in Spans : n <= MaxSize => n \in Sizes
  /\ Sizes # {}
BY SizeAssumption DEF Sizes, Spans

LEMMA ValueInit == Init => ValueInv
<1> SUFFICES ASSUME Init PROVE ValueInv
  OBVIOUS
<1> USE SizeAssumption DEF Init
<1>1. TypeOK
  BY DEF TypeOK, Cells, Sizes, Spans, Idle, Foreign
<1>2. CopyInRange /\ Copied
  BY DEF CopyInRange, Copied
<1>4. Sized /\ Served
  <2>1. \A i \in Cells : value[i] = sets
    OBVIOUS
  <2> QED
    BY <2>1, Zenon DEF Sized, Served
<1>3. Agreed
  BY DEF Agreed, Settled, Sizes
<1> QED
  BY <1>1, <1>2, <1>3, <1>4 DEF ValueInv

LEMMA SetValueStep ==
  ASSUME ValueInv, NEW size \in Spans, SetValue(size)
  PROVE  ValueInv'
<1> USE DEF ValueInv
<1>1. /\ copying = Idle /\ copying' = 0 /\ 0 # Idle /\ sets' = sets + 1 /\ sets' \in 0 .. MaxSets
      /\ new_size' = size /\ size \in Nat /\ sets \in Nat
      /\ UNCHANGED <<variable_length, write, value, value_size, length, foreign>>
  BY SizesFit, SizeAssumption DEF SetValue, TypeOK, Idle
<1>2. Sizes' = Sizes /\ Spans' = Spans
  BY <1>1 DEF Sizes, Spans
<1>3. TypeOK'
  BY <1>1, <1>2 DEF TypeOK
<1>4. CopyInRange' /\ Sized' /\ Agreed'
  BY <1>1, <1>2 DEF CopyInRange, Sized, Agreed
<1>5. \A i \in Cells : i > 0
  BY DEF Cells
<1>6. Copied'
  BY <1>1, <1>5 DEF Copied, Cells
<1>7. Served'
  <2>1. sets' - 1 = sets
    BY <1>1
  <2> QED
    BY <1>1, <1>5, <2>1 DEF Served
<1> QED
  BY <1>3, <1>4, <1>6, <1>7

LEMMA CopyCellStep == ASSUME ValueInv, CopyCell PROVE ValueInv'
<1> USE DEF ValueInv
<1>1. /\ copying \in Nat /\ copying # Idle /\ copying + 1 # Idle /\ copying + 1 <= new_size
      /\ copying' = copying + 1 /\ new_size \in Spans /\ sets >= 1
      /\ value' = [i \in Cells |-> IF i = copying + 1 THEN sets ELSE value[i]]
      /\ UNCHANGED <<variable_length, write, length, sets, new_size, foreign>>
  BY DEF CopyCell, CopyInRange, TypeOK, Idle
<1>2. Sizes' = Sizes /\ Spans' = Spans
  BY <1>1 DEF Sizes, Spans
<1>3. value_size' \in Spans \cup {0} /\ (~variable_length => value_size' = value_size)
  <2>1. ~variable_length => new_size = MaxSize
    BY <1>1 DEF Spans
  <2>2. new_size \in Nat /\ (copying < MaxSize => value_size' = value_size)
        /\ (value_size' = value_size \/ value_size' \in Spans)
    BY <1>1, SizesFit DEF CopyCell
  <2> QED
    BY <1>1, <2>1, <2>2, SizeAssumption DEF TypeOK
<1>4. TypeOK'
  <2>1. value' \in [Cells -> 0 .. Foreign]
    BY <1>1, SizeAssumption DEF TypeOK, Foreign
  <2> QED
    BY <1>1, <1>2, <1>3, <2>1 DEF TypeOK
<1>5. CopyInRange' /\ Sized' /\ Agreed'
  BY <1>1, <1>2, <1>3 DEF CopyInRange, Sized, Agreed
<1>6. \A i \in Cells : /\ i \in Int
                       /\ i = copying + 1 => value'[i] = sets
                       /\ i # copying + 1 => value'[i] = value[i]
  BY <1>1 DEF Cells
<1>7. Copied'
  <2> SUFFICES ASSUME NEW i \in Cells, i <= copying + 1
               PROVE  value'[i] = sets \/ (foreign = "during" /\ value'[i] = Foreign)
    BY <1>1 DEF Copied
  <2>1. CASE i = copying + 1
    BY <1>6, <2>1
  <2>2. CASE i # copying + 1
    <3>1. i <= copying /\ value'[i] = value[i]
      BY <1>1, <1>6, <2>2
    <3> QED
      BY <1>1, <3>1, Zenon DEF Copied
  <2> QED
    BY <2>1, <2>2
<1>8. Served'
  <2> SUFFICES ASSUME NEW i \in Cells, i <= length
               PROVE  \/ value'[i] = sets
                      \/ foreign # "never" /\ value'[i] = Foreign
                      \/ i > copying + 1 /\ value'[i] = sets - 1
    BY <1>1 DEF Served
  <2>1. i = copying + 1 \/ i > copying + 1 \/ ~(i > copying)
    BY <1>1, <1>6
  <2> QED
    BY <1>6, <2>1 DEF Served
<1> QED
  BY <1>4, <1>5, <1>7, <1>8

LEMMA UpdateValueStep == ASSUME ValueInv, UpdateValue PROVE ValueInv'
<1> USE DEF ValueInv
<1>1. /\ copying = new_size /\ copying # Idle /\ new_size \in Nat /\ new_size \in Spans
      /\ copying' = Idle /\ value_size' = new_size
      /\ length' = IF new_size <= MaxSize THEN new_size ELSE length
      /\ foreign' = IF foreign = "during" THEN "before" ELSE "never"
      /\ UNCHANGED <<variable_length, write, value, sets, new_size>>
  BY SizesFit DEF UpdateValue, CopyInRange, TypeOK, Idle
<1>2. Sizes' = Sizes /\ Spans' = Spans
  BY <1>1 DEF Sizes, Spans
<1>3. length' \in Sizes /\ foreign' \in {"never", "before", "during"}
  BY <1>1, SizesFit DEF TypeOK
<1>4. TypeOK'
  BY <1>1, <1>2, <1>3 DEF TypeOK
<1>5. CopyInRange'
  BY <1>1 DEF CopyInRange
<1>6. Copied' /\ Sized'
  BY <1>1 DEF Copied, Sized
<1>7. length' <= new_size
  <2>1. length \in Nat /\ length <= MaxSize
    BY SizesFit DEF TypeOK
  <2> QED
    BY <1>1, <2>1, SizeAssumption
<1>8. Served'
  <2> SUFFICES ASSUME NEW i \in Cells, i <= length'
               PROVE  value'[i] = sets' \/ (foreign' # "never" /\ value'[i] = Foreign)
    BY DEF Served
  <2>1. i \in Nat /\ length' \in Nat
    BY <1>3, SizesFit DEF Cells
  <2>2. i <= copying
    BY <1>1, <1>7, <2>1
  <2> QED
    BY <1>1, <2>2 DEF Copied
<1>9. Agreed'
  <2>1. ~variable_length => new_size = MaxSize
    BY <1>1 DEF Spans
  <2>2. sets # 0
    BY <1>1 DEF CopyInRange
  <2> QED
    BY <1>1, <2>1, <2>2 DEF Agreed
<1> QED
  BY <1>4, <1>5, <1>6, <1>8, <1>9

LEMMA SendNotificationStep == ASSUME ValueInv, SendNotification PROVE ValueInv'
<1> USE DEF ValueInv
<1>1. /\ copying = Idle
      /\ length' = IF value_size <= MaxSize THEN value_size ELSE length
      /\ UNCHANGED <<variable_length, write, value, value_size, sets, copying, new_size, foreign>>
  BY DEF SendNotification
<1>2. Sizes' = Sizes /\ Spans' = Spans
  BY <1>1 DEF Sizes, Spans
<1>3. length' \in Sizes
  <2>1. CASE variable_length
    BY <1>1, <2>1, SizesFit, SizeAssumption DEF TypeOK, Sizes, Spans
  <2>2. CASE ~variable_length
    BY <1>1, <2>2, SizeAssumption DEF Agreed, Sizes
  <2> QED
    BY <2>1, <2>2
<1>4. TypeOK'
  BY <1>1, <1>2, <1>3 DEF TypeOK
<1>5. CopyInRange' /\ Copied' /\ Sized'
  BY <1>1, <1>2 DEF CopyInRange, Copied, Sized
<1>6. Served'
  <2> SUFFICES ASSUME NEW i \in Cells, i <= length'
               PROVE  value[i] = sets \/ (foreign # "never" /\ value[i] = Foreign)
    BY <1>1 DEF Served
  <2>1. CASE value_size <= MaxSize
    BY <1>1, <2>1 DEF Sized
  <2>2. CASE ~(value_size <= MaxSize)
    <3>1. length' = length
      BY <1>1, <2>2
    <3> QED
      BY <1>1, <3>1, Zenon DEF Served
  <2> QED
    BY <2>1, <2>2
<1>7. Agreed'
  BY <1>1 DEF Agreed, Settled
<1> QED
  BY <1>4, <1>5, <1>6, <1>7

LEMMA PeerWriteStep ==
  ASSUME ValueInv, NEW size \in Sizes, PeerWrite(size)
  PROVE  ValueInv'
<1> USE DEF ValueInv
<1>1. /\ value' = [i \in Cells |-> IF i <= size THEN Foreign ELSE value[i]]
      /\ length' = size
      /\ foreign' = IF copying = Idle THEN "before" ELSE "during"
      /\ UNCHANGED <<variable_length, write, value_size, sets, copying, new_size>>
  BY DEF PeerWrite
<1>2. Sizes' = Sizes /\ Spans' = Spans
  BY <1>1 DEF Sizes, Spans
<1>3. /\ \A i \in Cells : /\ i <= size => value'[i] = Foreign
                          /\ ~(i <= size) => value'[i] = value[i]
      /\ foreign' \in {"before", "during"} /\ foreign' # "never"
      /\ copying # Idle => foreign' = "during"
      /\ copying = Idle => foreign' = "before"
  BY <1>1
<1>4. TypeOK'
  <2>1. Foreign \in 0 .. Foreign
    BY SizeAssumption DEF Foreign
  <2>2. value' \in [Cells -> 0 .. Foreign]
    BY <1>1, <2>1 DEF TypeOK
  <2> QED
    BY <1>1, <1>2, <1>3, <2>2 DEF TypeOK
<1>5. CopyInRange' /\ Agreed'
  BY <1>1, <1>2, <1>3 DEF CopyInRange, Agreed, Settled
<1>6. Copied' /\ Sized' /\ Served'
  BY <1>1, <1>3 DEF Copied, Sized, Served
<1> QED
  BY <1>4, <1>5, <1>6

LEMMA ValueInvariant == Spec => []ValueInv
<1>1. ValueInv /\ [Next]_vars => ValueInv'
  <2> SUFFICES ASSUME ValueInv, [Next]_vars PROVE ValueInv'
    OBVIOUS
  <2>1. CASE \E size \in Spans : SetValue(size)
    BY <2>1, SetValueStep
  <2>2. CASE \E size \in Sizes : PeerWrite(size)
    BY <2>2, PeerWriteStep
  <2>3. CASE UNCHANGED vars
    BY <2>3 DEF vars, ValueInv, TypeOK, Sizes, Spans, CopyInRange, Copied, Sized, Served, Agreed,
      Settled
  <2> QED
    BY <2>1, <2>2, <2>3, CopyCellStep, UpdateValueStep, SendNotificationStep DEF Next
<1> QED
  BY <1>1, ValueInit, PTL DEF Spec

\* Type correctness: whatever size set_value is given, longer than the memory or not, and
\* whatever its copy has written over value_size, the length that is served stays inside.
THEOREM ValueTypes == Spec => []TypeOK
<1>1. ValueInv => TypeOK
  BY DEF ValueInv
<1> QED
  BY <1>1, ValueInvariant, PTL

\* Between two calls of set_value a peer reads what was set last, for values of every
\* size (set_value, update_value, send_notification).
THEOREM LastValueIsServed == Spec => []PeerReadsTheLastValue
<1>1. ValueInv => PeerReadsTheLastValue
  <2>1. ValueInv => \A i \in 1 .. length : i \in Cells /\ i <= length
    BY SizesFit, SizeAssumption DEF ValueInv, TypeOK, Cells
  <2> QED
    BY <2>1 DEF ValueInv, PeerReadsTheLastValue, Agreed, Served, Settled
<1> QED
  BY <1>1, ValueInvariant, PTL

\* Nothing older than the value before the last is ever read, whoever's length the
\* SoftDevice has taken last, in the middle of a set_value or behind a shorter value.
THEOREM ReadsAreRecent == Spec => []NothingOlderIsRead
<1>1. ValueInv => NothingOlderIsRead
  <2>1. ValueInv => \A i \in 1 .. length : i \in Cells /\ i <= length
    BY SizesFit, SizeAssumption DEF ValueInv, TypeOK, Cells
  <2> QED
    BY <2>1 DEF ValueInv, NothingOlderIsRead, Served
<1> QED
  BY <1>1, ValueInvariant, PTL

-----------------------------------------------------------------------------
(* The initialization.                                                     *)

Stages == {"stack", "gap", "connection_parameters", "services", "advertising", "start",
           "address", "done"}

SetupTypes ==
  /\ stage     \in Stages
  /\ \E n \in Nat : services = 1 .. n
  /\ next      \in Nat \ {0}
  /\ uuid_type \in [services -> Nat]
  /\ handle    \in [services -> Nat]
  /\ placed    \in [services -> Nat]
  /\ table     \in Seq(services)

\* A service that is not registered yet, or in vain, has nothing.
Registered ==
  \A s \in services :
    /\ handle[s] \in {0, s}
    /\ s >= next => handle[s] = 0 /\ placed[s] = 0

\* The last service in the table is the last one that has a handle.
LastInTable ==
  /\ table = <<>> => \A s \in services : handle[s] = 0
  /\ table # <<>> =>
       LET last == table[Len(table)]
       IN  /\ handle[last] # 0
           /\ \A s \in services : s > last => handle[s] = 0

SetupInv == SetupTypes /\ Registered /\ LastInTable /\ CharacteristicsStayHome

LEMMA SetupInvInit == SetupInit => SetupInv
<1> SUFFICES ASSUME SetupInit PROVE SetupInv
  OBVIOUS
<1> USE DEF SetupInit
<1>1. SetupTypes
  BY ServiceAssumption DEF SetupTypes, Stages
<1>2. Registered /\ LastInTable /\ CharacteristicsStayHome
  BY DEF Registered, LastInTable, CharacteristicsStayHome
<1> QED
  BY <1>1, <1>2 DEF SetupInv

\* One turn of the loop over the initializers.
LEMMA RegisterStep ==
  ASSUME SetupInv, stage = "services", next \in services,
         RegisterService(next), RegisterCharacteristic(next),
         next' = next + 1, UNCHANGED <<stage, services, enabled, adverts>>
  PROVE  SetupInv'
<1> USE DEF SetupInv
<1>0. next \in Nat /\ next # 0
  BY DEF SetupTypes
<1>a. PICK n \in Nat : services = 1 .. n
  BY DEF SetupTypes
<1>b. services \subseteq Nat \ {0}
  BY <1>a
<1>c. /\ uuid_type \in [services -> Nat] /\ handle \in [services -> Nat]
      /\ placed \in [services -> Nat] /\ table \in Seq(services)
  BY DEF SetupTypes
<1>d. /\ Append(table, next) \in Seq(services) /\ Append(table, next) # <<>>
      /\ Append(table, next)[Len(Append(table, next))] = next
  <2>1. Len(Append(table, next)) = Len(table) + 1 /\ Append(table, next)[Len(table) + 1] = next
    BY <1>c, AppendProperties
  <2> QED
    BY <1>c, <2>1, AppendProperties
<1>1. \/ handle' = handle /\ table' = table
      \/ /\ handle' = [handle EXCEPT ![next] = next] /\ table' = Append(table, next)
         /\ uuid_type'[next] # 0
  BY DEF RegisterService
<1>2. uuid_type' \in [services -> Nat] /\ \A s \in services \ {next} : uuid_type'[s] = uuid_type[s]
  BY <1>0, <1>c DEF RegisterService
<1>3. handle' \in [services -> Nat] /\ table' \in Seq(services)
  <2>1. CASE handle' = handle /\ table' = table
    BY <1>c, <2>1
  <2>2. CASE handle' = [handle EXCEPT ![next] = next] /\ table' = Append(table, next)
    BY <1>0, <1>c, <1>d, <2>2
  <2> QED
    BY <1>1, <2>1, <2>2
<1>4. handle'[next] \in {0, next} /\ \A s \in services \ {next} : handle'[s] = handle[s]
  BY <1>0, <1>1, <1>c DEF Registered
<1>5. LastInTable'
  <2>1. CASE handle' = handle /\ table' = table
    BY <2>1 DEF LastInTable
  <2>2. CASE handle' = [handle EXCEPT ![next] = next] /\ table' = Append(table, next)
    <3>1. table' # <<>> /\ table'[Len(table')] = next
      BY <1>d, <2>2
    <3>2. handle'[next] = next /\ next # 0
      BY <1>0, <1>c, <2>2
    <3>3. \A s \in services : s > next => handle'[s] = 0
      BY <1>0, <1>4, <1>b DEF Registered
    <3> QED
      BY <3>1, <3>2, <3>3 DEF LastInTable
  <2> QED
    BY <1>1, <2>1, <2>2
<1>6. \/ placed' = placed
      \/ /\ uuid_type'[next] # 0
         /\ placed' = [placed EXCEPT ![next] = Place(handle'[next], table')]
  BY DEF RegisterCharacteristic
<1>7. Place(handle'[next], table') \in Nat
  <2>1. table' # <<>> => table'[Len(table')] \in services
    BY <1>3
  <2> QED
    BY <1>0, <1>4, <1>b, <2>1 DEF Place
<1>8. placed' \in [services -> Nat] /\ \A s \in services \ {next} : placed'[s] = placed[s]
  BY <1>6, <1>7, <1>c
<1>9. SetupTypes'
  <2>1. stage' \in Stages /\ services' = services /\ next' \in Nat \ {0}
    BY <1>0 DEF SetupTypes
  <2> QED
    BY <1>a, <1>2, <1>3, <1>8, <2>1 DEF SetupTypes
<1>10. Registered'
  <2> SUFFICES ASSUME NEW s \in services
               PROVE  /\ handle'[s] \in {0, s}
                      /\ s >= next + 1 => handle'[s] = 0 /\ placed'[s] = 0
    BY DEF Registered
  <2>1. CASE s = next
    BY <1>0, <1>4, <2>1
  <2>2. CASE s # next
    BY <1>0, <1>4, <1>8, <1>b, <2>2 DEF Registered
  <2> QED
    BY <2>1, <2>2
<1>11. CharacteristicsStayHome'
  <2> SUFFICES ASSUME NEW s \in services, placed'[s] \notin {0, s}
               PROVE  /\ handle'[s] = 0 /\ uuid_type'[s] # 0
                      /\ placed'[s] < s /\ handle'[placed'[s]] # 0
                      /\ \A t \in placed'[s] + 1 .. s : handle'[t] = 0
    BY DEF CharacteristicsStayHome
  <2>1. CASE s # next
    <3>1. s < next
      BY <1>0, <1>8, <2>1 DEF Registered, SetupTypes
    <3>2. placed'[s] = placed[s] /\ placed[s] \in Nat /\ placed[s] < s
      BY <1>8, <2>1 DEF CharacteristicsStayHome, SetupTypes
    <3>3. placed[s] \in services /\ \A t \in placed[s] + 1 .. s : t \in services /\ t # next
      BY <1>0, <3>1, <3>2 DEF SetupTypes
    <3>4. placed[s] \notin {0, s}
      BY <3>2
    <3>5. /\ handle[s] = 0 /\ uuid_type[s] # 0 /\ handle[placed[s]] # 0
          /\ \A t \in placed[s] + 1 .. s : handle[t] = 0
      BY <3>4 DEF CharacteristicsStayHome
    <3>6. placed[s] # next
      <4>1. s \in Nat
        BY <1>b
      <4> QED
        BY <1>0, <3>1, <3>2, <4>1
    <3>7. /\ handle'[s] = 0 /\ uuid_type'[s] # 0 /\ handle'[placed[s]] # 0
          /\ \A t \in placed[s] + 1 .. s : handle'[t] = 0
      BY <1>2, <1>4, <2>1, <3>3, <3>5, <3>6
    <3> QED
      BY <3>2, <3>7
  <2>2. CASE s = next
    <3>1. uuid_type'[next] # 0 /\ placed'[next] = Place(handle'[next], table')
      BY <1>6, <2>2 DEF Registered, SetupTypes
    <3>2. handle'[next] = 0
      BY <1>4, <2>2, <3>1 DEF Place
    <3>3. table' # <<>> /\ placed'[next] = table'[Len(table')]
      BY <2>2, <3>1, <3>2 DEF Place
    <3>4. placed'[next] \in services
      BY <1>3, <3>3
    <3>5. /\ handle'[placed'[next]] # 0
          /\ \A t \in services : t > placed'[next] => handle'[t] = 0
      BY <1>5, <3>3 DEF LastInTable
    <3>6. placed'[next] < next
      BY <1>0, <1>4, <3>2, <3>4, <3>5 DEF Registered, SetupTypes
    <3>7. \A t \in placed'[next] + 1 .. next : t \in services /\ t > placed'[next]
      <4>1. placed'[next] \in Nat /\ next <= n
        BY <1>a, <1>b, <3>4
      <4> QED
        BY <1>0, <1>a, <3>6, <4>1
    <3>8. \A t \in placed'[next] + 1 .. next : handle'[t] = 0
      BY <3>5, <3>7
    <3> QED
      BY <2>2, <3>1, <3>2, <3>5, <3>6, <3>8
  <2> QED
    BY <2>1, <2>2
<1> QED
  BY <1>5, <1>9, <1>10, <1>11

LEMMA SetupStep == SetupInv /\ [SetupNext]_setupVars => SetupInv'
<1> SUFFICES ASSUME SetupInv, [SetupNext]_setupVars PROVE SetupInv'
  OBVIOUS
<1> USE DEF SetupInv, attributes, adverts
<1>1. CASE InitializeService
  <2>1. CASE next \in services
    BY <1>1, <2>1, RegisterStep DEF InitializeService
  <2>2. CASE next \notin services
    BY <1>1, <2>2 DEF InitializeService, SetupTypes, Stages, Registered, LastInTable,
      CharacteristicsStayHome
  <2> QED
    BY <2>1, <2>2
<1>2. CASE SetupNext /\ ~InitializeService
  <2>1. UNCHANGED <<services, next, attributes>> /\ stage' \in Stages
    BY <1>2 DEF SetupNext, InitializeStack, InitializeGap, InitializeConnectionParameters,
      InitializeAdvertising, StartAdvertising, LogAddress, Stages
  <2> QED
    BY <2>1 DEF SetupTypes, Registered, LastInTable, CharacteristicsStayHome
<1>3. CASE UNCHANGED setupVars
  BY <1>3 DEF setupVars, SetupTypes, Registered, LastInTable, CharacteristicsStayHome
<1> QED
  BY <1>1, <1>2, <1>3

LEMMA SetupInvariant == SetupSpec => []SetupInv
BY SetupInvInit, SetupStep, PTL DEF SetupSpec

\* For any number of services, a characteristic is in its own service, or, if that has
\* no handle, in the last one registered before it.
THEOREM CharacteristicsAreHome == SetupSpec => []CharacteristicsStayHome
<1>1. SetupInv => CharacteristicsStayHome
  BY DEF SetupInv
<1> QED
  BY <1>1, SetupInvariant, PTL
=============================================================================
