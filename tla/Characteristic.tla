--------------------------- MODULE Characteristic ---------------------------
(***************************************************************************)
(* One GATT characteristic: Characteristic<T> and Characteristic<uint8_t*> *)
(* of src/nodes/common/bluetooth.hpp over CharacteristicBase of            *)
(* bluetooth.cpp.                                                          *)
(*                                                                         *)
(* The attribute's memory is the object's own value (BLE_GATTS_VLOC_USER): *)
(* the SoftDevice serves the peer's reads and writes from it, in an        *)
(* interrupt, also in the middle of set_value's copy.  The length it       *)
(* serves is its own; the object keeps value_size beside it.               *)
(*                                                                         *)
(* A cell of value holds the number of the set_value that wrote it, 0 for  *)
(* the initial value, Foreign for what the peer wrote.                     *)
(***************************************************************************)
EXTENDS Integers

CONSTANTS
  MaxSize,    \* sizeof(T), or BLE_GATTS_VAR_ATTR_LEN_MAX
  MaxSpan,    \* the longest value that is set, of a variable length
  MaxSets     \* bound on the set_value calls of a behaviour

ASSUME SizeAssumption == MaxSize \in Nat \ {0} /\ MaxSpan \in Nat /\ MaxSets \in Nat

VARIABLES
  variable_length,    \* Characteristic<uint8_t*>, not Characteristic<T>
  write,              \* parameters.write: the peer may write
  value,
  value_size,
  length,             \* what the SoftDevice serves
  sets,               \* number of set_value calls begun
  copying,            \* how far set_value's copy has come, or Idle
  new_size,           \* the size of its argument
  foreign             \* history: the peer has written "before" or "during" the
                      \* last set_value that has not undone it, or "never"

vars == <<variable_length, write, value, value_size, length, sets, copying, new_size,
          foreign>>

Cells   == 1 .. MaxSize
Idle    == -1
Foreign == MaxSets + 1
Sizes   == IF variable_length THEN 0 .. MaxSize ELSE {MaxSize}
Spans   == IF variable_length THEN 0 .. MaxSpan ELSE {MaxSize}

-----------------------------------------------------------------------------
\* Constructed and registered.  An initial size of a variable length is told the
\* SoftDevice only, value_size begins with 0.
Init ==
  /\ variable_length \in BOOLEAN
  /\ write           \in BOOLEAN
  /\ value           = [i \in Cells |-> 0]
  /\ length          \in Sizes
  /\ value_size      = IF variable_length THEN 0 ELSE MaxSize
  /\ sets            = 0
  /\ copying         = Idle
  /\ new_size        = 0
  /\ foreign         = "never"

\* Mutant: the SoftDevice is told the length before the value is copied.
SetValueLengthFirst(size) ==
  /\ copying = Idle
  /\ sets < MaxSets
  /\ sets'     = sets + 1
  /\ new_size' = size
  /\ copying'  = 0
  /\ length'   = IF size <= MaxSize THEN size ELSE length
  /\ UNCHANGED <<variable_length, write, value, value_size, foreign>>

\* set_value asks nobody whether its argument fits.
SetValue(size) ==
  /\ copying = Idle
  /\ sets < MaxSets
  /\ sets'     = sets + 1
  /\ new_size' = size
  /\ copying'  = 0
  /\ UNCHANGED <<variable_length, write, value, value_size, length, foreign>>

\* Behind the last cell of value comes value_size, then somebody else's memory.
CopyCell ==
  /\ copying \in 0 .. new_size - 1
  /\ copying'    = copying + 1
  /\ value'      = [i \in Cells |-> IF i = copying + 1 THEN sets ELSE value[i]]
  /\ value_size' \in IF copying < MaxSize THEN {value_size} ELSE Spans
  /\ UNCHANGED <<variable_length, write, length, sets, new_size, foreign>>

\* Mutant: the SoftDevice is not told.
UpdateValueUntold ==
  /\ copying = new_size
  /\ copying'    = Idle
  /\ value_size' = new_size
  /\ foreign'    = IF foreign = "during" THEN "before" ELSE "never"
  /\ UNCHANGED <<variable_length, write, value, length, sets, new_size>>

\* value_size is set, and update_value tells the SoftDevice the length, which
\* refuses one it has no room for; this is only logged.
UpdateValue ==
  /\ copying = new_size
  /\ copying'    = Idle
  /\ value_size' = new_size
  /\ length'     = IF new_size <= MaxSize THEN new_size ELSE length
  /\ foreign'    = IF foreign = "during" THEN "before" ELSE "never"
  /\ UNCHANGED <<variable_length, write, value, sets, new_size>>

\* The SoftDevice takes the length of a notification it accepts for its own.
SendNotification ==
  /\ copying = Idle
  /\ length' = IF value_size <= MaxSize THEN value_size ELSE length
  /\ UNCHANGED <<variable_length, write, value, value_size, sets, copying, new_size,
                 foreign>>

PeerWrite(size) ==
  /\ write
  /\ value'   = [i \in Cells |-> IF i <= size THEN Foreign ELSE value[i]]
  /\ length'  = size
  /\ foreign' = IF copying = Idle THEN "before" ELSE "during"
  /\ UNCHANGED <<variable_length, write, value_size, sets, copying, new_size>>

Next ==
  \/ \E size \in Spans : SetValue(size)
  \/ \E size \in Sizes : PeerWrite(size)
  \/ CopyCell
  \/ UpdateValue
  \/ SendNotification

Spec == Init /\ [][Next]_vars

-----------------------------------------------------------------------------
\* Every variable keeps its type: the length the SoftDevice serves never exceeds
\* the memory, although set_value copies and keeps whatever size it is given.
TypeOK ==
  /\ variable_length \in BOOLEAN
  /\ write           \in BOOLEAN
  /\ value           \in [Cells -> 0 .. Foreign]
  /\ value_size      \in Spans \cup {0}
  /\ length          \in Sizes
  /\ sets            \in 0 .. MaxSets
  /\ copying         \in Nat \cup {Idle}
  /\ new_size        \in Nat
  /\ foreign         \in {"never", "before", "during"}

\* The SoftDevice and the object can agree: a value has been set, or its size is
\* that of its type, and the peer has not written over it.
Settled == foreign = "never" /\ (variable_length => sets > 0)

\* Between two calls of set_value the peer reads exactly what was set last, as
\* many bytes as were set, and a notification carries the same; of a value longer
\* than the memory it reads as many bytes as it could read before.
PeerReadsTheLastValue ==
  copying = Idle /\ Settled =>
    /\ value_size <= MaxSize => length = value_size
    /\ \A i \in 1 .. length : value[i] = sets

\* Whatever the order of values, notifications and writes of the peer, and whoever's
\* length the SoftDevice has taken last, every byte that is read is of the last
\* value, of the one before it while the last is still being copied, or of the
\* peer if it has written since: nothing older shows behind a shorter value.
NothingOlderIsRead ==
  \A i \in 1 .. length :
    \/ value[i] = sets
    \/ value[i] = sets - 1 /\ copying # Idle
    \/ value[i] = Foreign /\ foreign # "never"
=============================================================================
