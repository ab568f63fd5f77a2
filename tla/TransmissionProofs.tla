-------------------------- MODULE TransmissionProofs --------------------------
(***************************************************************************)
(* Proofs about Frames, for all sizes of buffers, frames and checksums,    *)
(* and about DelayedReply, for all widths of a byte, delays and times an   *)
(* application may take.                                                   *)
(***************************************************************************)
EXTENDS Frames, DelayedReply, TLAPS

Falls(memory) == \A i, j \in DOMAIN memory : i <= j => memory[i] >= memory[j]

\* Newer frames come first in both buffers, and the peer has nothing the chip has
\* not had in its place, or something newer.
MemoryInv ==
  /\ \A i \in 1 .. Memory : tx_memory[i] <= used /\ rx_memory[i] <= tx_memory[i]
  /\ Falls(tx_memory) /\ Falls(rx_memory) /\ Falls(got)

\* The chip's buffer has the data of a frame.
Data(f) == \A i \in 1 .. f.length - Fcs : tx_memory[i] = f.id

\* A context's frame stays in the buffer until somebody else sets it, and a callback
\* is not disturbed.
WholeInv ==
  /\ \A c \in Contexts : whole[c] /\ at[c] \in {"written", "ready"} => Data(span[c])
  /\ \A c \in Contexts : whole[c] /\ at[c] = "ready" => tx_length = span[c].length
  /\ at[Callback] \in {"written", "ready"} => whole[Callback]

\* What was started is still there, or has arrived.
StartedInv ==
  /\ armed => started.deferred
  /\ started.kept /\ armed => tx_length = started.frame.length /\ Data(started.frame)

\* Nothing goes on after a frame that was too short.
ShortInv == \A c \in Contexts : Short(c) => at[c] = "faulted"

FramesInv ==
  /\ TypeOK
  /\ ShortInv
  /\ OnlyOddFramesOverrun
  /\ MemoryInv
  /\ WholeInv
  /\ StartedInv
  /\ FramesLeaveWhole
  /\ CallbacksSendTheirFrames

-----------------------------------------------------------------------------
\* The constants as naturals.
LEMMA Sizes ==
  /\ SpiBufferSize \in Nat /\ MaxFrame \in Nat /\ Fcs \in Nat /\ Header \in Nat
  /\ Memory \in Nat /\ MaxFrames \in Nat
  /\ Lengths \subseteq Nat
  /\ \A n \in Lengths : n <= Memory
  /\ Header + MaxFrame <= SpiBufferSize
  /\ Word \in Nat /\ SpiBufferSize + Header + Memory + Fcs < Word
BY LengthAssumption

\* Division has one result.
LEMMA DivisionIsUnique ==
  ASSUME NEW b \in Nat \ {0}, NEW t \in Int, NEW q \in Int, NEW r \in 0 .. b - 1, t = b * q + r
  PROVE  t % b = r /\ t \div b = q
OBVIOUS

\* A sum below the width is compared as it is.
LEMMA SumIsItself ==
  ASSUME NEW x \in Nat, x < Word
  PROVE  x % Word = x
<1>1. Word \in Nat \ {0} /\ x \in 0 .. Word - 1 /\ x = Word * 0 + x
  BY Sizes
<1> QED
  BY <1>1, DivisionIsUnique

\* What a transaction leaves if it is not for a frame that is too short.
LEMMA TransactionFits ==
  ASSUME TypeOK, OnlyOddFramesOverrun, NEW n \in Lengths, NEW body \in Nat,
         body <= n, Transaction(n, body), \A c \in Contexts : ~Short(c)
  PROVE  /\ longest' \in {0} \cup Lengths /\ overran' \in BOOLEAN /\ logged' \in BOOLEAN
         /\ overran' => longest' > MaxFrame /\ logged'
<1>1. longest \in Nat /\ n \in Nat /\ n <= Memory
  BY Sizes DEF TypeOK
<1>2. longest' \in {0} \cup Lengths /\ longest' >= longest /\ longest' >= n
  BY <1>1 DEF Transaction, TypeOK
<1>3. Header + body \in Nat /\ Header + body < Word
  BY <1>1, Sizes
<1>4. /\ overran' = (overran \/ Header + body > SpiBufferSize)
      /\ logged' = (logged \/ Header + body > SpiBufferSize)
  BY <1>3, SumIsItself DEF Transaction
<1>5. overran' \in BOOLEAN /\ logged' \in BOOLEAN
  BY <1>4 DEF TypeOK
<1>6. Header + body > SpiBufferSize => n > MaxFrame
  BY <1>1, Sizes
<1>7. longest' \in Nat
  BY <1>2, Sizes
<1>8. CASE overran
  <2>1. longest > MaxFrame /\ logged
    BY <1>8 DEF OnlyOddFramesOverrun
  <2>2. longest' > MaxFrame
    BY <1>1, <1>2, <1>7, <2>1, Sizes
  <2> QED
    BY <1>2, <1>4, <1>5, <2>1, <2>2
<1>9. CASE ~overran
  <2>1. overran' => n > MaxFrame /\ logged'
    BY <1>4, <1>6, <1>9
  <2>2. n > MaxFrame => longest' > MaxFrame
    BY <1>1, <1>2, <1>7, Sizes
  <2> QED
    BY <1>2, <1>5, <2>1, <2>2
<1> QED
  BY <1>8, <1>9

\* What Send does to the peer's buffer keeps it in order and brings it what the
\* chip's buffer has.
LEMMA SendKeeps ==
  ASSUME TypeOK, MemoryInv, Send
  PROVE  /\ rx_memory' \in [1 .. Memory -> Ids]
         /\ rx_length' = tx_length /\ rx_length' \in {0} \cup Lengths
         /\ Falls(rx_memory')
         /\ \A i \in 1 .. Memory : rx_memory'[i] <= tx_memory[i]
         /\ \A i \in 1 .. tx_length - Fcs : rx_memory'[i] = tx_memory[i]
<1>0. /\ tx_memory \in [1 .. Memory -> Ids] /\ rx_memory \in [1 .. Memory -> Ids]
      /\ tx_length \in {0} \cup Lengths
      /\ tx_length \in Nat /\ tx_length <= Memory
      /\ Ids \subseteq Nat
  BY Sizes DEF TypeOK, Ids
<1>1. /\ rx_length' = tx_length
      /\ rx_memory' = [i \in 1 .. Memory |->
                         IF i <= tx_length - Fcs THEN tx_memory[i] ELSE rx_memory[i]]
  BY DEF Send
<1>2. rx_memory' \in [1 .. Memory -> Ids]
  BY <1>0, <1>1
<1>a. \A i \in 1 .. Memory :
        /\ tx_memory[i] \in Nat /\ rx_memory[i] \in Nat
        /\ i <= tx_length - Fcs => rx_memory'[i] = tx_memory[i]
        /\ ~(i <= tx_length - Fcs) => rx_memory'[i] = rx_memory[i]
  <2> SUFFICES ASSUME NEW i \in 1 .. Memory
               PROVE  /\ tx_memory[i] \in Nat /\ rx_memory[i] \in Nat
                      /\ i <= tx_length - Fcs => rx_memory'[i] = tx_memory[i]
                      /\ ~(i <= tx_length - Fcs) => rx_memory'[i] = rx_memory[i]
    OBVIOUS
  <2>1. tx_memory[i] \in Ids /\ rx_memory[i] \in Ids
    BY <1>0
  <2>2. rx_memory'[i] = IF i <= tx_length - Fcs THEN tx_memory[i] ELSE rx_memory[i]
    BY <1>1
  <2>3. tx_length - Fcs \in Int /\ i \in Int
    BY <1>0, Sizes
  <2> QED
    BY <1>0, <2>1, <2>2, <2>3
<1>3. \A i \in 1 .. Memory : rx_memory'[i] <= tx_memory[i]
  BY <1>a DEF MemoryInv
<1>4. \A i \in 1 .. tx_length - Fcs : rx_memory'[i] = tx_memory[i]
  <2>1. \A i \in 1 .. tx_length - Fcs : i \in 1 .. Memory /\ i <= tx_length - Fcs
    BY <1>0, Sizes
  <2> QED
    BY <1>a, <2>1
<1>5. Falls(rx_memory')
  <2> SUFFICES ASSUME NEW i \in 1 .. Memory, NEW j \in 1 .. Memory, i <= j
               PROVE  rx_memory'[i] >= rx_memory'[j]
    BY <1>2 DEF Falls
  <2>0. DOMAIN tx_memory = 1 .. Memory /\ DOMAIN rx_memory = 1 .. Memory
    BY <1>0
  <2>6. tx_memory[i] >= tx_memory[j] /\ rx_memory[i] >= rx_memory[j]
    BY <2>0 DEF MemoryInv, Falls
  <2>7. tx_memory[j] >= rx_memory[j]
    BY <1>a DEF MemoryInv
  <2>1. /\ tx_memory[i] >= tx_memory[j] /\ rx_memory[i] >= rx_memory[j]
        /\ tx_memory[j] >= rx_memory[j]
    BY <2>6, <2>7
  <2>2. tx_length - Fcs \in Int
    BY <1>0, Sizes
  <2>3. i \in Int /\ j \in Int
    OBVIOUS
  <2>4. CASE i <= tx_length - Fcs
    <3>1. rx_memory'[i] = tx_memory[i]
      BY <1>a, <2>4
    <3> QED
      BY <1>a, <2>1, <3>1
  <2>5. CASE ~(i <= tx_length - Fcs)
    <3>1. rx_memory'[i] = rx_memory[i] /\ rx_memory'[j] = rx_memory[j]
      BY <1>0, <1>1, <2>2, <2>3, <2>5
    <3> QED
      BY <2>1, <3>1
  <2> QED
    BY <2>4, <2>5
<1> QED
  BY <1>0, <1>1, <1>2, <1>3, <1>4, <1>5

-----------------------------------------------------------------------------
LEMMA FramesInit == Init => FramesInv
<1> SUFFICES ASSUME Init PROVE FramesInv
  OBVIOUS
<1> USE Sizes DEF Init
<1>1. TypeOK
  <2>1. 0 \in Ids /\ None \in Span
    BY DEF Ids, Span, None
  <2>2. started \in [by : Contexts, deferred : BOOLEAN, frame : Span, kept : BOOLEAN]
    BY <2>1 DEF Contexts
  <2>3. got \in Seq(Ids)
    OBVIOUS
  <2> QED
    BY <2>1, <2>2, <2>3 DEF TypeOK, Places
<1>2. MemoryInv
  BY DEF MemoryInv, Falls
<1>5. ShortInv
  BY DEF ShortInv, Short, None
<1>3. OnlyOddFramesOverrun /\ WholeInv /\ StartedInv /\ FramesLeaveWhole
  BY DEF OnlyOddFramesOverrun, WholeInv, StartedInv, FramesLeaveWhole, Contexts
<1>4. CallbacksSendTheirFrames
  BY DEF CallbacksSendTheirFrames, Main, Callback
<1> QED
  BY <1>1, <1>2, <1>3, <1>4, <1>5 DEF FramesInv

LEMMA WriteTxDataStep ==
  ASSUME FramesInv, NEW c \in Contexts, NEW n \in Lengths, WriteTxData(c, n)
  PROVE  FramesInv'
<1> USE DEF FramesInv
<1>0. /\ used \in Nat /\ used + 1 \in Ids /\ Ids \subseteq Nat
      /\ n \in Nat /\ Fcs \in Nat /\ n >= Fcs /\ n - Fcs \in Nat /\ n - Fcs <= Memory /\ n - Fcs <= n
  BY Sizes DEF WriteTxData, TypeOK, Ids
<1>1. /\ at[c] = "idle" /\ Runs(c)
      /\ used' = used + 1
      /\ span' = [span EXCEPT ![c] = [id |-> used + 1, length |-> n]]
      /\ tx_memory' = [i \in 1 .. Memory |-> IF i <= n - Fcs THEN used + 1 ELSE tx_memory[i]]
      /\ at' = [at EXCEPT ![c] = "written"]
      /\ whole' = [d \in Contexts |-> d = c]
      /\ started' = [started EXCEPT !.kept = @ /\ ~armed]
      /\ UNCHANGED <<tx_length, armed, rx_memory, rx_length, got>>
  BY DEF WriteTxData, Overlay, TypeOK
<1>a. ~Faulted /\ \A d \in Contexts : ~Short(d)
  BY <1>1 DEF Runs, Faulted, ShortInv
<1>2. /\ longest' \in {0} \cup Lengths /\ overran' \in BOOLEAN /\ logged' \in BOOLEAN
      /\ overran' => longest' > MaxFrame /\ logged'
  BY <1>0, <1>a, TransactionFits DEF WriteTxData
<1>b. OnlyOddFramesOverrun'
  BY <1>2 DEF OnlyOddFramesOverrun
<1>c. ShortInv'
  <2> SUFFICES ASSUME NEW d \in Contexts PROVE ~Short(d)'
    BY DEF ShortInv
  <2>1. CASE d = c
    <3>1. span'[d].length = n
      BY <1>1, <2>1 DEF TypeOK
    <3> QED
      BY <1>0, <3>1 DEF Short
  <2>2. CASE d # c
    <3>1. span'[d] = span[d]
      BY <1>1, <2>2 DEF TypeOK
    <3> QED
      BY <1>a, <3>1 DEF Short
  <2> QED
    BY <2>1, <2>2
<1>3. TypeOK'
  <2>1. span' \in [Contexts -> Span]
    BY <1>0, <1>1 DEF TypeOK, Span
  <2>2. started' \in [by : Contexts, deferred : BOOLEAN, frame : Span, kept : BOOLEAN]
    BY <1>1 DEF TypeOK
  <2>3. tx_memory' \in [1 .. Memory -> Ids]
    BY <1>0, <1>1 DEF TypeOK
  <2> QED
    BY <1>0, <1>1, <1>2, <2>1, <2>2, <2>3 DEF TypeOK, Places
<1>4. MemoryInv'
  <2>1. \A i \in 1 .. Memory : tx_memory[i] \in Nat /\ rx_memory[i] \in Nat
    BY <1>0 DEF TypeOK
  <2>2. \A i \in 1 .. Memory : tx_memory'[i] <= used' /\ rx_memory'[i] <= tx_memory'[i]
    BY <1>0, <1>1, <2>1 DEF MemoryInv
  <2>3. Falls(tx_memory')
    <3> SUFFICES ASSUME NEW i \in 1 .. Memory, NEW j \in 1 .. Memory, i <= j
                 PROVE  tx_memory'[i] >= tx_memory'[j]
      BY <1>1 DEF Falls
    <3>1. tx_memory[i] >= tx_memory[j] /\ tx_memory[j] <= used
      BY DEF MemoryInv, Falls, TypeOK
    <3> QED
      BY <1>0, <1>1, <2>1, <3>1
  <2> QED
    BY <1>1, <2>2, <2>3 DEF MemoryInv, Falls
<1>5. WholeInv'
  <2>1. ASSUME NEW d \in Contexts, whole'[d] PROVE d = c
    BY <1>1, <2>1
  <2>2. Data(span[c])'
    <3>1. span'[c] = [id |-> used + 1, length |-> n]
      BY <1>1 DEF TypeOK
    <3>2. \A i \in 1 .. n - Fcs : tx_memory'[i] = used + 1
      BY <1>0, <1>1, Sizes
    <3> QED
      BY <3>1, <3>2 DEF Data
  <2>3. at'[c] = "written" /\ whole'[c]
    BY <1>1 DEF TypeOK
  <2>4. at'[Callback] \in {"written", "ready"} => c = Callback
    BY <1>1 DEF Runs, Contexts, Main, Callback, TypeOK
  <2> QED
    BY <2>1, <2>2, <2>3, <2>4 DEF WholeInv
<1>6. /\ started'.by = started.by /\ started'.deferred = started.deferred
      /\ started'.frame = started.frame
      /\ started'.kept => started.kept /\ ~armed
  BY <1>1 DEF TypeOK
<1>7. StartedInv' /\ FramesLeaveWhole' /\ CallbacksSendTheirFrames'
  BY <1>1, <1>6 DEF StartedInv, FramesLeaveWhole, CallbacksSendTheirFrames, Arrived
<1> QED
  BY <1>3, <1>4, <1>5, <1>7, <1>b, <1>c

LEMMA WriteTooShortStep ==
  ASSUME FramesInv, NEW c \in Contexts, NEW n \in Lengths, WriteTooShort(c, n)
  PROVE  FramesInv'
<1> USE DEF FramesInv
<1>0. used \in Nat /\ used + 1 \in Ids /\ used + 1 > 0 /\ n \in Nat /\ n < Fcs /\ Fcs \in Nat
  BY Sizes DEF WriteTooShort, TypeOK, Ids
<1>1. /\ at[c] = "idle" /\ Runs(c)
      /\ used' = used + 1
      /\ span' = [span EXCEPT ![c] = [id |-> used + 1, length |-> n]]
      /\ at' = [at EXCEPT ![c] = "faulted"]
      /\ Transaction(n, Word + n - Fcs)
      /\ UNCHANGED <<tx_memory, tx_length, rx_memory, rx_length, armed, got, whole, started>>
  BY DEF WriteTooShort, buffers
<1>2. span'[c] = [id |-> used + 1, length |-> n] /\ at'[c] = "faulted"
      /\ \A d \in Contexts \ {c} : span'[d] = span[d] /\ at'[d] = at[d]
  BY <1>1 DEF TypeOK
<1>3. Short(c)'
  BY <1>0, <1>2 DEF Short
<1>4. /\ longest' \in {0} \cup Lengths /\ overran' \in BOOLEAN /\ logged' \in BOOLEAN
  BY <1>1 DEF Transaction, TypeOK
<1>5. OnlyOddFramesOverrun'
  <2>1. Header + n >= Fcs \/ logged'
    <3> SUFFICES ASSUME ~(Header + n >= Fcs) PROVE logged'
      OBVIOUS
    <3>1. PICK x \in Nat : x = Header + (Word + n - Fcs)
      BY <1>0, Sizes
    <3>2. x < Word /\ x > SpiBufferSize
      BY <1>0, <3>1, Sizes
    <3> QED
      BY <1>1, <3>1, <3>2, SumIsItself DEF Transaction
  <2>2. span'[c].length = n
    BY <1>2
  <2> QED
    BY <1>3, <2>1, <2>2 DEF OnlyOddFramesOverrun
<1>6. ShortInv'
  <2>1. \A d \in Contexts \ {c} : Short(d)' <=> Short(d)
    BY <1>2 DEF Short
  <2> QED
    BY <1>2, <2>1 DEF ShortInv
<1>7. TypeOK'
  <2>1. span' \in [Contexts -> Span]
    BY <1>0, <1>1 DEF TypeOK, Span
  <2>2. at' \in [Contexts -> Places]
    BY <1>1 DEF TypeOK, Places
  <2> QED
    BY <1>0, <1>1, <1>4, <2>1, <2>2 DEF TypeOK
<1>8. MemoryInv'
  <2>1. \A i \in 1 .. Memory : tx_memory[i] \in Nat
    BY DEF TypeOK, Ids
  <2> QED
    BY <1>0, <1>1, <2>1 DEF MemoryInv, Falls
<1>9. WholeInv'
  <2> SUFFICES ASSUME NEW d \in Contexts, at'[d] \in {"written", "ready"}
               PROVE  d # c
    <3>1. \A d \in Contexts \ {c} : Data(span[d])' <=> Data(span[d])
      BY <1>1, <1>2 DEF Data
    <3> QED
      BY <1>1, <1>2, <3>1 DEF WholeInv, Contexts
  <2> QED
    BY <1>2
<1>10. StartedInv' /\ FramesLeaveWhole' /\ CallbacksSendTheirFrames'
  BY <1>1 DEF StartedInv, Data, FramesLeaveWhole, CallbacksSendTheirFrames, Arrived
<1> QED
  BY <1>5, <1>6, <1>7, <1>8, <1>9, <1>10

LEMMA WriteTxFctrlStep ==
  ASSUME FramesInv, NEW c \in Contexts, WriteTxFctrl(c) PROVE FramesInv'
<1> USE DEF FramesInv
<1>1. /\ at[c] = "written" /\ Runs(c)
      /\ tx_length' = span[c].length
      /\ at' = [at EXCEPT ![c] = "ready"]
      /\ whole' = [d \in Contexts |-> d = c /\ whole[c]]
      /\ started' = [started EXCEPT !.kept = @ /\ ~armed]
      /\ UNCHANGED <<span, used, tx_memory, armed, rx_memory, rx_length, got,
                     longest, overran, logged>>
  BY DEF WriteTxFctrl
<1>2. TypeOK'
  <2>1. started' \in [by : Contexts, deferred : BOOLEAN, frame : Span, kept : BOOLEAN]
    BY <1>1 DEF TypeOK
  <2>2. span[c].length \in {0} \cup Lengths
    BY DEF TypeOK, Span
  <2>3. whole' \in [Contexts -> BOOLEAN]
    BY <1>1 DEF TypeOK
  <2> QED
    BY <1>1, <2>1, <2>2, <2>3 DEF TypeOK, Places
<1>3. MemoryInv' /\ OnlyOddFramesOverrun' /\ ShortInv'
  <2>1. ShortInv'
    <3>1. \A d \in Contexts : at[d] # "faulted"
      BY <1>1 DEF Runs, Faulted
    <3> QED
      BY <1>1, <3>1 DEF ShortInv, Short
  <2> QED
    BY <1>1, <2>1 DEF MemoryInv, Falls, OnlyOddFramesOverrun, Short
<1>4. WholeInv'
  <2>1. ASSUME NEW d \in Contexts, whole'[d] PROVE d = c /\ whole[c]
    BY <1>1, <2>1
  <2>2. whole[c] => Data(span[c])'
    BY <1>1 DEF WholeInv, Data
  <2>3. at'[Callback] \in {"written", "ready"} => c = Callback
    BY <1>1 DEF Runs, Contexts, Main, Callback, TypeOK
  <2>4. c = Callback => whole'[Callback]
    BY <1>1 DEF WholeInv, Contexts
  <2> QED
    BY <1>1, <2>1, <2>2, <2>3, <2>4 DEF WholeInv, TypeOK
<1>5. /\ started'.by = started.by /\ started'.deferred = started.deferred
      /\ started'.frame = started.frame
      /\ started'.kept => started.kept /\ ~armed
  BY <1>1 DEF TypeOK
<1>6. StartedInv' /\ FramesLeaveWhole' /\ CallbacksSendTheirFrames'
  BY <1>1, <1>5 DEF StartedInv, FramesLeaveWhole, CallbacksSendTheirFrames, Arrived
<1> QED
  BY <1>2, <1>3, <1>4, <1>6

\* What both ways of starting a transmission have in common.
LEMMA StartKeeps ==
  ASSUME FramesInv, NEW c \in Contexts, NEW later \in BOOLEAN, Start(c, later)
  PROVE  /\ started' = [by |-> c, deferred |-> later, frame |-> span[c], kept |-> whole[c]]
         /\ started' \in [by : Contexts, deferred : BOOLEAN, frame : Span, kept : BOOLEAN]
         /\ at' \in [Contexts -> Places]
         /\ whole[c] => tx_length = span[c].length /\ Data(span[c])
         /\ c = Callback => whole[c]
         /\ WholeInv' /\ ShortInv'
         /\ UNCHANGED <<span, used, tx_memory, tx_length, got, longest, overran, logged, whole>>
<1> USE DEF FramesInv
<1>1. /\ at[c] = "ready" /\ ~armed
      /\ started' = [by |-> c, deferred |-> later, frame |-> span[c], kept |-> whole[c]]
      /\ at' = [at EXCEPT ![c] = "idle"]
      /\ UNCHANGED <<span, used, tx_memory, tx_length, got, longest, overran, logged, whole>>
  BY DEF Start
<1>2. span[c] \in Span /\ whole[c] \in BOOLEAN
  BY DEF TypeOK
<1>3. started' \in [by : Contexts, deferred : BOOLEAN, frame : Span, kept : BOOLEAN]
  BY <1>1, <1>2
<1>4. at' \in [Contexts -> Places]
  BY <1>1 DEF TypeOK, Places
<1>5. whole[c] => tx_length = span[c].length /\ Data(span[c])
  BY <1>1 DEF WholeInv
<1>6. c = Callback => whole[c]
  BY <1>1 DEF WholeInv
<1>7. WholeInv'
  <2>1. ASSUME NEW d \in Contexts PROVE at'[d] \in {"idle", at[d]}
    BY <1>1 DEF TypeOK
  <2>2. \A d \in Contexts : Data(span[d])' <=> Data(span[d])
    BY <1>1 DEF Data
  <2> QED
    BY <1>1, <2>1, <2>2 DEF WholeInv, Contexts
<1>8. ShortInv'
  <2>1. \A d \in Contexts : at[d] # "faulted"
    BY DEF Start, Runs, Faulted
  <2> QED
    BY <1>1, <2>1 DEF ShortInv, Short
<1> QED
  BY <1>1, <1>3, <1>4, <1>5, <1>6, <1>7, <1>8

LEMMA TransmitNowStep ==
  ASSUME FramesInv, NEW c \in Contexts, TransmitNow(c) PROVE FramesInv'
<1> USE DEF FramesInv
<1>1. Start(c, FALSE) /\ Send /\ armed' = armed /\ ~armed
  BY DEF TransmitNow, Start
<1>2. /\ started' = [by |-> c, deferred |-> FALSE, frame |-> span[c], kept |-> whole[c]]
      /\ started' \in [by : Contexts, deferred : BOOLEAN, frame : Span, kept : BOOLEAN]
      /\ at' \in [Contexts -> Places]
      /\ whole[c] => tx_length = span[c].length /\ Data(span[c])
      /\ c = Callback => whole[c]
      /\ WholeInv' /\ ShortInv'
      /\ UNCHANGED <<span, used, tx_memory, tx_length, got, longest, overran, logged, whole>>
  BY <1>1, StartKeeps
<1>3. /\ rx_memory' \in [1 .. Memory -> Ids]
      /\ rx_length' = tx_length /\ rx_length' \in {0} \cup Lengths
      /\ Falls(rx_memory')
      /\ \A i \in 1 .. Memory : rx_memory'[i] <= tx_memory[i]
      /\ \A i \in 1 .. tx_length - Fcs : rx_memory'[i] = tx_memory[i]
  BY <1>1, SendKeeps
<1>4. TypeOK'
  BY <1>1, <1>2, <1>3 DEF TypeOK
<1>5. MemoryInv' /\ OnlyOddFramesOverrun'
  BY <1>2, <1>3 DEF MemoryInv, Falls, OnlyOddFramesOverrun, Short
<1>6. whole[c] => Arrived'
  <2> SUFFICES ASSUME whole[c] PROVE Arrived'
    OBVIOUS
  <2>1. tx_length = span[c].length /\ Data(span[c])
    BY <1>2
  <2>2. started'.frame = span[c]
    BY <1>2
  <2> QED
    BY <1>3, <2>1, <2>2 DEF Arrived, Data
<1>7. StartedInv' /\ FramesLeaveWhole' /\ CallbacksSendTheirFrames'
  BY <1>1, <1>2, <1>6 DEF StartedInv, FramesLeaveWhole, CallbacksSendTheirFrames
<1> QED
  BY <1>2, <1>4, <1>5, <1>7

LEMMA TransmitDefferedStep ==
  ASSUME FramesInv, NEW c \in Contexts, TransmitDeffered(c) PROVE FramesInv'
<1> USE DEF FramesInv
<1>1. Start(c, TRUE) /\ armed' = TRUE /\ UNCHANGED <<rx_memory, rx_length>>
  BY DEF TransmitDeffered
<1>2. /\ started' = [by |-> c, deferred |-> TRUE, frame |-> span[c], kept |-> whole[c]]
      /\ started' \in [by : Contexts, deferred : BOOLEAN, frame : Span, kept : BOOLEAN]
      /\ at' \in [Contexts -> Places]
      /\ whole[c] => tx_length = span[c].length /\ Data(span[c])
      /\ c = Callback => whole[c]
      /\ WholeInv' /\ ShortInv'
      /\ UNCHANGED <<span, used, tx_memory, tx_length, got, longest, overran, logged, whole>>
  BY <1>1, StartKeeps
<1>3. TypeOK'
  BY <1>1, <1>2 DEF TypeOK
<1>4. MemoryInv' /\ OnlyOddFramesOverrun'
  BY <1>1, <1>2 DEF MemoryInv, Falls, OnlyOddFramesOverrun, Short
<1>5. Data(span[c])' <=> Data(span[c])
  BY <1>2 DEF Data
<1>6. StartedInv'
  <2>1. started'.frame = span[c] /\ started'.deferred = TRUE /\ started'.kept = whole[c]
    BY <1>2
  <2>2. Data(started.frame)' <=> Data(span[c])
    BY <1>2, <2>1 DEF Data
  <2> QED
    BY <1>2, <2>1, <2>2 DEF StartedInv
<1>7. FramesLeaveWhole' /\ CallbacksSendTheirFrames'
  BY <1>1, <1>2 DEF FramesLeaveWhole, CallbacksSendTheirFrames
<1> QED
  BY <1>2, <1>3, <1>4, <1>6, <1>7

LEMMA DropStep == ASSUME FramesInv, NEW c \in Contexts, Drop(c) PROVE FramesInv'
<1> USE DEF FramesInv
<1>1. /\ at' = [at EXCEPT ![c] = "idle"]
      /\ UNCHANGED <<span, used, tx_memory, tx_length, rx_memory, rx_length, armed, got,
                     longest, overran, logged, whole, started>>
  BY DEF Drop, buffers
<1>2. TypeOK'
  BY <1>1 DEF TypeOK, Places
<1>3. MemoryInv' /\ OnlyOddFramesOverrun'
  BY <1>1 DEF MemoryInv, Falls, OnlyOddFramesOverrun, Short
<1>4. WholeInv'
  <2>1. ASSUME NEW d \in Contexts PROVE at'[d] \in {"idle", at[d]}
    BY <1>1 DEF TypeOK
  <2>2. \A d \in Contexts : Data(span[d])' <=> Data(span[d])
    BY <1>1 DEF Data
  <2> QED
    BY <1>1, <2>1, <2>2 DEF WholeInv, Contexts
<1>5. StartedInv' /\ FramesLeaveWhole' /\ CallbacksSendTheirFrames'
  BY <1>1 DEF StartedInv, Data, FramesLeaveWhole, CallbacksSendTheirFrames, Arrived
<1>6. ShortInv'
  <2>1. \A d \in Contexts : at[d] # "faulted"
    BY DEF Drop, Runs, Faulted
  <2> QED
    BY <1>1, <2>1 DEF ShortInv, Short
<1> QED
  BY <1>2, <1>3, <1>4, <1>5, <1>6

LEMMA LeaveStep == ASSUME FramesInv, Leave PROVE FramesInv'
<1> USE DEF FramesInv
<1>1. /\ armed /\ armed' = FALSE /\ Send
      /\ UNCHANGED <<at, span, used, tx_memory, tx_length, got, longest, overran, logged,
                     whole, started>>
  BY DEF Leave
<1>2. /\ rx_memory' \in [1 .. Memory -> Ids]
      /\ rx_length' = tx_length /\ rx_length' \in {0} \cup Lengths
      /\ Falls(rx_memory')
      /\ \A i \in 1 .. Memory : rx_memory'[i] <= tx_memory[i]
      /\ \A i \in 1 .. tx_length - Fcs : rx_memory'[i] = tx_memory[i]
  BY <1>1, SendKeeps
<1>3. TypeOK'
  BY <1>1, <1>2 DEF TypeOK
<1>4. MemoryInv' /\ OnlyOddFramesOverrun'
  BY <1>1, <1>2 DEF MemoryInv, Falls, OnlyOddFramesOverrun, Short
<1>5. WholeInv' /\ StartedInv' /\ ShortInv'
  BY <1>1 DEF WholeInv, StartedInv, Data, ShortInv, Short
<1>6. FramesLeaveWhole'
  <2> SUFFICES ASSUME started.kept PROVE Arrived'
    BY <1>1 DEF FramesLeaveWhole
  <2>1. tx_length = started.frame.length /\ Data(started.frame)
    BY <1>1 DEF StartedInv
  <2> QED
    BY <1>1, <1>2, <2>1 DEF Arrived, Data
<1>7. CallbacksSendTheirFrames'
  BY <1>1 DEF StartedInv, CallbacksSendTheirFrames
<1> QED
  BY <1>3, <1>4, <1>5, <1>6, <1>7

LEMMA GetTxBufferStep ==
  ASSUME FramesInv, NEW n \in Lengths, GetTxBuffer(n) PROVE FramesInv'
<1> USE DEF FramesInv
<1>1. /\ got' = SubSeq(rx_memory, 1, n)
      /\ Transaction(n, n)
      /\ UNCHANGED <<at, span, used, tx_memory, tx_length, rx_memory, rx_length, armed,
                     whole, started>>
  BY DEF GetTxBuffer, buffers
<1>2. n \in Nat /\ n <= Memory /\ Memory \in Nat
  BY Sizes
<1>8. ~Faulted /\ \A d \in Contexts : ~Short(d)
  BY DEF GetTxBuffer, Faulted, ShortInv
<1>3. /\ longest' \in {0} \cup Lengths /\ overran' \in BOOLEAN /\ logged' \in BOOLEAN
      /\ overran' => longest' > MaxFrame /\ logged'
  BY <1>1, <1>2, <1>8, TransactionFits
<1>9. OnlyOddFramesOverrun' /\ ShortInv'
  BY <1>1, <1>3 DEF OnlyOddFramesOverrun, ShortInv, Short
<1>4. /\ got' \in Seq(Ids)
      /\ DOMAIN got' = 1 .. n
      /\ \A i \in 1 .. n : got'[i] = rx_memory[i]
  <2>1. rx_memory \in Seq(Ids) /\ Len(rx_memory) = Memory
    BY <1>2 DEF TypeOK
  <2> QED
    BY <1>1, <1>2, <2>1
<1>5. TypeOK'
  BY <1>1, <1>3, <1>4 DEF TypeOK
<1>6. MemoryInv'
  <2>1. Falls(got')
    BY <1>2, <1>4 DEF MemoryInv, Falls, TypeOK
  <2> QED
    BY <1>1, <2>1 DEF MemoryInv, Falls
<1>7. WholeInv' /\ StartedInv' /\ FramesLeaveWhole' /\ CallbacksSendTheirFrames'
  BY <1>1 DEF WholeInv, StartedInv, Data, FramesLeaveWhole, CallbacksSendTheirFrames, Arrived
<1> QED
  BY <1>5, <1>6, <1>7, <1>9

\* The invariant holds in every behaviour.
THEOREM FramesInvariant == Spec => []FramesInv
<1>1. FramesInv /\ [Next]_vars => FramesInv'
  <2> SUFFICES ASSUME FramesInv, [Next]_vars PROVE FramesInv'
    OBVIOUS
  <2>1. CASE UNCHANGED vars
    BY <2>1 DEF vars, FramesInv, TypeOK, ShortInv, Short, OnlyOddFramesOverrun, MemoryInv, Falls,
      WholeInv, StartedInv, Data, FramesLeaveWhole, CallbacksSendTheirFrames, Arrived
  <2> QED
    BY <2>1, WriteTxDataStep, WriteTooShortStep, WriteTxFctrlStep, TransmitNowStep, TransmitDefferedStep,
      DropStep, LeaveStep, GetTxBufferStep DEF Next
<1> QED
  BY FramesInit, <1>1, PTL DEF Spec

-----------------------------------------------------------------------------
\* Every variable keeps its type, for all sizes and any number of frames.
THEOREM FramesTypes == Spec => []TypeOK
<1>1. FramesInv => TypeOK
  BY DEF FramesInv
<1> QED
  BY <1>1, FramesInvariant, PTL

\* If the longest standard frame fits the SPI buffers with its header (writetospi,
\* readfromspi), they are overrun by longer frames only, and by one shorter than its check
\* sequence, and every overrun is noticed but that of such a frame whose length wraps twice.
THEOREM StandardFramesFit == Spec => []OnlyOddFramesOverrun
<1>1. FramesInv => OnlyOddFramesOverrun
  BY DEF FramesInv
<1> QED
  BY <1>1, FramesInvariant, PTL

\* A frame that nobody else has touched is received as it was set.
THEOREM UndisturbedFramesArrive == Spec => []FramesLeaveWhole
<1>1. FramesInv => FramesLeaveWhole
  BY DEF FramesInv
<1> QED
  BY <1>1, FramesInvariant, PTL

\* A callback's frame is received as it was set, whatever the foreground was doing.
THEOREM CallbacksAreUndisturbed == Spec => []CallbacksSendTheirFrames
<1>1. FramesInv => CallbacksSendTheirFrames
  BY DEF FramesInv
<1> QED
  BY <1>1, FramesInvariant, PTL

\* What is read never has older bytes before newer ones.
THEOREM ReadsAreNewestFirst == Spec => []NewestFirst
<1>1. FramesInv => NewestFirst
  BY DEF FramesInv, MemoryInv, Falls, NewestFirst
<1> QED
  BY <1>1, FramesInvariant, PTL

-----------------------------------------------------------------------------
(* The delayed reply.                                                      *)

\* Times are the same if they differ by whole periods.
Same(x, y) == \E w \in Int : x = y + w * Period

ReplyTypes ==
  /\ phase    \in {"idle", "event", "based", "set", "accepted", "refused", "sent", "measured"}
  /\ clock    \in 0 .. Period - 1
  /\ base     \in 0 .. Period - 1
  /\ delay    \in 0 .. Period - 1
  /\ dx_time  \in 0 .. Coarse - 1
  /\ pending  \in BOOLEAN
  /\ elapsed  \in Nat
  /\ asked_at \in Nat
  /\ left_at  \in Nat
  /\ pending <=> phase = "accepted"

\* What the chip hands out is the time of the event.
Latched ==
  phase = "event" => \E t \in 0 .. Period - 1 : register = ToBytes(t) /\ Same(clock, t + elapsed)

\* The application does not lose the time it has taken.
Timed == phase \in {"based", "set", "accepted"} => Same(clock, base + elapsed)

\* The time set is that asked for without its lowest byte and one bit more.
Rounded ==
  phase \in {"set", "accepted", "sent"} =>
    \E r \in 0 .. Grain - 1 : Same(Departure, base + delay - r)

InTime == phase \in {"event", "based", "set"} => elapsed <= MaxWait

\* A transmission that was accepted has less than half a period to wait.
Ahead ==
  phase = "accepted" =>
    /\ asked_at <= MaxWait
    /\ \E g \in Nat : /\ Same(Departure, clock + g)
                      /\ asked_at <= elapsed /\ elapsed + g - asked_at < Half

\* And when it has left, its time is that of the departure.
Gone ==
  phase \in {"sent", "measured"} =>
    /\ asked_at <= left_at /\ left_at - asked_at < Half
    /\ \E r \in 0 .. Grain - 1 : Same(left_at, delay - r)

Recorded == phase = "sent" => register = ToBytes(Departure) /\ Same(Departure, base + left_at)

ReplyInv ==
  /\ ReplyTypes /\ Latched /\ Timed /\ Rounded /\ InTime /\ Ahead /\ Gone /\ Recorded
  /\ RefusedOnlyIfPassed /\ TimestampsMeasure

-----------------------------------------------------------------------------
(* Numbers.                                                                *)

\* A number is made of what division leaves of it.
LEMMA Division ==
  ASSUME NEW b \in Nat \ {0}, NEW t \in Int
  PROVE  \E q \in Int : \E r \in 0 .. b - 1 : q = t \div b /\ r = t % b /\ t = b * q + r
<1>1. t = b * (t \div b) + (t % b) /\ t % b \in 0 .. b - 1 /\ t \div b \in Int
  OBVIOUS
<1> QED
  BY <1>1

\* One digit.
LEMMA Digit ==
  ASSUME NEW b \in Nat \ {0}, NEW c \in Nat, NEW t \in Nat, t < b * c
  PROVE  \E q \in Nat : \E r \in 0 .. b - 1 :
           q = t \div b /\ r = t % b /\ q < c /\ q * b + r = t
<1>1. t = b * (t \div b) + (t % b) /\ t % b \in 0 .. b - 1 /\ t \div b \in Nat
  OBVIOUS
<1>2. t \div b < c
  OBVIOUS
<1>3. (t \div b) * b + (t % b) = t
  BY <1>1
<1> QED
  BY <1>1, <1>2, <1>3

LEMMA TimeSizes ==
  /\ Byte \in Nat \ {0} /\ Coarse \in Nat \ {0} /\ Period \in Nat \ {0}
  /\ Half \in Nat /\ Period = 2 * Half /\ Byte < Half
  /\ Grain \in Nat \ {0} /\ Grain = Byte + Byte /\ PowerUp \in Nat
<1>1. Byte \in Nat /\ Byte >= 2
  BY ByteAssumption
<1>2. \A m, n \in Nat : m >= 2 /\ n >= 2 => m * n \in Nat /\ m * n >= 2 * n /\ m * n > n
  OBVIOUS
<1> DEFINE b2 == Byte * Byte
           b3 == Byte * b2
<1>3. b2 \in Nat /\ b2 > Byte
  BY <1>1, <1>2
<1> HIDE DEF b2
<1>4. b3 \in Nat /\ b3 > b2
  BY <1>1, <1>2, <1>3
<1> HIDE DEF b3
<1>5. Byte * b3 \in Nat /\ Byte * b3 > b3
  BY <1>1, <1>2, <1>3, <1>4
<1>6. Coarse \in Nat /\ Coarse > Byte
  BY <1>1, <1>3, <1>4, <1>5 DEF Coarse, b3, b2
<1>7. PICK h \in Nat : Byte = 2 * h /\ h >= 1
  <2>1. PICK h \in Int : \E r \in 0 .. 1 : h = Byte \div 2 /\ r = Byte % 2 /\ Byte = 2 * h + r
    BY <1>1, Division
  <2> QED
    BY <1>1, <2>1, ByteAssumption
<1>8. Period = 2 * (h * Coarse) /\ h * Coarse \in Nat /\ h * Coarse >= Coarse
  BY <1>6, <1>7 DEF Period
<1>9. PICK k \in Nat : k = h * Coarse
  BY <1>8
<1>10. Period = 2 * k /\ k > Byte
  BY <1>1, <1>6, <1>8, <1>9
<1>11. Half = k
  BY <1>10 DEF Half
<1> QED
  BY <1>1, <1>6, <1>10, <1>11, WaitAssumption DEF Grain

\* The bytes the chip hands out are put together to the time they were taken from.
LEMMA BytesComeBack ==
  ASSUME NEW t \in 0 .. Period - 1
  PROVE  Assemble(ToBytes(t)) = t
<1> DEFINE c1 == Byte
           c2 == Byte * c1
           c3 == Byte * c2
           c4 == Byte * c3
           t2 == t \div Byte
           t3 == t2 \div Byte
           t4 == t3 \div Byte
           t5 == t4 \div Byte
<1>0. Byte \in Nat \ {0}
  BY TimeSizes
<1>1. c1 \in Nat /\ c2 \in Nat
  BY <1>0
<1> HIDE DEF c1
<1>2. c3 \in Nat
  BY <1>0, <1>1
<1> HIDE DEF c2
<1>3. c4 \in Nat
  BY <1>0, <1>2
<1> HIDE DEF c3
<1>4. t \in Nat /\ t < Byte * c4
  BY TimeSizes DEF Period, Coarse, c4, c3, c2, c1
<1> HIDE DEF c4
<1>5. PICK q \in Nat, r \in 0 .. Byte - 1 :
        q = t2 /\ r = t % Byte /\ q < c4 /\ q * Byte + r = t
  BY <1>0, <1>3, <1>4, Digit
<1>6. t2 \in Nat /\ t2 < Byte * c3 /\ Shift(t2, t % Byte) = t
  BY <1>5 DEF Shift, c4
<1> HIDE DEF t2
<1>7. PICK q3 \in Nat, r3 \in 0 .. Byte - 1 :
        q3 = t3 /\ r3 = t2 % Byte /\ q3 < c3 /\ q3 * Byte + r3 = t2
  BY <1>0, <1>2, <1>6, Digit
<1>8. t3 \in Nat /\ t3 < Byte * c2 /\ Shift(t3, t2 % Byte) = t2
  BY <1>7 DEF Shift, c3
<1> HIDE DEF t3
<1>9. PICK q4 \in Nat, r4 \in 0 .. Byte - 1 :
        q4 = t4 /\ r4 = t3 % Byte /\ q4 < c2 /\ q4 * Byte + r4 = t3
  BY <1>0, <1>1, <1>8, Digit
<1>10. t4 \in Nat /\ t4 < Byte * c1 /\ Shift(t4, t3 % Byte) = t3
  BY <1>9 DEF Shift, c2
<1> HIDE DEF t4
<1>11. PICK q5 \in Nat, r5 \in 0 .. Byte - 1 :
         q5 = t5 /\ r5 = t4 % Byte /\ q5 < c1 /\ q5 * Byte + r5 = t4
  BY <1>0, <1>1, <1>10, Digit
<1>12. t5 \in 0 .. Byte - 1 /\ Shift(t5, t4 % Byte) = t4
  BY <1>0, <1>11 DEF Shift, c1
<1> HIDE DEF t5
<1>13. Shift(0, t5 % Byte) = t5
  BY <1>0, <1>12 DEF Shift
<1>14. ToBytes(t) = <<t % Byte, t2 % Byte, t3 % Byte, t4 % Byte, t5 % Byte>>
  BY DEF ToBytes, t5, t4, t3, t2
<1> DEFINE b == ToBytes(t)
<1>15. b[1] = t % Byte /\ b[2] = t2 % Byte /\ b[3] = t3 % Byte /\ b[4] = t4 % Byte /\ b[5] = t5 % Byte
  BY <1>14
<1> HIDE DEF b
<1>16. Assemble(b) = t
  BY <1>6, <1>8, <1>10, <1>12, <1>13, <1>15 DEF Assemble
<1> QED
  BY <1>16 DEF b

-----------------------------------------------------------------------------
(* Times that are the same.                                                *)

LEMMA SameSelf ==
  ASSUME NEW x \in Int
  PROVE  Same(x, x)
<1>1. x = x + 0 * Period
  BY TimeSizes
<1> QED
  BY <1>1 DEF Same

LEMMA SameBack ==
  ASSUME NEW x \in Int, NEW y \in Int, Same(x, y)
  PROVE  Same(y, x)
<1> DEFINE p == Period
<1>0. p \in Int
  BY TimeSizes
<1>1. PICK w \in Int : x = y + w * p
  BY DEF Same
<1> HIDE DEF p
<1>2. (-w) * p = -(w * p) /\ w * p \in Int
  BY <1>0
<1>3. y = x + (-w) * p
  BY <1>1, <1>2
<1>4. -w \in Int
  OBVIOUS
<1> QED
  BY <1>3, <1>4 DEF Same, p

\* Sums of the same are the same.
LEMMA SameSum ==
  ASSUME NEW x \in Int, NEW y \in Int, NEW u \in Int, NEW v \in Int, Same(x, y), Same(u, v)
  PROVE  Same(x + u, y + v)
<1> DEFINE p == Period
<1>0. p \in Int
  BY TimeSizes
<1>1. PICK w \in Int : x = y + w * p
  BY DEF Same
<1>2. PICK k \in Int : u = v + k * p
  BY DEF Same
<1> HIDE DEF p
<1>3. (w + k) * p = w * p + k * p /\ w * p \in Int /\ k * p \in Int
  BY <1>0
<1>4. x + u = (y + v) + (w + k) * p
  BY <1>1, <1>2, <1>3
<1>5. w + k \in Int
  OBVIOUS
<1> QED
  BY <1>4, <1>5 DEF Same, p

LEMMA SameDifference ==
  ASSUME NEW x \in Int, NEW y \in Int, NEW u \in Int, NEW v \in Int, Same(x, y), Same(u, v)
  PROVE  Same(x - u, y - v)
<1> DEFINE p == Period
<1>0. p \in Int
  BY TimeSizes
<1>1. PICK w \in Int : x = y + w * p
  BY DEF Same
<1>2. PICK k \in Int : u = v + k * p
  BY DEF Same
<1> HIDE DEF p
<1>3. (w - k) * p = w * p - k * p /\ w * p \in Int /\ k * p \in Int
  BY <1>0
<1>4. x - u = (y - v) + (w - k) * p
  BY <1>1, <1>2, <1>3
<1>5. w - k \in Int
  OBVIOUS
<1> QED
  BY <1>4, <1>5 DEF Same, p

LEMMA SameTwice ==
  ASSUME NEW x \in Int, NEW y \in Int, NEW z \in Int, Same(x, y), Same(y, z)
  PROVE  Same(x, z)
<1> DEFINE p == Period
<1>0. p \in Int
  BY TimeSizes
<1>1. PICK w \in Int : x = y + w * p
  BY DEF Same
<1>2. PICK k \in Int : y = z + k * p
  BY DEF Same
<1> HIDE DEF p
<1>3. (w + k) * p = w * p + k * p /\ w * p \in Int /\ k * p \in Int
  BY <1>0
<1>4. x = z + (w + k) * p
  BY <1>1, <1>2, <1>3
<1>5. w + k \in Int
  OBVIOUS
<1> QED
  BY <1>4, <1>5 DEF Same, p

\* The chip's time is the same as that which does not begin anew.
LEMMA SameReduced ==
  ASSUME NEW x \in Int
  PROVE  x % Period \in 0 .. Period - 1 /\ Same(x % Period, x)
<1> DEFINE p == Period
<1>0. p \in Nat \ {0}
  BY TimeSizes
<1> HIDE DEF p
<1>1. PICK q \in Int, r \in 0 .. p - 1 : q = x \div p /\ r = x % p /\ x = p * q + r
  BY <1>0, Division
<1>2. (-q) * p = -(p * q) /\ p * q \in Int
  BY <1>0
<1>3. r = x + (-q) * p /\ -q \in Int
  BY <1>0, <1>1, <1>2
<1> QED
  BY <1>1, <1>3 DEF Same, p

LEMMA SameInPeriod ==
  ASSUME NEW x \in 0 .. Period - 1, NEW y \in 0 .. Period - 1, Same(x, y)
  PROVE  x = y
<1> DEFINE p == Period
<1>0. p \in Nat \ {0}
  BY TimeSizes
<1>1. PICK w \in Int : x = y + w * p
  BY DEF Same
<1>2. x \in 0 .. p - 1 /\ y \in 0 .. p - 1
  OBVIOUS
<1> HIDE DEF p
<1>3. x = p * 0 + x /\ y + w * p = p * w + y
  BY <1>0, <1>2
<1>4. x % p = x /\ x \div p = 0
  BY <1>0, <1>2, <1>3, DivisionIsUnique
<1>5. x = p * w + y
  BY <1>1, <1>3
<1>6. x % p = y
  BY <1>0, <1>2, <1>5, DivisionIsUnique
<1> QED
  BY <1>4, <1>6

LEMMA SameRemainder ==
  ASSUME NEW x \in Int, NEW y \in Int, Same(x, y)
  PROVE  x % Period = y % Period
<1>1. /\ x % Period \in 0 .. Period - 1 /\ Same(x % Period, x)
      /\ y % Period \in 0 .. Period - 1 /\ Same(y % Period, y)
  BY SameReduced
<1>2. x % Period \in Int /\ y % Period \in Int
  BY <1>1, TimeSizes
<1>3. Same(y, y % Period)
  BY <1>1, <1>2, SameBack
<1>4. Same(x % Period, y)
  BY <1>1, <1>2, SameTwice
<1>5. Same(x % Period, y % Period)
  BY <1>2, <1>3, <1>4, SameTwice
<1> QED
  BY <1>1, <1>5, SameInPeriod

\* What is near zero and the same as zero is zero.
LEMMA SameNear ==
  ASSUME NEW x \in Int, NEW y \in Int, Same(x, y), x - y < Period, y - x < Period
  PROVE  x = y
<1> DEFINE p == Period
<1>0. p \in Nat \ {0} /\ x - y < p /\ y - x < p
  BY TimeSizes
<1>1. PICK w \in Int : x = y + w * p
  BY DEF Same
<1> HIDE DEF p
<1>2. w >= 1 => w * p >= p
  BY <1>0
<1>3. w <= -1 => w * p <= -p
  BY <1>0
<1>4. w * p \in Int
  BY <1>0
<1>5. w = 0
  BY <1>0, <1>1, <1>2, <1>3, <1>4
<1> QED
  BY <1>0, <1>1, <1>5

\* The delayed time: shifted, cut to its width and shifted back, the sum has lost its
\* lowest byte and whole periods.
LEMMA TimeSet ==
  ASSUME NEW t \in Nat
  PROVE  /\ (t \div Byte) % Coarse \in 0 .. Coarse - 1
         /\ \E r \in 0 .. Byte - 1 : Same(((t \div Byte) % Coarse) * Byte, t - r)
<1> DEFINE b == Byte
           c == Coarse
<1>0. b \in Nat \ {0} /\ c \in Nat \ {0}
  BY TimeSizes
<1>p. Period = b * c
  BY DEF Period
<1> HIDE DEF b, c
<1>1. PICK q \in Int, r \in 0 .. b - 1 : q = t \div b /\ r = t % b /\ t = b * q + r
  BY <1>0, Division
<1>2. PICK m \in Int, n \in 0 .. c - 1 : m = q \div c /\ n = q % c /\ q = c * m + n
  BY <1>0, Division
<1>3. b * q = b * (c * m) + b * n
  BY <1>0, <1>2
<1>4. b * (c * m) = m * (b * c) /\ (-m) * (b * c) = -(m * (b * c)) /\ m * (b * c) \in Int
  BY <1>0
<1>5. n * b = b * n /\ b * n \in Int /\ b * q \in Int
  BY <1>0
<1>6. n * b = (t - r) + (-m) * (b * c)
  BY <1>0, <1>1, <1>3, <1>4, <1>5
<1>7. Same(n * b, t - r)
  BY <1>6, <1>p DEF Same
<1>8. (t \div b) % c = n
  BY <1>1, <1>2
<1> QED
  BY <1>1, <1>7, <1>8 DEF b, c

\* The bit the chip ignores costs one value of the byte, or nothing.
LEMMA BitIgnored ==
  ASSUME NEW n \in 0 .. Coarse - 1
  PROVE  /\ n - (n % 2) \in 0 .. Coarse - 1
         /\ (n - (n % 2)) * Byte \in Nat
         /\ \E e \in {0, Byte} : (n - (n % 2)) * Byte = n * Byte - e
<1> DEFINE b == Byte
<1>0. b \in Nat \ {0} /\ n \in Nat /\ Coarse \in Nat
  BY TimeSizes
<1> HIDE DEF b
<1>1. PICK q \in Int, r \in 0 .. 1 : q = n \div 2 /\ r = n % 2 /\ n = 2 * q + r
  BY <1>0, Division
<1>2. n - r \in Nat /\ n - r <= n
  BY <1>0, <1>1
<1>3. PICK m \in Nat : m = n - r
  BY <1>2
<1>4. m * b \in Nat
  BY <1>0
<1>5. r = 0 => m * b = n * b - 0
  BY <1>0, <1>3
<1>6. r = 1 => m * b = n * b - b
  <2>1. r = 1 => n = m + 1
    BY <1>0, <1>3
  <2>2. (m + 1) * b = m * b + b
    BY <1>0
  <2> QED
    BY <1>0, <1>4, <2>1, <2>2
<1>7. m = n - (n % 2) /\ m \in 0 .. Coarse - 1
  BY <1>0, <1>1, <1>2, <1>3
<1> QED
  BY <1>1, <1>4, <1>5, <1>6, <1>7 DEF b

\* So the chip's time of departure is that asked for, less than its grain early.
LEMMA TimeKept ==
  ASSUME NEW t \in Nat, NEW n \in 0 .. Coarse - 1, NEW r0 \in 0 .. Byte - 1,
         Same(n * Byte, t - r0)
  PROVE  \E r \in 0 .. Grain - 1 : Same((n - (n % 2)) * Byte, t - r)
<1>1. PICK e \in {0, Byte} : (n - (n % 2)) * Byte = n * Byte - e
  BY BitIgnored
<1>2. PICK x \in Int : x = n * Byte
  BY TimeSizes
<1>3. e \in Int /\ r0 \in Int /\ r0 + e \in 0 .. Grain - 1
  BY TimeSizes
<1>4. Same(e, e)
  BY <1>3, SameSelf
<1>5. t - r0 \in Int /\ (t - r0) - e = t - (r0 + e)
  BY <1>3
<1>6. Same(x - e, (t - r0) - e)
  BY <1>2, <1>3, <1>4, <1>5, SameDifference
<1>7. Same((n - (n % 2)) * Byte, t - (r0 + e))
  BY <1>1, <1>2, <1>5, <1>6
<1> QED
  BY <1>3, <1>7

-----------------------------------------------------------------------------
(* The invariant.                                                          *)

LEMMA DepartureInPeriod ==
  ASSUME dx_time \in 0 .. Coarse - 1
  PROVE  Departure \in 0 .. Period - 1
<1> DEFINE b == Byte
           c == Coarse
<1>p. Period = b * c /\ Departure = (dx_time - (dx_time % 2)) * b
  BY DEF Period, Departure
<1>q. PICK k \in 0 .. Coarse - 1 : k = dx_time - (dx_time % 2)
  BY BitIgnored
<1>0. b \in Nat \ {0} /\ c \in Nat \ {0} /\ k \in 0 .. c - 1
  BY TimeSizes
<1> HIDE DEF b, c
<1>1. \A n \in 0 .. c - 1 : n * b >= 0 /\ n * b <= (c - 1) * b /\ n * b \in Int
  BY <1>0
<1>2. (c - 1) * b = b * c - b /\ b * c \in Int
  BY <1>0
<1>3. k * b \in 0 .. b * c - 1
  BY <1>0, <1>1, <1>2
<1> QED
  BY <1>3, <1>p, <1>q

LEMMA ReplyStarts == ReplyInit => ReplyInv
<1> SUFFICES ASSUME ReplyInit
             PROVE  ReplyInv
  OBVIOUS
<1>1. 0 \in 0 .. Period - 1 /\ 0 \in 0 .. Coarse - 1
  BY TimeSizes
<1>2. pending = FALSE /\ phase = "idle" /\ clock \in 0 .. Period - 1
  BY DEF ReplyInit
<1>3. ReplyTypes
  BY <1>1, <1>2 DEF ReplyInit, ReplyTypes
<1>4. InTime
  BY <1>2 DEF InTime
<1> QED
  BY <1>2, <1>3, <1>4 DEF ReplyInit, ReplyInv, Latched, Timed, Rounded, Ahead, Gone, Recorded,
     RefusedOnlyIfPassed, TimestampsMeasure

LEMMA LatchKeeps ==
  ASSUME ReplyInv, Latch
  PROVE  ReplyInv'
<1>1. ReplyTypes'
  BY DEF ReplyInv, ReplyTypes, Latch
<1>2. Latched'
  <2>1. clock \in 0 .. Period - 1 /\ clock \in Int
    BY TimeSizes DEF ReplyInv, ReplyTypes
  <2>2. register' = ToBytes(clock) /\ clock' = clock /\ clock + elapsed' = clock
    BY <2>1 DEF Latch
  <2>3. Same(clock', clock + elapsed')
    BY <2>1, <2>2, SameSelf
  <2> QED
    BY <2>1, <2>2, <2>3 DEF Latched
<1>3. InTime'
  BY WaitAssumption DEF Latch, InTime
<1> QED
  BY <1>1, <1>2, <1>3 DEF Latch, ReplyInv, Timed, Rounded, Ahead, Gone, Recorded,
     RefusedOnlyIfPassed, TimestampsMeasure

LEMMA GetRxTimestampKeeps ==
  ASSUME ReplyInv, GetRxTimestamp
  PROVE  ReplyInv'
<1>1. PICK t \in 0 .. Period - 1 : register = ToBytes(t) /\ Same(clock, t + elapsed)
  BY DEF ReplyInv, Latched, GetRxTimestamp
<1>2. base' = t
  BY <1>1, BytesComeBack DEF GetRxTimestamp
<1>3. ReplyTypes'
  BY <1>2 DEF ReplyInv, ReplyTypes, GetRxTimestamp
<1>4. Timed'
  BY <1>1, <1>2 DEF GetRxTimestamp, Timed, Same
<1>5. InTime'
  BY DEF ReplyInv, InTime, GetRxTimestamp
<1> QED
  BY <1>3, <1>4, <1>5 DEF GetRxTimestamp, ReplyInv, Latched, Rounded, Ahead, Gone, Recorded,
     RefusedOnlyIfPassed, TimestampsMeasure

LEMMA SetDelayedTimeKeeps ==
  ASSUME NEW d \in Delays, ReplyInv, SetDelayedTime(d)
  PROVE  ReplyInv'
<1>1. d \in 0 .. Period - 1 /\ d \in Nat /\ base \in Nat
  BY WaitAssumption, TimeSizes DEF ReplyInv, ReplyTypes
<1>2. PICK t \in Nat : t = base + d
  BY <1>1
<1>3. /\ dx_time' \in 0 .. Coarse - 1
      /\ \E r \in 0 .. Grain - 1 : Same((dx_time' - (dx_time' % 2)) * Byte, t - r)
  <2>1. PICK n \in 0 .. Coarse - 1 : n = (t \div Byte) % Coarse
    BY TimeSet
  <2>2. PICK r0 \in 0 .. Byte - 1 : Same(n * Byte, t - r0)
    BY <2>1, TimeSet
  <2>3. \E r \in 0 .. Grain - 1 : Same((n - (n % 2)) * Byte, t - r)
    BY <2>2, TimeKept
  <2>4. dx_time' = n
    BY <1>2, <2>1 DEF SetDelayedTime
  <2> QED
    BY <2>3, <2>4
<1>4. ReplyTypes'
  BY <1>1, <1>3 DEF ReplyInv, ReplyTypes, SetDelayedTime
<1>5. Timed'
  BY DEF ReplyInv, SetDelayedTime, Timed, Same
<1>6. Rounded'
  <2>1. PICK r \in 0 .. Grain - 1 : Same((dx_time' - (dx_time' % 2)) * Byte, t - r)
    BY <1>3
  <2>2. base' + delay' - r = t - r
    <3>1. base' = base /\ delay' = d
      BY DEF SetDelayedTime
    <3>2. base' + delay' = t /\ base' \in Nat /\ delay' \in Nat
      BY <1>1, <1>2, <3>1
    <3>3. r \in Int
      BY TimeSizes
    <3>4. \A m, n \in Nat : m + n = t => m + n - r = t - r
      BY <3>3
    <3> QED
      BY <3>2, <3>4
  <2>3. Same((dx_time' - (dx_time' % 2)) * Byte, base' + delay' - r)
    BY <2>1, <2>2
  <2> QED
    BY <2>3 DEF Rounded, Departure, Same
<1>7. InTime'
  BY DEF ReplyInv, InTime, SetDelayedTime
<1> QED
  BY <1>4, <1>5, <1>6, <1>7 DEF SetDelayedTime, ReplyInv, Latched, Ahead, Gone, Recorded,
     RefusedOnlyIfPassed, TimestampsMeasure

LEMMA StartDelayedKeeps ==
  ASSUME ReplyInv, StartDelayed
  PROVE  ReplyInv'
<1> DEFINE g == (Departure - clock) % Period
<1>1. /\ clock \in 0 .. Period - 1 /\ clock \in Nat /\ base \in Nat /\ delay \in Nat
      /\ elapsed \in Nat /\ elapsed <= MaxWait /\ dx_time \in 0 .. Coarse - 1
      /\ Departure \in Nat /\ phase = "set"
  BY TimeSizes, DepartureInPeriod DEF ReplyInv, ReplyTypes, StartDelayed, InTime
<1>2. /\ pending' = (g \in PowerUp .. Half - 1)
      /\ phase' = IF pending' THEN "accepted" ELSE "refused"
      /\ asked_at' = elapsed
      /\ UNCHANGED <<clock, register, base, delay, dx_time, elapsed, left_at>>
  BY DEF StartDelayed
<1>3. Same(clock, base + elapsed)
  BY <1>1 DEF ReplyInv, Timed
<1>4. PICK r \in 0 .. Grain - 1 : Same(Departure, base + delay - r)
  BY <1>1 DEF ReplyInv, Rounded
<1>5. g \in 0 .. Period - 1 /\ Same(g, Departure - clock)
  BY <1>1, SameReduced
<1> HIDE DEF g
<1>6. ReplyTypes'
  <2>1. pending' \in BOOLEAN
    BY <1>2
  <2> QED
    BY <1>1, <1>2, <2>1 DEF ReplyInv, ReplyTypes
<1>7. Timed' /\ Rounded'
  BY <1>1, <1>2, <1>3, <1>4 DEF Timed, Rounded, Departure, Same
<1>8. Ahead'
  <2> SUFFICES ASSUME phase' = "accepted"
               PROVE  Ahead'
    BY DEF Ahead
  <2>1. g < Half /\ g \in Nat
    <3>1. pending'
      BY <1>2
    <3>2. g \in PowerUp .. Half - 1
      BY <1>2, <3>1
    <3> QED
      BY <1>5, <3>2, TimeSizes
  <2>2. Same(Departure - clock, g)
    BY <1>1, <1>5, <2>1, SameBack
  <2>3. Same((Departure - clock) + clock, g + clock)
    BY <1>1, <2>1, <2>2, SameSelf, SameSum
  <2>4. (Departure - clock) + clock = Departure /\ g + clock = clock + g
    BY <1>1, <2>1
  <2>5. Same(Departure, clock + g)
    BY <2>3, <2>4
  <2>6. Departure' = Departure
    BY <1>2 DEF Departure
  <2>7. asked_at' <= MaxWait /\ asked_at' <= elapsed' /\ elapsed' + g - asked_at' < Half
    BY <1>1, <1>2, <2>1
  <2>8. Same(Departure', clock' + g)
    BY <1>2, <2>5, <2>6
  <2>9. \E h \in Nat : /\ Same(Departure', clock' + h)
                       /\ asked_at' <= elapsed' /\ elapsed' + h - asked_at' < Half
    BY <2>1, <2>7, <2>8
  <2> QED
    BY <2>7, <2>9 DEF Ahead, Same
<1>9. RefusedOnlyIfPassed'
  <2> SUFFICES ASSUME phase' = "refused", delay < Half, ~(elapsed > delay - PowerUp - Grain)
               PROVE  FALSE
    BY <1>2 DEF RefusedOnlyIfPassed
  <2>1. ~(g \in PowerUp .. Half - 1)
    BY <1>2
  <2>2. PICK h \in Int : h = delay - r - elapsed
    BY <1>1, TimeSizes
  <2>3. h \in 0 .. Period - 1 /\ h \in PowerUp .. Half - 1
    BY <1>1, <2>2, TimeSizes
  <2>4. Same(Departure - clock, (base + delay - r) - (base + elapsed))
    BY <1>1, <1>3, <1>4, SameDifference, TimeSizes
  <2>5. (base + delay - r) - (base + elapsed) = h
    BY <1>1, <2>2, TimeSizes
  <2>6. Same(g, h)
    <3>1. Same(Departure - clock, h)
      BY <2>4, <2>5
    <3>2. g \in Int /\ Departure - clock \in Int
      BY <1>1, <1>5, TimeSizes
    <3> QED
      BY <1>5, <3>1, <3>2, SameTwice
  <2>7. g = h
    BY <1>5, <2>3, <2>6, SameInPeriod
  <2> QED
    BY <2>1, <2>3, <2>7
<1> QED
  BY <1>1, <1>2, <1>6, <1>7, <1>8, <1>9 DEF ReplyInv, Latched, InTime, Gone, Recorded, TimestampsMeasure

LEMMA TickKeeps ==
  ASSUME ReplyInv, Tick
  PROVE  ReplyInv'
<1>1. /\ clock \in 0 .. Period - 1 /\ clock \in Nat /\ base \in Nat /\ delay \in Nat
      /\ elapsed \in Nat /\ asked_at \in Nat /\ Departure \in 0 .. Period - 1 /\ MaxWait \in Nat
  BY TimeSizes, DepartureInPeriod, WaitAssumption DEF ReplyInv, ReplyTypes
<1>2. /\ clock' = (clock + 1) % Period
      /\ elapsed' = IF elapsed < MaxWait + Period THEN elapsed + 1 ELSE elapsed
      /\ UNCHANGED <<phase, register, base, delay, dx_time, pending, asked_at, left_at>>
  BY DEF Tick
<1>3. clock' \in 0 .. Period - 1 /\ clock' \in Int /\ Same(clock', clock + 1)
  <2>1. clock + 1 \in Int
    BY <1>1
  <2>2. clock' \in 0 .. Period - 1 /\ Same(clock', clock + 1)
    BY <1>2, <2>1, SameReduced
  <2> QED
    BY <2>2, TimeSizes
<1>4. ReplyTypes'
  BY <1>1, <1>2, <1>3 DEF ReplyInv, ReplyTypes
<1>5. InTime'
  BY <1>1, <1>2 DEF ReplyInv, InTime, Tick
<1>6. Departure' = Departure
  BY <1>2 DEF Departure
<1>7. elapsed' = elapsed + 1
  <2>1. CASE phase \in {"event", "based", "set"} /\ elapsed < MaxWait
    BY <1>1, <1>2, <2>1, TimeSizes
  <2>2. CASE phase = "accepted"
    <3>1. PICK g \in Nat : asked_at <= elapsed /\ elapsed + g - asked_at < Half
      BY <2>2 DEF ReplyInv, Ahead
    <3>2. asked_at <= MaxWait
      BY <2>2 DEF ReplyInv, Ahead
    <3> QED
      BY <1>1, <1>2, <3>1, <3>2, TimeSizes
  <2> QED
    BY <2>1, <2>2 DEF Tick
<1>8. ASSUME NEW t \in Nat, Same(clock, t + elapsed)
      PROVE  Same(clock', t + elapsed')
  <2>1. Same(clock + 1, (t + elapsed) + 1)
    BY <1>1, <1>8, SameSelf, SameSum
  <2>2. Same(clock', (t + elapsed) + 1)
    BY <1>1, <1>3, <2>1, SameTwice
  <2> QED
    BY <1>1, <1>7, <2>2
<1>9. Latched'
  <2> SUFFICES ASSUME phase = "event"
               PROVE  Latched'
    BY <1>2 DEF Latched
  <2>1. PICK t \in 0 .. Period - 1 : register = ToBytes(t) /\ Same(clock, t + elapsed)
    BY DEF ReplyInv, Latched
  <2>2. t \in Nat
    BY TimeSizes
  <2>3. Same(clock', t + elapsed')
    BY <1>8, <2>1, <2>2
  <2> QED
    BY <1>2, <2>1, <2>3 DEF Latched
<1>10. Timed'
  <2> SUFFICES ASSUME phase \in {"based", "set", "accepted"}
               PROVE  Timed'
    BY <1>2 DEF Timed
  <2>1. Same(clock, base + elapsed)
    BY DEF ReplyInv, Timed
  <2>2. Same(clock', base + elapsed')
    BY <1>1, <1>8, <2>1
  <2> QED
    BY <1>2, <2>2 DEF Timed
<1>11. Rounded'
  BY <1>2, <1>6 DEF ReplyInv, Rounded
<1>12. Ahead'
  <2> SUFFICES ASSUME phase = "accepted"
               PROVE  Ahead'
    BY <1>2 DEF Ahead
  <2>1. PICK g \in Nat : /\ Same(Departure, clock + g)
                         /\ asked_at <= elapsed /\ elapsed + g - asked_at < Half
    BY DEF ReplyInv, Ahead
  <2>2. asked_at <= MaxWait
    BY DEF ReplyInv, Ahead
  <2>3. clock # Departure
    BY DEF Tick, ReplyInv, ReplyTypes
  <2>4. g # 0
    <3> SUFFICES ASSUME g = 0
                 PROVE  FALSE
      OBVIOUS
    <3>1. Same(Departure, clock)
      BY <1>1, <2>1
    <3> QED
      BY <1>1, <2>3, <3>1, SameInPeriod
  <2>5. PICK h \in Nat : g = h + 1
    BY <2>4
  <2>6. Same(clock + 1, clock')
    BY <1>1, <1>3, SameBack
  <2>7. Same((clock + 1) + h, clock' + h)
    BY <1>1, <1>3, <2>6, SameSelf, SameSum
  <2>8. (clock + 1) + h = clock + g
    BY <1>1, <2>5
  <2>9. Departure \in Int /\ clock + g \in Int /\ clock' + h \in Int
    BY <1>1, <1>3, TimeSizes
  <2>10. Same(clock + g, clock' + h)
    BY <2>7, <2>8
  <2>11. Same(Departure, clock' + h)
    BY <2>1, <2>9, <2>10, SameTwice
  <2>12. asked_at' <= elapsed' /\ elapsed' + h - asked_at' < Half /\ asked_at' <= MaxWait
    BY <1>1, <1>2, <1>7, <2>1, <2>2, <2>5, TimeSizes
  <2> QED
    BY <1>6, <2>11, <2>12 DEF Ahead, Same
<1> QED
  BY <1>2, <1>4, <1>5, <1>9, <1>10, <1>11, <1>12
     DEF ReplyInv, Gone, Recorded, RefusedOnlyIfPassed, TimestampsMeasure, Tick

LEMMA DepartKeeps ==
  ASSUME ReplyInv, Depart
  PROVE  ReplyInv'
<1>1. /\ clock \in 0 .. Period - 1 /\ clock \in Nat /\ base \in Nat /\ delay \in Nat
      /\ elapsed \in Nat /\ asked_at \in Nat /\ phase = "accepted" /\ clock = Departure
  BY TimeSizes DEF ReplyInv, ReplyTypes, Depart
<1>2. /\ phase' = "sent" /\ pending' = FALSE /\ register' = ToBytes(clock) /\ left_at' = elapsed
      /\ UNCHANGED <<clock, base, delay, dx_time, elapsed, asked_at>>
  BY DEF Depart
<1>3. ReplyTypes'
  BY <1>1, <1>2 DEF ReplyInv, ReplyTypes
<1>4. Departure' = Departure
  BY <1>2 DEF Departure
<1>5. PICK g \in Nat : /\ Same(Departure, clock + g)
                       /\ asked_at <= elapsed /\ elapsed + g - asked_at < Half
  BY <1>1 DEF ReplyInv, Ahead
<1>6. g = 0
  <2>1. Same(clock, clock + g) /\ clock + g \in Int
    BY <1>1, <1>5
  <2>2. clock - (clock + g) < Period /\ (clock + g) - clock < Period
    BY <1>1, <1>5, TimeSizes
  <2>3. clock = clock + g
    BY <1>1, <2>1, <2>2, SameNear
  <2> QED
    BY <1>1, <2>3
<1>7. asked_at <= elapsed /\ elapsed - asked_at < Half
  BY <1>1, <1>5, <1>6
<1>8. PICK r \in 0 .. Grain - 1 : Same(Departure, base + delay - r)
  BY <1>1 DEF ReplyInv, Rounded
<1>9. Same(Departure, base + elapsed)
  BY <1>1 DEF ReplyInv, Timed
<1>10. Gone'
  <2>1. Same(base + elapsed, Departure)
    BY <1>1, <1>9, SameBack
  <2>2. r \in Int /\ base + delay - r \in Int
    BY <1>1, TimeSizes
  <2>3. Same(base + elapsed, base + delay - r)
    BY <1>1, <1>8, <2>1, <2>2, SameTwice
  <2>4. Same((base + elapsed) - base, (base + delay - r) - base)
    BY <1>1, <2>2, <2>3, SameSelf, SameDifference
  <2>5. (base + elapsed) - base = elapsed /\ (base + delay - r) - base = delay - r
    BY <1>1, <2>2
  <2>6. Same(elapsed, delay - r)
    BY <2>4, <2>5
  <2> QED
    BY <1>2, <1>7, <2>6 DEF Gone, Same
<1>11. Rounded'
  BY <1>2, <1>4, <1>8 DEF Rounded, Same
<1>12. Recorded'
  BY <1>1, <1>2, <1>4, <1>9 DEF Recorded, Same
<1> QED
  BY <1>2, <1>3, <1>10, <1>11, <1>12
     DEF ReplyInv, Latched, Timed, InTime, Ahead, RefusedOnlyIfPassed, TimestampsMeasure

LEMMA GetTxTimestampKeeps ==
  ASSUME ReplyInv, GetTxTimestamp
  PROVE  ReplyInv'
<1>1. /\ base \in Nat /\ left_at \in Nat /\ Departure \in 0 .. Period - 1 /\ Departure \in Nat
      /\ phase = "sent" /\ phase' = "measured"
      /\ UNCHANGED <<clock, register, delay, dx_time, pending, elapsed, asked_at, left_at>>
  BY TimeSizes, DepartureInPeriod DEF ReplyInv, ReplyTypes, GetTxTimestamp
<1>2. register = ToBytes(Departure) /\ Same(Departure, base + left_at)
  BY <1>1 DEF ReplyInv, Recorded
<1>3. base' = (Departure - base) % Period
  BY <1>1, <1>2, BytesComeBack DEF GetTxTimestamp
<1>4. Same(Departure - base, (base + left_at) - base)
  BY <1>1, <1>2, SameSelf, SameDifference
<1>5. (base + left_at) - base = left_at
  BY <1>1
<1>6. Same(Departure - base, left_at)
  BY <1>4, <1>5
<1>7. (Departure - base) % Period = left_at % Period
  BY <1>1, <1>6, SameRemainder
<1>8. base' \in 0 .. Period - 1
  BY <1>1, <1>3, SameReduced
<1>9. ReplyTypes'
  BY <1>1, <1>8 DEF ReplyInv, ReplyTypes
<1>10. TimestampsMeasure'
  BY <1>1, <1>3, <1>7 DEF TimestampsMeasure
<1>11. Gone'
  BY <1>1 DEF ReplyInv, Gone, Same
<1> QED
  BY <1>1, <1>9, <1>10, <1>11
     DEF ReplyInv, Latched, Timed, Rounded, InTime, Ahead, Recorded, RefusedOnlyIfPassed

LEMMA AgainKeeps ==
  ASSUME ReplyInv, Again
  PROVE  ReplyInv'
<1>1. ReplyTypes'
  BY TimeSizes DEF ReplyInv, ReplyTypes, Again
<1> QED
  BY <1>1 DEF Again, ReplyInv, Latched, Timed, Rounded, InTime, Ahead, Gone, Recorded,
     RefusedOnlyIfPassed, TimestampsMeasure

LEMMA ReplyInvariant == ReplySpec => []ReplyInv
<1>1. ReplyInv /\ [ReplyNext]_replyVars => ReplyInv'
  <2> SUFFICES ASSUME ReplyInv, [ReplyNext]_replyVars
               PROVE  ReplyInv'
    OBVIOUS
  <2>1. CASE UNCHANGED replyVars
    BY <2>1 DEF replyVars, ReplyInv, ReplyTypes, Latched, Timed, Rounded, InTime, Ahead, Gone,
       Recorded, RefusedOnlyIfPassed, TimestampsMeasure, Departure, Same
  <2>2. CASE \E d \in Delays : SetDelayedTime(d)
    BY <2>2, SetDelayedTimeKeeps
  <2> QED
    BY <2>1, <2>2, LatchKeeps, GetRxTimestampKeeps, StartDelayedKeeps, TickKeeps, DepartKeeps,
       GetTxTimestampKeeps, AgainKeeps DEF ReplyNext
<1> QED
  BY <1>1, ReplyStarts, PTL DEF ReplySpec

\* What a delayed transmission answers is kept (transmit_deffered, dwt_starttx): a frame that
\* is accepted, and not asked for half a period late, leaves less than the nine bits the chip
\* ignores before its time and never after, and only what is too late to power up, or half a
\* period ahead, is refused; for every width of a byte, every time the transmitter needs,
\* every delay below the period and every time the application takes.
THEOREM DelayedAnswerIsKept == ReplySpec => []AnswerIsKept
<1>1. ReplyInv => AnswerIsKept
  <2> SUFFICES ASSUME ReplyInv
               PROVE  LeavesOnTime
    BY DEF ReplyInv, AnswerIsKept
  <2> SUFFICES ASSUME phase \in {"sent", "measured"}, asked_at <= delay + Half - Grain
               PROVE  delay - left_at \in 0 .. Grain - 1
    BY DEF LeavesOnTime
  <2>1. /\ delay \in 0 .. Period - 1 /\ delay \in Nat /\ left_at \in Nat /\ asked_at \in Nat
    BY TimeSizes DEF ReplyInv, ReplyTypes
  <2>2. asked_at <= left_at /\ left_at - asked_at < Half
    BY DEF ReplyInv, Gone
  <2>3. PICK r \in 0 .. Grain - 1 : Same(left_at, delay - r)
    BY DEF ReplyInv, Gone
  <2>4. delay - r \in Int /\ r \in Int
    BY <2>1, TimeSizes
  <2>5. left_at - (delay - r) < Period
    BY <2>1, <2>2, <2>3, <2>4, TimeSizes
  <2>6. (delay - r) - left_at < Period
    BY <2>1, <2>3, <2>4, TimeSizes
  <2>7. left_at = delay - r
    BY <2>1, <2>3, <2>4, <2>5, <2>6, SameNear
  <2> QED
    BY <2>1, <2>3, <2>4, <2>7, TimeSizes
<1> QED
  BY <1>1, ReplyInvariant, PTL

\* The difference of the two timestamps an application reads (get_rx_timestamp or
\* get_clock_time, and get_tx_timestamp) is the time between the events, up to whole periods
\* of the chip's time: no byte is lost or exchanged, wherever the time begins anew.
THEOREM TimestampsMeasureAlways == ReplySpec => []TimestampsMeasure
<1>1. ReplyInv => TimestampsMeasure
  BY DEF ReplyInv
<1> QED
  BY <1>1, ReplyInvariant, PTL
===============================================================================
