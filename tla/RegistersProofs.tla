-------------------------- MODULE RegistersProofs --------------------------
(***************************************************************************)
(* The power limit written to register 1002, for every request, phase mode *)
(* and configured maximum, and the decoding of the charging power, for     *)
(* every radix of the registers and every power.                           *)
(***************************************************************************)
EXTENDS Registers, SumTheorems

(***************************************************************************)
(* A clamped request is 0, or lies in the single-phase range, or, in mode  *)
(* auto only, in the three-phase range (_clamp_power_limit_w).             *)
(***************************************************************************)
LEMMA ClampRange ==
    ASSUME NEW w \in Int, NEW mode \in PhaseModes, NEW max \in 6..32
    PROVE  LET p == ClampPowerLimitW(w, mode, max)
           IN  \/ p = 0
               \/ 1380 <= p /\ p <= max * 230
               \/ mode = "auto" /\ 4140 <= p /\ p <= max * 690
  BY DEF ClampPowerLimitW, Smaller, PhaseModes, MIN_POWER_1PHASE_W,
         MIN_POWER_3PHASE_W, NOMINAL_PHASE_VOLTAGE_V

(***************************************************************************)
(* Clamping is monotone and never exceeds the request, for all requests,   *)
(* not only those a run enumerates (_clamp_power_limit_w).                 *)
(***************************************************************************)
THEOREM ClampMonotone ==
    ASSUME NEW v \in Int, NEW w \in Int, v <= w,
           NEW mode \in PhaseModes, NEW max \in 6..32
    PROVE  /\ ClampPowerLimitW(v, mode, max) <= ClampPowerLimitW(w, mode, max)
           /\ v >= 0 => ClampPowerLimitW(v, mode, max) <= v
  BY DEF ClampPowerLimitW, Smaller, PhaseModes, MIN_POWER_1PHASE_W,
         MIN_POWER_3PHASE_W, NOMINAL_PHASE_VOLTAGE_V

\* The configuration does not change while the entry is loaded.
ConfigOK == maxCurrent \in 6..32 /\ phaseMode \in PhaseModes

\* The offered power is valid in every state: OfferValid with what it rests on.
OfferInv == ConfigOK /\ OfferValid

LEMMA OfferInvInit == Init => OfferInv
  BY PowerAssumption DEF Init, OfferInv, ConfigOK, OfferValid

LEMMA OfferInvNext == OfferInv /\ [Next]_vars => OfferInv'
  <1> SUFFICES ASSUME OfferInv, [Next]_vars
               PROVE  OfferInv'
      OBVIOUS
  <1> USE DEF OfferInv
  <1>1. CASE Poll
        BY <1>1 DEF Poll, ConfigOK, OfferValid
  <1>2. CASE SetPowerLimit
    <2>1. PICK w \in Requests : powerLimit' = ClampPowerLimitW(w, phaseMode, maxCurrent)
          BY <1>2 DEF SetPowerLimit
    <2>2. w \in Int
          BY PowerAssumption
    <2>3. \/ powerLimit' = 0
          \/ 1380 <= powerLimit' /\ powerLimit' <= maxCurrent * 230
          \/ phaseMode = "auto" /\ 4140 <= powerLimit' /\ powerLimit' <= maxCurrent * 690
          BY <2>1, <2>2, ClampRange DEF ConfigOK
    <2>4. ConfigOK'
          BY <1>2 DEF SetPowerLimit, ConfigOK
    <2>5. maxCurrent' = maxCurrent /\ phaseMode' = phaseMode
          BY <1>2 DEF SetPowerLimit
    <2>6. OfferValid'
          BY <2>3, <2>5 DEF OfferValid, NOMINAL_PHASE_VOLTAGE_V, ConfigOK, PhaseModes
    <2>7. QED
          BY <2>4, <2>6
  <1>3. CASE UNCHANGED vars
        BY <1>3 DEF vars, ConfigOK, OfferValid
  <1>4. QED
        BY <1>1, <1>2, <1>3 DEF Next

(***************************************************************************)
(* Whatever powers are asked for, register 1002 never holds less than 6 A  *)
(* or more than the configured maximum per phase of an allowed range.      *)
(***************************************************************************)
THEOREM OfferAlwaysValid == Spec => []OfferValid
  <1>1. OfferInv => OfferValid
        BY DEF OfferInv
  <1>2. QED
        BY <1>1, OfferInvInit, OfferInvNext, PTL DEF Spec

(***************************************************************************)
(* In every state, for every two requests of the entity, asking for more   *)
(* does not give less (_clamp_power_limit_w).                              *)
(***************************************************************************)
THEOREM MoreNeverGivesLess == Spec => []MoreNeverLess
  <1>1. OfferInv => MoreNeverLess
        BY PowerAssumption, ClampMonotone DEF OfferInv, ConfigOK, MoreNeverLess
  <1>2. QED
        BY <1>1, OfferInvInit, OfferInvNext, PTL DEF Spec

-----------------------------------------------------------------------------
(***************************************************************************)
(* The charging power.                                                     *)
(***************************************************************************)
LEMMA Radix == Word \in Nat /\ Word >= 4 /\ METER_NOT_PRESENT \in Nat
  <1>1. Byte * Byte \in Nat /\ Byte * Byte >= 4
        BY ByteAssumption
  <1>2. \A w \in Nat : w >= 4 => w * w \in Nat /\ w * w >= 4
        OBVIOUS
  <1>3. QED
        BY <1>1, <1>2 DEF Word, METER_NOT_PRESENT

\* A value split into a high and a low word is put together again.
LEMMA WordsJoin ==
    ASSUME NEW v \in Nat
    PROVE  ToUint32(v \div Word, v % Word) = v
  <1>1. \A w \in Nat : w > 0 => (v \div w) * w + (v % w) = v
        OBVIOUS
  <1>2. QED
        BY <1>1, Radix DEF ToUint32

\* What the wallbox shows of a power the decoding gives back, for every meter.
LEMMA PowerDecoded ==
    ASSUME meterModel \in MeterModels, NEW power \in [Phases -> PhasePowers]
    PROVE  DecodePowerW(MeterRegisters(power))
             = IF meterModel = "absent" THEN 0 ELSE DrawnPower(power)
  <1> DEFINE regs == MeterRegisters(power)
             shows(line) == LineValue(power, line)
  <1>1. /\ power[1] \in Nat /\ power[2] \in Nat /\ power[3] \in Nat
        /\ DrawnPower(power) < METER_NOT_PRESENT
    <2>1. 1 \in Phases /\ 2 \in Phases /\ 3 \in Phases
          BY DEF Phases
    <2>2. power[1] \in Nat /\ power[2] \in Nat /\ power[3] \in Nat
          BY <2>1, PowerAssumption
    <2>3. DrawnPower(power) < METER_NOT_PRESENT
          BY MeterAssumption
    <2>4. QED
          BY <2>2, <2>3
  <1>2. \A line \in Phases : shows(line) \in Nat
        BY <1>1, Radix DEF LineValue, DrawnPower, Phases
  <1>3. \A line \in Phases : ToUint32(regs[line][1], regs[line][2]) = shows(line)
        BY <1>2, WordsJoin DEF MeterRegisters
  <1>4. 1 \in Phases /\ 2 \in Phases /\ 3 \in Phases
        BY DEF Phases
  <1> HIDE DEF regs
  <1>5. DecodePowerW(regs)
          = (IF shows(1) = METER_NOT_PRESENT THEN 0 ELSE shows(1))
            + (IF shows(2) = METER_NOT_PRESENT THEN 0 ELSE shows(2))
            + (IF shows(3) = METER_NOT_PRESENT THEN 0 ELSE shows(3))
        BY <1>3, <1>4 DEF DecodePowerW
  <1>6. QED
        BY <1>1, <1>5, Radix DEF regs, LineValue, DrawnPower, MeterModels

\* The decoded power of a poll is what was drawn, and the meter stays.
PowerInv == meterModel \in MeterModels /\ PowerIsDrawn

(***************************************************************************)
(* With every documented meter the charging power of a poll is what the    *)
(* car drew, for every power that a register pair holds (_decode_power_w). *)
(***************************************************************************)
THEOREM PowerDecodedRight == Spec => []PowerIsDrawn
  <1>1. Init => PowerInv
        BY DEF Init, PowerInv, PowerIsDrawn
  <1>2. PowerInv /\ [Next]_vars => PowerInv'
    <2> SUFFICES ASSUME PowerInv, [Next]_vars
                 PROVE  PowerInv'
        OBVIOUS
    <2>1. CASE Poll
      <3>1. PICK power \in [Phases -> PhasePowers] :
               /\ data'.power_w = DecodePowerW(MeterRegisters(power))
               /\ polled'.drawn = IF meterModel = "absent" THEN 0 ELSE DrawnPower(power)
            BY <2>1 DEF Poll
      <3>2. data'.power_w = polled'.drawn
            BY <3>1, PowerDecoded DEF PowerInv
      <3>3. QED
            BY <2>1, <3>2 DEF Poll, PowerInv, PowerIsDrawn
    <2>2. CASE SetPowerLimit \/ UNCHANGED vars
          BY <2>2 DEF SetPowerLimit, vars, PowerInv, PowerIsDrawn
    <2>3. QED
          BY <2>1, <2>2 DEF Next
  <1>3. PowerInv => PowerIsDrawn
        BY DEF PowerInv
  <1>4. QED
        BY <1>1, <1>2, <1>3, PTL DEF Spec

-----------------------------------------------------------------------------
(***************************************************************************)
(* The error word.                                                         *)
(***************************************************************************)

\* A register of two bytes, swapped.
LEMMA Swapped ==
    ASSUME NEW a \in 0..(Byte - 1), NEW b \in 0..(Byte - 1)
    PROVE  ByteSwap16((a * Byte) + b) = (b * Byte) + a
<1>1. Byte \in Nat /\ Byte > 0  BY ByteAssumption
<1>2. (a * Byte) + b \in Nat  BY <1>1
<1>3. ((a * Byte) + b) \div Byte = a /\ ((a * Byte) + b) % Byte = b
  BY <1>1, <1>2, DivisionUnique
<1>4. a % Byte = a  BY <1>1
<1> QED  BY <1>3, <1>4 DEF ByteSwap16

\* The four bytes of a number that a register pair holds.
LEMMA BytesJoin ==
    ASSUME NEW v \in Nat, v < Word * Word
    PROVE  LET byte(unit) == (v \div unit) % Byte
           IN  /\ \A unit \in {1, Byte, Word, Word * Byte} : byte(unit) \in 0..(Byte - 1)
               /\ v = ((byte(Word * Byte) * Byte) + byte(Word)) * Word
                        + ((byte(Byte) * Byte) + byte(1))
<1> DEFINE q1 == v \div Byte
           q2 == q1 \div Byte
           q3 == q2 \div Byte
           b0 == v % Byte
           b1 == q1 % Byte
           b2 == q2 % Byte
<1>1. Byte \in Nat /\ Byte > 0  BY ByteAssumption
<1>2. q1 \in Nat /\ b0 \in 0..(Byte - 1) /\ v = q1 * Byte + b0  BY <1>1, Division
<1> HIDE DEF q1, b0
<1>3. q2 \in Nat /\ b1 \in 0..(Byte - 1) /\ q1 = q2 * Byte + b1  BY <1>1, <1>2, Division
<1> HIDE DEF q2, b1
<1>4. q3 \in Nat /\ b2 \in 0..(Byte - 1) /\ q2 = q3 * Byte + b2  BY <1>1, <1>3, Division
<1> HIDE DEF q3, b2
<1>5. Word \in Nat /\ Word > 0 /\ Word * Byte \in Nat /\ Word * Byte > 0
  BY <1>1, Radix
<1>6. v \div Word = q2
  <2>1. v = q2 * Word + (b1 * Byte + b0)  BY <1>1, <1>2, <1>3 DEF Word
  <2>2. b1 * Byte + b0 \in 0..(Word - 1)
    <3>1. (b1 + 1) * Byte <= Byte * Byte  BY <1>1, <1>3
    <3>2. (b1 + 1) * Byte = b1 * Byte + Byte  BY <1>1, <1>3
    <3>3. b1 * Byte \in Nat  BY <1>1, <1>3
    <3> QED  BY <1>1, <1>2, <3>1, <3>2, <3>3 DEF Word
  <2>3. q2 \in Int /\ v \in Int  BY <1>3
  <2> DEFINE r == b1 * Byte + b0
  <2>4. v = q2 * Word + r /\ r \in 0..(Word - 1)  BY <2>1, <2>2
  <2> HIDE DEF r
  <2> QED  BY <1>5, <2>3, <2>4, DivisionUnique, Zenon
<1>7. v \div (Word * Byte) = q3
  <2> DEFINE low == v % Word
  <2>1. low \in 0..(Word - 1) /\ v = q2 * Word + low
    <3>1. v \in Int  OBVIOUS
    <3>2. v % Word \in 0..(Word - 1) /\ v = (v \div Word) * Word + (v % Word)
      BY <1>5, <3>1, Division, Zenon
    <3> QED  BY <1>6, <3>2
  <2> HIDE DEF low
  <2>2. v = q3 * (Word * Byte) + (b2 * Word + low)
    <3>1. (q3 * Byte + b2) * Word = q3 * (Word * Byte) + b2 * Word  BY <1>1, <1>4, <1>5
    <3>2. b2 * Word \in Nat /\ q3 * (Word * Byte) \in Nat  BY <1>4, <1>5
    <3> QED  BY <1>4, <2>1, <3>1, <3>2
  <2>3. b2 * Word + low \in 0..((Word * Byte) - 1)
    <3>1. (b2 + 1) * Word <= Byte * Word  BY <1>1, <1>4, <1>5
    <3>2. (b2 + 1) * Word = b2 * Word + Word  BY <1>4, <1>5
    <3>3. b2 * Word \in Nat /\ Byte * Word = Word * Byte  BY <1>1, <1>4, <1>5
    <3> QED  BY <1>5, <2>1, <3>1, <3>2, <3>3
  <2>4. PICK w \in Nat : w = Word * Byte /\ w > 0  BY <1>5
  <2> DEFINE r == b2 * Word + low
  <2>5. v = q3 * w + r /\ r \in 0..(w - 1)  BY <2>2, <2>3, <2>4
  <2> HIDE DEF r
  <2>6. q3 \in Int /\ v \in Int /\ w \in Nat  BY <1>4
  <2>7. v \div w = q3  BY <2>4, <2>5, <2>6, DivisionUnique, Zenon
  <2> QED  BY <2>4, <2>7
<1>8. q3 \in 0..(Byte - 1)
  <2>1. SUFFICES ASSUME q3 >= Byte PROVE FALSE  BY <1>1, <1>4
  <2>2. q3 * (Word * Byte) <= v
    <3>1. q3 * (Word * Byte) + (v % (Word * Byte)) = v /\ v % (Word * Byte) \in Nat
      <4>1. PICK w \in Nat : w = Word * Byte /\ w > 0  BY <1>5
      <4>2. v % w \in 0..(w - 1) /\ v = (v \div w) * w + (v % w)  BY <4>1, Division
      <4>3. v \div w = q3  BY <1>7, <4>1
      <4>4. v % w \in Nat /\ v = q3 * w + (v % w)  BY <4>2, <4>3
      <4> QED  BY <4>1, <4>4
    <3>2. q3 * (Word * Byte) \in Nat  BY <1>4, <1>5
    <3> QED  BY <3>1, <3>2
  <2>3. Byte * (Word * Byte) <= q3 * (Word * Byte)  BY <1>1, <1>4, <1>5, <2>1
  <2>4. Byte * (Word * Byte) = Word * Word  BY <1>1, <1>5 DEF Word
  <2> QED  BY <1>1, <1>4, <1>5, <2>2, <2>3, <2>4
<1>9. q3 % Byte = q3  BY <1>1, <1>8
<1>10. v \div 1 = v  OBVIOUS
<1>11. v = ((q3 * Byte) + b2) * Word + ((b1 * Byte) + b0)
  BY <1>1, <1>2, <1>3, <1>4 DEF Word
<1> QED
  BY <1>2, <1>3, <1>4, <1>6, <1>7, <1>8, <1>9, <1>10, <1>11 DEF q1, b0, b1, b2

\* The decoding gives back the error word that the registers show.
LEMMA ErrorWordDecoded ==
    ASSUME NEW errors \in SUBSET ErrorBits
    PROVE  LET regs == ErrorRegisters(errors)
               bits == DecodeErrorPair(regs[1], regs[2])
           IN  bits \in Nat /\ \A c \in Nat : (bits \div (2 ^ c)) % 2 = 1 <=> c \in errors
<1> DEFINE v == ErrorWord(errors)
           byte(unit) == (v \div unit) % Byte
<1>1. IsFiniteSet(errors) /\ errors \subseteq Nat
  BY ErrorWordAssumption, FS_Subset
<1>2. v \in Nat /\ \A c \in Nat : Bit(v, c) = IF c \in errors THEN 1 ELSE 0
  BY <1>1, SumOfPowers DEF ErrorWord
<1> HIDE DEF v
<1>3. v < Word * Word
  <2>1. CASE v = 0
    <3>1. \A w \in Nat : w >= 4 => 0 < w * w  OBVIOUS
    <3> QED  BY <2>1, <3>1, Radix
  <2>2. CASE v # 0
    <3>1. PICK c \in Nat : Bit(v, c) = 1 /\ v < 2 ^ (c + 1)  BY <1>2, <2>2, HighestBit
    <3>2. c \in ErrorBits  BY <1>2, <3>1
    <3>3. 2 ^ (c + 1) <= Word * Word  BY <3>2, ErrorWordAssumption
    <3>4. 2 ^ (c + 1) \in Nat /\ Word * Word \in Nat  BY PowerPositive, Radix
    <3> QED  BY <1>2, <3>1, <3>3, <3>4
  <2> QED  BY <2>1, <2>2
<1>4. /\ \A unit \in {1, Byte, Word, Word * Byte} : byte(unit) \in 0..(Byte - 1)
      /\ v = ((byte(Word * Byte) * Byte) + byte(Word)) * Word
               + ((byte(Byte) * Byte) + byte(1))
  BY <1>2, <1>3, BytesJoin
<1> HIDE DEF byte
<1>5. ErrorRegisters(errors) =
        <<(byte(1) * Byte) + byte(Byte), (byte(Word) * Byte) + byte(Word * Byte)>>
  BY DEF ErrorRegisters, v, byte
<1>6. /\ ByteSwap16((byte(1) * Byte) + byte(Byte)) = (byte(Byte) * Byte) + byte(1)
      /\ ByteSwap16((byte(Word) * Byte) + byte(Word * Byte))
           = (byte(Word * Byte) * Byte) + byte(Word)
  BY <1>4, Swapped
<1>7. DecodeErrorPair(ErrorRegisters(errors)[1], ErrorRegisters(errors)[2]) = v
  BY <1>4, <1>5, <1>6 DEF DecodeErrorPair
<1> QED  BY <1>2, <1>7 DEF Bit

(***************************************************************************)
(* A poll reports exactly the named error conditions of the wallbox, and   *)
(* "no error" only when there is none, for every radix of the registers,   *)
(* every set of error bits they hold and every table of names              *)
(* (_decode_error_pair, summarize_errors).                                 *)
(***************************************************************************)
THEOREM ErrorsReportedRight == Spec => []ErrorsReported
<1>1. Init => ErrorsReported
  BY DEF Init, ErrorsReported
<1>2. ErrorsReported /\ [Next]_vars => ErrorsReported'
  <2> SUFFICES ASSUME ErrorsReported, [Next]_vars PROVE ErrorsReported'
    OBVIOUS
  <2>1. CASE Poll
    <3>1. PICK errors \in SUBSET ErrorBits :
             LET regs == ErrorRegisters(errors)
                 active == ActiveErrors(DecodeErrorPair(regs[1], regs[2]))
             IN  /\ data'.active_errors = active
                 /\ data'.error = SummarizeErrors(active)
                 /\ polled'.errors = errors
      BY <2>1 DEF Poll
    <3> DEFINE regs == ErrorRegisters(errors)
               bits == DecodeErrorPair(regs[1], regs[2])
               named == {ERROR_FLAGS[b] : b \in errors \cap DOMAIN ERROR_FLAGS}
    <3>2. \A c \in Nat : (bits \div (2 ^ c)) % 2 = 1 <=> c \in errors
      BY ErrorWordDecoded
    <3> HIDE DEF bits
    <3>3. {c \in DOMAIN ERROR_FLAGS : (bits \div (2 ^ c)) % 2 = 1}
            = errors \cap DOMAIN ERROR_FLAGS
      BY <3>2, FlagAssumption
    <3>4. ActiveErrors(bits) = named  BY <3>3 DEF ActiveErrors
    <3>5. \A name \in named : name # "no_error"  BY FlagAssumption
    <3> HIDE DEF named
    <3>6. SummarizeErrors(named) = "no_error" <=> named = {}
      BY <3>5 DEF SummarizeErrors
    <3> QED  BY <3>1, <3>4, <3>6 DEF ErrorsReported, bits, named
  <2>2. CASE SetPowerLimit \/ UNCHANGED vars
    BY <2>2 DEF SetPowerLimit, vars, ErrorsReported
  <2> QED  BY <2>1, <2>2 DEF Next
<1> QED  BY <1>1, <1>2, PTL DEF Spec
=============================================================================
