----------------------------- MODULE Registers -----------------------------
(***************************************************************************)
(* What AmtronCoordinator makes of the wallbox's registers: the decoding   *)
(* of meter and error registers in a poll, and the power limit (register   *)
(* 1002) written in the phase switching modes.                             *)
(*                                                                         *)
(* A register holds two bytes.  The radix of a byte is a constant, 256 in  *)
(* the code: the decoding is the same for every radix, and TLC's integers  *)
(* stay small.                                                             *)
(***************************************************************************)
EXTENDS Integers, FiniteSets, Functions

CONSTANTS
    None,             \* Python's None
    Byte,             \* radix of a byte
    MaxCurrents,      \* values of option max_current_a
    PhasePowers,      \* powers a phase draws, in W
    Requests,         \* powers asked for through the power limit entity, in W
    ErrorBits,        \* error bits the wallbox sets
    ERROR_FLAGS       \* the name of each error bit that has one

ASSUME ByteAssumption == Byte \in Nat /\ Byte >= 2
ASSUME PowerAssumption ==
    /\ MaxCurrents \subseteq 6..32
    /\ PhasePowers \subseteq Nat
    /\ Requests \subseteq Int
ASSUME FlagAssumption ==
    /\ DOMAIN ERROR_FLAGS \subseteq Nat
    /\ \A b \in DOMAIN ERROR_FLAGS : ERROR_FLAGS[b] # "no_error"

Word == Byte * Byte

\* Two registers hold the error word: they have room for each of its bits.
ASSUME ErrorWordAssumption ==
    /\ ErrorBits \subseteq Nat /\ IsFiniteSet(ErrorBits)
    /\ \A b \in ErrorBits : 2 ^ (b + 1) <= Word * Word
METER_NOT_PRESENT == Word * Word - 1
NOMINAL_PHASE_VOLTAGE_V == 230
MIN_POWER_1PHASE_W == 6 * NOMINAL_PHASE_VOLTAGE_V
MIN_POWER_3PHASE_W == 6 * 3 * NOMINAL_PHASE_VOLTAGE_V

PhaseModes == {"single_phase_only", "auto"}

\* The meters the code documents: one value per phase, a total only, or none.
MeterModels == {"phases", "total", "absent"}

VARIABLES
    maxCurrent,   \* option max_current_a
    phaseMode,    \* option phase_mode, one that uses register 1002
    meterModel,   \* the wallbox's meter
    powerLimit,   \* register 1002
    data,         \* AmtronData of the last poll, None before the first
    polled        \* history: what the wallbox stood at in that poll

vars == <<maxCurrent, phaseMode, meterModel, powerLimit, data, polled>>

-----------------------------------------------------------------------------
(* How the wallbox presents itself (external). *)

Phases == 1..3
DrawnPower(power) == power[1] + power[2] + power[3]

\* A 32-bit register pair holds what the car draws, and the marker is no power.
ASSUME MeterAssumption ==
    \A power \in [Phases -> PhasePowers] : DrawnPower(power) < METER_NOT_PRESENT

\* The 32-bit power value of line L1, L2 or L3.
LineValue(power, line) ==
    IF meterModel = "phases" THEN power[line]
    ELSE IF meterModel = "total" /\ line = 1 THEN DrawnPower(power)
    ELSE METER_NOT_PRESENT

\* The high word is at the lower address.
MeterRegisters(power) ==
    [line \in Phases |-> <<LineValue(power, line) \div Word, LineValue(power, line) % Word>>]

\* The error word is laid out with its lowest byte first.
ErrorWord(errors) == SumFunction([b \in errors |-> 2 ^ b])
ErrorRegisters(errors) ==
    LET v == ErrorWord(errors)
        byte(unit) == (v \div unit) % Byte
    IN  <<(byte(1) * Byte) + byte(Byte), (byte(Word) * Byte) + byte(Word * Byte)>>

-----------------------------------------------------------------------------
(* Decoding. *)

ToUint32(low, high) == (low * Word) + high
ByteSwap16(value) == ((value % Byte) * Byte) + ((value \div Byte) % Byte)

\* Mutant: words swapped, bytes not.
DecodeErrorWords(low, high) == (high * Word) + low
DecodeErrorPair(low, high) == (ByteSwap16(high) * Word) + ByteSwap16(low)

\* Mutant: the marker of an absent phase is taken for a power.
DecodeAllLines(regs) ==
    LET value(line) == ToUint32(regs[line][1], regs[line][2])
    IN  value(1) + value(2) + value(3)
\* An absent phase counts as 0 W.
DecodePowerW(regs) ==
    LET value(line) == ToUint32(regs[line][1], regs[line][2])
        counted(line) == IF value(line) = METER_NOT_PRESENT THEN 0 ELSE value(line)
    IN  counted(1) + counted(2) + counted(3)

ActiveErrors(bits) ==
    {ERROR_FLAGS[b] : b \in {c \in DOMAIN ERROR_FLAGS : (bits \div (2 ^ c)) % 2 = 1}}

\* The error sensor's state: the one active flag, or a summary.
SummarizeErrors(active) ==
    IF active = {} THEN "no_error"
    ELSE IF Cardinality(active) = 1 THEN CHOOSE b \in active : TRUE
    ELSE "multiple_errors"

-----------------------------------------------------------------------------
(* The power limit. *)

Smaller(a, b) == IF a <= b THEN a ELSE b

\* Mutant: a request above the single-phase maximum is offered unclamped.
ClampUnbounded(requested, mode, max) ==
    IF requested < MIN_POWER_1PHASE_W THEN 0
    ELSE IF mode = "single_phase_only" \/ requested < MIN_POWER_3PHASE_W
         THEN requested
         ELSE Smaller(requested, max * 3 * NOMINAL_PHASE_VOLTAGE_V)
\* Mutant: a request between the two ranges pauses charging.
ClampGap(requested, mode, max) ==
    LET onePhase == max * NOMINAL_PHASE_VOLTAGE_V
    IN  IF requested < MIN_POWER_1PHASE_W THEN 0
        ELSE IF mode = "single_phase_only" THEN Smaller(requested, onePhase)
        ELSE IF requested < MIN_POWER_3PHASE_W
             THEN IF requested <= onePhase THEN requested ELSE 0
             ELSE Smaller(requested, max * 3 * NOMINAL_PHASE_VOLTAGE_V)
\* _clamp_power_limit_w
ClampPowerLimitW(requested, mode, max) ==
    IF requested < MIN_POWER_1PHASE_W THEN 0
    ELSE IF mode = "single_phase_only" \/ requested < MIN_POWER_3PHASE_W
         THEN Smaller(requested, max * NOMINAL_PHASE_VOLTAGE_V)
         ELSE Smaller(requested, max * 3 * NOMINAL_PHASE_VOLTAGE_V)

-----------------------------------------------------------------------------
Init ==
    /\ maxCurrent \in MaxCurrents
    /\ phaseMode \in PhaseModes
    /\ meterModel \in MeterModels
    /\ powerLimit = 0
    /\ data = None
    /\ polled = None

\* A poll (_async_update_data), the part about these registers.
Poll ==
    /\ \E power \in [Phases -> PhasePowers], errors \in SUBSET ErrorBits :
        LET regs == ErrorRegisters(errors)
            active == ActiveErrors(DecodeErrorPair(regs[1], regs[2]))
        IN  /\ data' = [power_w |-> DecodePowerW(MeterRegisters(power)),
                        active_errors |-> active,
                        error |-> SummarizeErrors(active)]
            /\ polled' = [drawn |-> IF meterModel = "absent" THEN 0 ELSE DrawnPower(power),
                          errors |-> errors]
    /\ UNCHANGED <<maxCurrent, phaseMode, meterModel, powerLimit>>

\* async_set_power_limit, called by AmtronPowerLimitNumber; the write succeeds.
SetPowerLimit ==
    /\ \E watts \in Requests :
        powerLimit' = ClampPowerLimitW(watts, phaseMode, maxCurrent)
    /\ UNCHANGED <<maxCurrent, phaseMode, meterModel, data, polled>>

Next == Poll \/ SetPowerLimit
Spec == Init /\ [][Next]_vars

-----------------------------------------------------------------------------
(***************************************************************************)
(* The power limit pauses, or offers a current of at least 6 A and at most *)
(* the configured maximum on each phase of a range the phase mode allows   *)
(* (_clamp_power_limit_w).                                                 *)
(***************************************************************************)
OfferValid ==
    \/ powerLimit = 0
    \/ \E phases \in IF phaseMode = "auto" THEN {1, 3} ELSE {1} :
        /\ phases * 6 * NOMINAL_PHASE_VOLTAGE_V <= powerLimit
        /\ powerLimit <= phases * maxCurrent * NOMINAL_PHASE_VOLTAGE_V

(***************************************************************************)
(* Asking for more power never gives less, and never gives more than was   *)
(* asked for: no request falls into the gap between the single-phase and   *)
(* the three-phase range (_clamp_power_limit_w).                           *)
(***************************************************************************)
MoreNeverLess ==
    \A w1, w2 \in Requests : w1 <= w2 =>
        /\ ClampPowerLimitW(w1, phaseMode, maxCurrent)
             <= ClampPowerLimitW(w2, phaseMode, maxCurrent)
        /\ w1 >= 0 => ClampPowerLimitW(w1, phaseMode, maxCurrent) <= w1

(***************************************************************************)
(* With every documented meter the charging power of a poll is what the    *)
(* car drew at that poll (_decode_power_w).                                *)
(***************************************************************************)
PowerIsDrawn == data # None => data.power_w = polled.drawn

(***************************************************************************)
(* A poll reports exactly the named error conditions of the wallbox, and   *)
(* the error state says "no error" only when there is none                 *)
(* (_decode_error_pair, summarize_errors).                                 *)
(***************************************************************************)
ErrorsReported ==
    data # None =>
        LET named == {ERROR_FLAGS[b] : b \in polled.errors \cap DOMAIN ERROR_FLAGS}
        IN  /\ data.active_errors = named
            /\ (data.error = "no_error") <=> (named = {})
=============================================================================
