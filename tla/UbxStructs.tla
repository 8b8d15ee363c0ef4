----------------------------- MODULE UbxStructs -----------------------------
(***************************************************************************)
(* The payloads of the UBX messages, as the C program declares them: the   *)
(* structs of c/ubx.h, of which it casts some onto the bytes it reads.     *)
(* What a bit of a bitmask means is left out: the definitions here follow  *)
(* the parts of that file between its masks.                               *)
(*                                                                         *)
(* An id is class * 256 + message, as in the UBXID_ macros.                *)
(***************************************************************************)
EXTENDS Integers, Sequences, FiniteSetsExt

Signed(n)   == [size |-> n, align |-> n, is |-> "signed"]
Unsigned(n) == [size |-> n, align |-> n, is |-> "unsigned"]
Float(n)    == [size |-> n, align |-> n, is |-> "float"]
Chars(n)    == [size |-> n, align |-> 1, is |-> "chars"]

I1  == Signed(1)
I2  == Signed(2)
I4  == Signed(4)
U1  == Unsigned(1)
U2  == Unsigned(2)
U4  == Unsigned(4)
X1  == U1
X2  == U2
X4  == U4
R4_ == Float(4)
R8_ == Float(8)

Many(n, field) == [i \in 1 .. n |-> field]

(* A struct whose payload is a base alone, or a base and a part that is    *)
(* repeated, or optional.                                                  *)
Struct(name, id, base) ==
    [name |-> name, id |-> id, base |-> base, repeat0 |-> <<>>]

Repeating(name, id, base, repeat0) ==
    [name |-> name, id |-> id, base |-> base, repeat0 |-> repeat0]

-----------------------------------------------------------------------------
NavPosition == {
    Struct("NAV_POSECEF", \h0101, <<U4, I4, I4, I4, U4>>),
    Struct("NAV_POSLLH",  \h0102, <<U4, I4, I4, I4, I4, U4, U4>>),
    Struct("NAV_STATUS",  \h0103, <<U4, U1, X1, X1, U1, U4, U4>>) }

NavSolution == {
    Struct("NAV_DOP", \h0104, <<U4>> \o Many(7, U2)),
    Struct("NAV_SOL", \h0106, <<U4, I4, I2, U1, X1, I4, I4, I4, U4,
                                I4, I4, I4, U4, U2, U1, U1, U4>>) }

NavVelocity == {
    Struct("NAV_VELECEF", \h0111, <<U4, I4, I4, I4, U4>>),
    Struct("NAV_VELNED",  \h0112, <<U4, I4, I4, I4, U4, U4, I4, U4, U4>>) }

NavTimeGPS == {
    Struct("NAV_TIMEGPS", \h0120, <<U4, I4, I2, I1, X1, U4>>) }

NavTimeUTC == {
    Struct("NAV_TIMEUTC", \h0121, <<U4, U4, I4, U2>> \o Many(5, U1) \o <<X1>>) }

SVINFO_CHN == <<U1, U1, X1, X1, U1, I1, I2, I4>>

NavSVINFO == {
    Struct("NAV_CLOCK",     \h0122, <<U4, I4, I4, U4, U4>>),
    Repeating("NAV_SVINFO", \h0130, <<U4, U1, X1, U2>>, SVINFO_CHN) }

SBAS_SVID == Many(6, U1) \o <<I2, I2, I2>>

NavSBAS == {
    Repeating("NAV_SBAS", \h0132, <<U4, U1, U1, I1, X1, U1>> \o Many(3, U1),
              SBAS_SVID) }

RxmStructs == {
    Repeating("RXM_RAW",  \h0210, <<I4, I2, U1, U1>>,
              <<R8_, R8_, R4_, U1, I1, I1, U1>>),
    Struct("RXM_SFRB",    \h0211, <<U1, U1>> \o Many(10, X4)),
    Repeating("RXM_SVSI", \h0220, <<I4, I2, U1, U1>>, <<U1, X1, I2, I1, X1>>) }

AckStructs == {
    Struct("ACK_NAK", \h0500, <<U1, U1>>),
    Struct("ACK_ACK", \h0501, <<U1, U1>>) }

CfgPort == {
    Struct("CFG_PRT_POLL", \h0600, <<U1>>),
    Struct("CFG_PRT_UART_U5", \h0600, <<U1, U1, U2, X4, U4, X2, X2, X2, U2>>) }

CfgPortSPI == {
    Struct("CFG_PRT_SPI_U5", \h0600, <<U1, U1, U2, X4, U4, X2, X2, X2, U2>>) }

CfgPortI2C == {
    Struct("CFG_PRT_I2C_U5", \h0600, <<U1, U1, U2, X4, U4, X2, X2, X2, U2>>) }

CfgMessages == {
    Struct("CFG_MSG_POLL", \h0601, <<U1, U1>>),
    Struct("CFG_MSG",      \h0601, <<U1, U1>> \o Many(4, U1)),
    Struct("CFG_MSG_SETCURRENT", \h0601, <<U1, U1, U1>>),
    Struct("CFG_INF_POLL", \h0602, <<U1>>),
    Struct("CFG_INF",      \h0602, <<U1, U1, U2>> \o Many(4, X1)) }

CfgReset == {
    Struct("CFG_RST", \h0604, <<X2, U1, U1>>) }

CfgDatum == {
    Struct("CFG_DAT_POLL",     \h0606, <<>>),
    Struct("CFG_DAT_STANDARD", \h0606, <<U2>>),
    Struct("CFG_DAT_CUSTOM",   \h0606, <<R8_, R8_>> \o Many(7, R4_)),
    Struct("CFG_DAT", \h0606, <<U2, Chars(6), R8_, R8_>> \o Many(7, R4_)) }

CfgTime == {
    Struct("CFG_TP_POLL", \h0607, <<>>),
    Struct("CFG_TP",      \h0607, <<U4, U4, I1, U1, U1, U1, I2, I2, I4>>) }

CfgRate == {
    Struct("CFG_RATE_POLL", \h0608, <<>>),
    Struct("CFG_RATE",      \h0608, <<U2, U2, U2>>),
    Struct("CFG_CFG",       \h0609, <<X4, X4, X4>>) }

CfgDevice == {
    Struct("CFG_ANT_POLL", \h0613, <<>>),
    Struct("CFG_ANT",      \h0613, <<X2, X2>>) }

CfgSBAS == {
    Struct("CFG_SBAS_U5", \h0616, <<X1, X1, U1, X1, X4>>) }

CfgOutput == {
    Struct("CFG_NMEA_POLL", \h0617, <<>>),
    Struct("CFG_NMEA",      \h0617, <<X1, U1, U1, X1>>) }

CfgUSB == {
    Struct("CFG_USB_POLL", \h061B, <<>>),
    Struct("CFG_USB",      \h061B, Many(5, U2) \o <<X2>> \o Many(3, Chars(32))) }

CfgNavigation == {
    Struct("CFG_TMODE_POL", \h061D, <<>>),
    Struct("CFG_TMODE",     \h061D, <<U4, I4, I4, I4, U4, U4, U4>>),
    Struct("CFG_NAV5_POLL", \h0624, <<>>),
    Struct("CFG_NAV5", \h0624, <<X2, U1, U1, I4, U4, I1, U1, U2, U2, U2, U2,
                                 U1, U1, U4, U4, U4>>) }

MonTraffic == {
    Repeating("MON_IO",    \h0A02, <<>>,
              <<U4, U4, U2, U2, U2, U2, U1, U1, U2>>),
    Struct("MON_VER",      \h0A04, <<Chars(30), Chars(10), Chars(30)>>),
    Struct("MON_MSGPP_U5", \h0A06, Many(48, U2) \o Many(6, U4)) }

MonBuffers == {
    Struct("MON_RXBUF_U5", \h0A07, Many(6, U2) \o Many(12, U1)),
    Struct("MON_TXBUF_U5", \h0A08, Many(6, U2) \o Many(14, U1) \o <<X1, U1>>) }

HW_RESH == <<U4, U4>>

MonHardware == {
    Repeating("MON_HW", \h0A09, Many(4, X4) \o <<U2, U2, U1, U1, X1, U1, X4>>
                                 \o Many(32, U1) \o <<X4>>, HW_RESH) }

AidPosition == {
    Struct("AID_REQ",       \h0B00, <<>>),
    Struct("AID_INI_POLL_", \h0B01, <<>>),
    Struct("AID_INI_U5_", \h0B01, <<I4, I4, I4, U4, X2, U2, U4, I4, U4, U4,
                                    I4, U4, X4>>) }

AidHealth == {
    Struct("AID_HUI_POLL", \h0B02, <<>>),
    Struct("AID_HUI",  \h0B02, <<X4, R8_, R8_, I4>> \o Many(6, I2)
                                    \o Many(8, R4_) \o <<X4>>) }

AidRequest == {
    Struct("AID_DATA", \h0B10, <<>>) }

AidOrbits == {
    Struct("AID_ALM_POLL", \h0B30, <<>>),
    Struct("AID_ALM_POLL_SINGLE", \h0B30, <<U1>>),
    Repeating("AID_ALM",   \h0B30, <<U4, U4>>, Many(8, X4)),
    Struct("AID_EPH_POLL", \h0B31, <<>>),
    Struct("AID_EPH_POLL_SINGLE", \h0B31, <<U1>>),
    Repeating("AID_EPH",   \h0B31, <<U4, U4>>, Many(24, X4)) }

AlpServer == {
    Struct("AID_ALPSRV_REQ",    \h0B32,
           <<U1, U1, U2, U2, U2, U2, U1, U1, U4>>),
    Repeating("AID_ALPSRV_SRV", \h0B32,
              <<U1, U1, U2, U2, U2, U2, U1, U1, U4>>, <<U1>>),
    Repeating("AID_ALPSRV_CLI", \h0B32, <<U1, U1, U2, U2, U2>>, <<U2>>) }

AlpTransfer == {
    Repeating("AID_ALP_TX", \h0B50, <<>>, <<U2>>),
    Struct("AID_ALP_END",   \h0B50, <<U1>>),
    Struct("AID_ALP_ACK",   \h0B50, <<U1>>),
    Struct("AID_ALP_NAK",   \h0B50, <<U1>>),
    Struct("AID_ALP_STAT",  \h0B50, <<U4, U4, I4, U2, U2, U4>> \o Many(4, U1)) }

TimPulse == {
    Struct("TIM_TP", \h0D01, <<U4, U4, I4, U2, X1, U1>>) }

TimMark == {
    Struct("TIM_TM2", \h0D03, <<U1, X1, U2, U2, U2>> \o Many(5, U4)) }

Structs == UNION {
    NavPosition, NavSolution, NavVelocity, NavTimeGPS, NavTimeUTC, NavSVINFO,
    NavSBAS, RxmStructs, AckStructs, CfgPort, CfgPortSPI, CfgPortI2C,
    CfgMessages, CfgReset, CfgDatum, CfgTime, CfgRate, CfgDevice, CfgSBAS,
    CfgOutput, CfgUSB, CfgNavigation, MonTraffic, MonBuffers, MonHardware,
    AidPosition, AidHealth, AidRequest, AidOrbits, AlpServer, AlpTransfer,
    TimPulse, TimMark }

-----------------------------------------------------------------------------
RoundUp(n, align) == ((n + align - 1) \div align) * align

(* Faulty variant: the flag has been removed from CFLAGS.                  *)
NotPacked(field) == field.align

(* -fpack-struct: every field follows the one before it at once.           *)
Alignment(field) == 1

(* The flag is heeded in every struct.                                     *)
PackStruct ==
    \A s \in Structs : \A fields \in {s.base, s.repeat0} :
        \A i \in DOMAIN fields : Alignment(fields[i]) = 1

(* Where each field begins, and in the last place where they all end.      *)
Offsets(fields) ==
    LET n == Len(fields)
        align(i) == IF i > n THEN 1 ELSE Alignment(fields[i])
        at[i \in 1 .. n + 1] ==
            IF i = 1 THEN 0
            ELSE RoundUp(at[i - 1] + fields[i - 1].size, align(i))
    IN  at

sizeof(fields) ==
    RoundUp(Offsets(fields)[Len(fields) + 1],
            Max({1} \cup {Alignment(fields[i]) : i \in DOMAIN fields}))

(* What a cast reads: each field with its place.                           *)
Cast(fields) ==
    {[at |-> Offsets(fields)[i], size |-> fields[i].size,
      is |-> fields[i].is] : i \in DOMAIN fields}

=============================================================================
