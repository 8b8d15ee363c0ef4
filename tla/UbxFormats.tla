----------------------------- MODULE UbxFormats -----------------------------
(***************************************************************************)
(* The payloads of the UBX messages as the Python program unpacks and      *)
(* packs them: CLIDPAIR and MSGFMT of python/ubxlib/ubx.py.  A format of   *)
(* the struct module is a sequence of field types (B is U1, h is I2, d is  *)
(* R8_ ...); those of several bytes begin with "<": nothing is aligned.    *)
(*                                                                         *)
(* Of the list of names that goes with a format only its length is kept: a *)
(* name stands for its place in the list.                                  *)
(***************************************************************************)
EXTENDS UbxStructs

x == [size |-> 1, align |-> 1, is |-> "pad"]

(* An entry whose key has a length.                                        *)
Format(clid, le, fmt, names) ==
    [clid |-> clid, le |-> le, fmt |-> fmt, names |-> names]

(* An entry whose key has None: the sizes it states of the base and of the *)
(* part that is repeated, and a format of each.                            *)
Varying(clid, base_size, base, base_names, rep_size, rep, rep_names) ==
    [clid |-> clid,
     base_size |-> base_size, base |-> base, base_names |-> base_names,
     rep_size |-> rep_size, rep |-> rep, rep_names |-> rep_names]

Id(cl, id) == cl * 256 + id

CLIDPAIR == [
    ACK_ACK   |-> Id(5, \h01), ACK_NACK  |-> Id(5, \h00),
    AID_ALM   |-> Id(11, \h30), AID_DATA |-> Id(11, \h10),
    AID_EPH   |-> Id(11, \h31), AID_HUI  |-> Id(11, \h02),
    AID_INI   |-> Id(11, \h01), AID_REQ  |-> Id(11, \h00),
    CFG_ANT   |-> Id(6, \h13), CFG_CFG   |-> Id(6, \h09),
    CFG_DAT   |-> Id(6, \h06), CFG_EKF   |-> Id(6, \h12),
    CFG_FXN   |-> Id(6, \h0e), CFG_INF   |-> Id(6, \h02),
    CFG_LIC   |-> Id(6, \h80), CFG_MSG   |-> Id(6, \h01),
    CFG_NAV2  |-> Id(6, \h1a), CFG_NMEA  |-> Id(6, \h17),
    CFG_PRT   |-> Id(6, \h00), CFG_RATE  |-> Id(6, \h08),
    CFG_RST   |-> Id(6, \h04), CFG_RXM   |-> Id(6, \h11),
    CFG_SBAS  |-> Id(6, \h16), CFG_TM    |-> Id(6, \h10),
    CFG_TM2   |-> Id(6, \h19), CFG_TMODE |-> Id(6, \h1d),
    CFG_TP    |-> Id(6, \h07), CFG_USB   |-> Id(6, \h1b),
    INF_DEBUG |-> Id(4, \h04), INF_ERROR |-> Id(4, \h00),
    INF_NOTICE |-> Id(4, \h02), INF_TEST |-> Id(4, \h03),
    INF_USER  |-> Id(4, \h07), INF_WARNING |-> Id(4, \h01),
    MON_EXCEPT |-> Id(10, \h05), MON_HW  |-> Id(10, \h09),
    MON_IO    |-> Id(10, \h02), MON_IPC  |-> Id(10, \h03),
    MON_MSGPP |-> Id(10, \h06), MON_RXBUF |-> Id(10, \h07),
    MON_SCHD  |-> Id(10, \h01), MON_TXBUF |-> Id(10, \h08),
    MON_USB   |-> Id(10, \h0a), MON_VER  |-> Id(10, \h04),
    NAV_CLOCK |-> Id(1, \h22), NAV_DGPS  |-> Id(1, \h31),
    NAV_DOP   |-> Id(1, \h04), NAV_EKFSTATUS |-> Id(1, \h40),
    NAV_POSECEF |-> Id(1, \h01), NAV_POSLLH |-> Id(1, \h02),
    NAV_POSUTM |-> Id(1, \h08), NAV_SBAS |-> Id(1, \h32),
    NAV_SOL   |-> Id(1, \h06), NAV_STATUS |-> Id(1, \h03),
    NAV_SVINFO |-> Id(1, \h30), NAV_TIMEGPS |-> Id(1, \h20),
    NAV_TIMEUTC |-> Id(1, \h21), NAV_VELECEF |-> Id(1, \h11),
    NAV_VELNED |-> Id(1, \h12),
    RXM_ALM   |-> Id(2, \h30), RXM_EPH   |-> Id(2, \h31),
    RXM_POSREQ |-> Id(2, \h40), RXM_RAW  |-> Id(2, \h10),
    RXM_SFRB  |-> Id(2, \h11), RXM_SVSI  |-> Id(2, \h20),
    TIM_SVIN  |-> Id(13, \h04), TIM_TM   |-> Id(13, \h02),
    TIM_TM2   |-> Id(13, \h03), TIM_TP   |-> Id(13, \h01),
    UPD_DOWNL |-> Id(9, \h01), UPD_EXEC  |-> Id(9, \h03),
    UPD_MEMCPY |-> Id(9, \h04), UPD_UPLOAD |-> Id(9, \h02) ]

-----------------------------------------------------------------------------
NavFormats == {
    Format("NAV_POSECEF", 20, <<U4, I4, I4, I4, U4>>, 5),
    Format("NAV_POSLLH", 28, <<U4, I4, I4, I4, I4, U4, U4>>, 7),
    Format("NAV_POSUTM", 18, <<U4, I4, I4, I4, I1, I1>>, 6),
    Format("NAV_DOP", 18, <<U4>> \o Many(7, U2), 8),
    Format("NAV_STATUS", 16, <<U4, U1, U1, U1, x, U4, U4>>, 6),
    Format("NAV_SOL", 52, <<U4, I4, I2, U1, U1, I4, I4, I4, U4, I4, I4, I4,
                            U4, U2, x, U1, x, x, x, x>>, 15),
    Format("NAV_VELECEF", 20, <<U4, I4, I4, I4, U4>>, 5),
    Format("NAV_VELNED", 36, <<U4, I4, I4, I4, U4, U4, I4, U4, U4>>, 9),
    Format("NAV_TIMEGPS", 16, <<U4, I4, I2, I1, U1, U4>>, 6),
    Format("NAV_TIMEUTC", 20, <<U4, U4, I4, U2>> \o Many(6, U1), 10),
    Format("NAV_CLOCK", 20, <<U4, I4, I4, U4, U4>>, 5) }

CfgFormats == {
    Format("CFG_PRT", 1, <<U1>>, 1),
    Format("CFG_USB", 108, <<U2, U2, x, x, U2, U2, U2>>
                              \o Many(3, Chars(32)), 8),
    Format("CFG_MSG", 2, <<U1, U1>>, 2),
    Format("CFG_MSG", 3, <<U1, U1, U1>>, 3),
    Format("CFG_NMEA", 4, <<U1, U1, U1, U1>>, 4),
    Format("CFG_RATE", 6, <<U2, U2, U2>>, 3),
    Format("CFG_CFG", 12, <<U4, U4, U4>>, 3),
    Format("CFG_TP", 20, <<U4, U4, I1, U1, x, x, I2, I2, I4>>, 7),
    Format("CFG_NAV2", 40, <<U1, x, x, x, U1, U1, U1, U1, I4>> \o Many(6, U1)
                \o <<x, x, U2, U2, U2, U2, U1>> \o Many(11, x), 17),
    Format("CFG_INF", 1, <<U1>>, 1),
    Format("CFG_RST", 4, <<U2, U1, x>>, 2),
    Format("CFG_RXM", 2, <<U1, U1>>, 2),
    Format("CFG_ANT", 4, <<U2, U2>>, 2),
    Format("CFG_FXN", 36, Many(7, U4) \o <<x, x, x, x, U4>>, 8),
    Format("CFG_SBAS", 8, <<U1, U1, U1, x, U4>>, 4),
    Format("CFG_LIC", 12, Many(6, U2), 6),
    Format("CFG_TM", 12, <<U4, U4, U4>>, 3),
    Format("CFG_TM2", 1, <<U1>>, 1),
    Format("CFG_TM2", 12, <<U1, x, x, x, U4, U4>>, 3),
    Format("CFG_TMODE", 28, <<U4, I4, I4, I4, U4, U4, U4>>, 7) }

OtherFormats == {
    Format("ACK_ACK", 2, <<U1, U1>>, 2),
    Format("ACK_NACK", 2, <<U1, U1>>, 2),
    Format("MON_SCHD", 24, Many(4, U4) \o <<U2, U2, U2, U1, U1>>, 9),
    Format("RXM_ALM", 1, <<U1>>, 1),
    Format("RXM_ALM", 8, <<U4, U4>>, 2),
    Format("RXM_ALM", 40, Many(10, U4), 10),
    Format("RXM_EPH", 1, <<U1>>, 1),
    Format("RXM_EPH", 8, <<U4, U4>>, 2),
    Format("RXM_EPH", 104, Many(26, U4), 26) }

AidFormats == {
    Format("AID_INI", 48, <<I4, I4, I4, U4, U2, U2, U4, I4, U4, U4, I4, U4,
                            U4>>, 13),
    Format("AID_DATA", 0, <<>>, 0),
    Format("AID_HUI", 72, <<U4, R8_, R8_, I4>> \o Many(6, U2)
                             \o Many(8, R4_) \o <<U4>>, 19),
    Format("AID_ALM", 1, <<U1>>, 1),
    Format("AID_ALM", 8, <<U4, U4>>, 2),
    Format("AID_ALM", 40, Many(10, U4), 10),
    Format("AID_EPH", 1, <<U1>>, 1),
    Format("AID_EPH", 8, <<U4, U4>>, 2),
    Format("AID_EPH", 104, Many(26, U4), 26) }

(* MSGFMT, the entries with a length ...                                   *)
MSGFMT == NavFormats \cup CfgFormats \cup OtherFormats \cup AidFormats

(* ... and those with None.                                                *)
MSGFMT_None == {
    Varying("NAV_SVINFO", 8, <<U4, U1, x, x, x>>, 2,
            12, <<U1, U1, U1, I1, U1, I1, I2, I4>>, 8),
    Varying("NAV_DGPS", 16, <<U4, I4, I2, I2, U1, U1, x, x>>, 6,
            12, <<U1, U1, U2, R4_, R4_>>, 5),
    Varying("NAV_SBAS", 12, <<U4, U1, U1, I1, U1, U1, x, x, x>>, 6,
            12, Many(5, U1) \o <<x, I2, x, x, I2>>, 7),
    Varying("RXM_RAW", 8, <<I4, I2, U1, x>>, 3,
            24, <<R8_, R8_, R4_, U1, I1, I1, U1>>, 7),
    Varying("RXM_SVSI", 8, <<I4, I2, U1, U1>>, 4,
            6, <<U1, U1, I2, I1, U1>>, 5),
    Varying("CFG_PRT", 0, <<>>, 0,
            20, <<U1, x, x, x, U4, U4, U2, U2, U2, x, x>>, 6),
    Varying("CFG_INF", 0, <<>>, 0, 8, <<U1, x, x, x, U1, U1, U1, U1>>, 5) }
    \cup {Varying(inf, 0, <<>>, 0, 1, <<Chars(1)>>, 1) :
            inf \in {"INF_ERROR", "INF_WARNING", "INF_NOTICE", "INF_TEST",
                     "INF_DEBUG", "INF_USER"}}

-----------------------------------------------------------------------------
(* struct.calcsize.                                                        *)
calcsize(fmt) == MapThenSumSet(LAMBDA i : fmt[i].size, DOMAIN fmt)

(* The values a format names, each with its place in the format.           *)
Fields(fmt) ==
    LET field(i) == [at |-> calcsize(SubSeq(fmt, 1, i - 1)),
                     size |-> fmt[i].size, is |-> fmt[i].is]
        isValue(v) == v.is # "pad"
    IN  SelectSeq([i \in DOMAIN fmt |-> field(i)], isValue)

(* struct.unpack: the values, each with where in the payload it was read,  *)
(* when the bytes begin at offset.                                         *)
unpack(fmt, offset) ==
    LET fields == Fields(fmt)
    IN  [i \in DOMAIN fields |-> [fields[i] EXCEPT !.at = @ + offset]]

=============================================================================
