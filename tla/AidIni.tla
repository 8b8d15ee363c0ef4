------------------------------- MODULE AidIni -------------------------------
(***************************************************************************)
(* The AID_INI message, which tells the receiver where and when it is:     *)
(* how handle_message_from_file (c/load_agps.h) and handle_AID_DATA        *)
(* (python/ubxlib/ubx_load.py) compute it from the dumped position, the    *)
(* system clock and what they take the leap seconds to be.                 *)
(*                                                                         *)
(* Times are in seconds of the UTC clock time() reads; GPS time is ahead   *)
(* of it by the leap seconds since EPOCH.                                  *)
(***************************************************************************)
EXTENDS Integers

CONSTANTS
    WORD,     (* 2^32: what an unsigned int or U4 holds                    *)
    HALF,     (* 2^16: what a U2 holds                                     *)
    DAY,      (* seconds of a day: 24 * 3600                               *)
    SECOND,   (* milliseconds of a second: 1000                            *)
    EPOCH,    (* GPS epoch in UTC time: 315964800                          *)
    C_LEAPS,  (* leap seconds the C program assumes: 15                    *)
    PY_LEAPS, (* and the Python program, without health data: 14           *)
    POSITION_ACCURACY_MIN_CM, POSITION_ACCURACY_MAX_CM,
    PACC,     (* position accuracy the Python program states               *)
    TIME_ACCURACY,  (* in seconds: 10 * 60 in both programs                *)
    Programs, (* which programs run: "c", "py"                             *)
    Moments,  (* true UTC times at which they do                           *)
    Leaps,    (* what the leap seconds may really be                       *)
    PAccs     (* accuracies NAV_POSECEF may state                          *)

WEEK == 7 * DAY

Distance(a, b) == IF a > b THEN a - b ELSE b - a

ASSUME WidthAssumption ==
    /\ DAY \in Nat \ {0} /\ SECOND \in Nat \ {0}
    /\ WORD \in Nat /\ HALF \in Nat
    /\ WEEK * SECOND <= WORD
    /\ WORD <= WEEK * HALF

ASSUME AccuracyAssumption ==
    /\ POSITION_ACCURACY_MIN_CM \in 0 .. (WORD - 1)
    /\ POSITION_ACCURACY_MAX_CM \in 0 .. (WORD - 1)
    /\ PACC \in 0 .. (WORD - 1)
    /\ PAccs \subseteq 0 .. (WORD - 1)

(* The programs run after the GPS epoch and before GPS time outgrows 32    *)
(* bits, and leap seconds are a matter of seconds.                         *)
ASSUME TimeAssumption ==
    /\ EPOCH \in Nat /\ C_LEAPS \in Nat /\ PY_LEAPS \in Nat
    /\ TIME_ACCURACY \in Nat /\ Leaps \subseteq Nat
    /\ Moments \subseteq Nat
    /\ \A t \in Moments :
          /\ t - TIME_ACCURACY >= EPOCH
          /\ t + TIME_ACCURACY + C_LEAPS < EPOCH + WORD
    /\ \A l \in Leaps \cup {PY_LEAPS} : (WEEK + l) * SECOND <= WORD
    /\ Programs \subseteq {"c", "py"}

VARIABLES
    program,  (* which program it is                                       *)
    utc,      (* the true time                                             *)
    leaps,    (* the true number of leap seconds                           *)
    clock,    (* what the system clock says                                *)
    pos,      (* the dumped accuracy of the position, or "none"            *)
    hui,      (* the dump has health data, with leap seconds               *)
    ini       (* the AID_INI message, or "none"                            *)

world == <<program, utc, leaps, clock, pos, hui>>
ini_vars == <<world, ini>>

(* Leap seconds as far as the program knows them.                          *)
Assumed ==
    CASE program = "c" -> C_LEAPS
      [] program = "py" /\ hui  -> leaps
      [] program = "py" /\ ~hui -> PY_LEAPS

(* The clock is right within TIME_ACCURACY, the programs' ignorance of     *)
(* leap seconds included.  The C program gets here only with a position.   *)
IniInit ==
    /\ program \in Programs
    /\ utc \in Moments /\ leaps \in Leaps
    /\ pos \in {[known |-> TRUE, pAcc |-> a] : a \in PAccs}
                  \cup {[known |-> FALSE, pAcc |-> 0]}
    /\ program = "c" => pos.known
    /\ hui \in BOOLEAN
    /\ clock \in (utc - TIME_ACCURACY) .. (utc + TIME_ACCURACY)
    /\ Distance(clock + Assumed, utc + leaps) <= TIME_ACCURACY
    /\ ini = [sent |-> FALSE]

-----------------------------------------------------------------------------
(* Faulty variant: leap seconds are taken off.                             *)
LeapsOff == (clock - EPOCH - C_LEAPS) % WORD

(* time(NULL) - 315964800 + 15, an unsigned int.                           *)
gps_time == ((clock - EPOCH) + C_LEAPS) % WORD

gps_week == gps_time \div WEEK

(* Faulty variant: the time since the epoch, not since the week began.     *)
SecondsSinceEpoch == gps_time

gps_second == gps_time % WEEK

(* The position may have changed by so much since the dump.                *)
posAcc(pAcc) ==
    IF pAcc < POSITION_ACCURACY_MIN_CM THEN POSITION_ACCURACY_MIN_CM ELSE pAcc

(* handle_message_from_file, from the NAV_POSECEF of the dump.             *)
CMessage ==
    [sent |-> TRUE,
     ecef |-> "last",
     posAcc |-> posAcc(pos.pAcc),
     valid |-> (IF posAcc(pos.pAcc) < POSITION_ACCURACY_MAX_CM
                THEN {"position"} ELSE {}) \cup {"time"},
     wn |-> gps_week,
     tow |-> gps_second * SECOND]

CIni ==
    /\ program = "c" /\ ~ini.sent
    /\ ini' = CMessage
    /\ UNCHANGED world

(* gpstime.days and what is left of the day; the week number.              *)
days == (clock - EPOCH) \div DAY
wn == days \div 7

(* towdelta; the leap seconds come on top of it.                           *)
PyTow == ((days % 7) * DAY + ((clock - EPOCH) % DAY) + Assumed) * SECOND

(* handle_AID_DATA.                                                        *)
PyMessage ==
    [sent |-> TRUE,
     ecef |-> IF pos.known THEN "last" ELSE "zero",
     posAcc |-> PACC,
     valid |-> (IF pos.known THEN {"position"} ELSE {}) \cup {"time"},
     wn |-> wn,
     tow |-> PyTow]

PyIni ==
    /\ program = "py" /\ ~ini.sent
    /\ ini' = PyMessage
    /\ UNCHANGED world

IniNext == CIni \/ PyIni

IniSpec == IniInit /\ [][IniNext]_ini_vars

-----------------------------------------------------------------------------
(* Every field fits the width it has in the message, without wrapping.     *)
IniTypeOK ==
    ini.sent =>
        /\ ini.ecef \in {"last", "zero"}
        /\ ini.posAcc \in 0 .. (WORD - 1)
        /\ ini.valid \subseteq {"position", "time"}
        /\ ini.wn \in 0 .. (HALF - 1)
        /\ ini.tow \in 0 .. (WORD - 1)

(* The inductive invariant behind the properties: the message is one of    *)
(* the two, computed from the world as it is.                              *)
World ==
    /\ program \in Programs /\ utc \in Moments /\ leaps \in Leaps
    /\ pos.known \in BOOLEAN /\ pos.pAcc \in 0 .. (WORD - 1)
    /\ hui \in BOOLEAN
    /\ clock \in (utc - TIME_ACCURACY) .. (utc + TIME_ACCURACY)
    /\ Distance(clock + Assumed, utc + leaps) <= TIME_ACCURACY

IniIInv ==
    /\ World
    /\ \/ ini = [sent |-> FALSE]
       \/ program = "c" /\ ini = CMessage
       \/ program = "py" /\ ini = PyMessage

(* Week and time of week together are GPS time within the accuracy stated  *)
(* with them, also across the end of a week, as long as the clock is       *)
(* within it (c/load_agps.h:108-119, c/config.h:27-37,                     *)
(* python/ubxlib/ubx_load.py:17-38).                                       *)
TimeWithinAccuracy ==
    ini.sent =>
        Distance((ini.wn * WEEK) + (ini.tow \div SECOND), (utc - EPOCH) + leaps)
            <= TIME_ACCURACY

(* The time of week is one: it does not reach the length of a week; "GPS   *)
(* time of week" (python/ubxlib/ubx_load.py:33, c/load_agps.h:110-117).    *)
(* True of the C program; not of the Python program (AidIniTow.cfg).       *)
TowInWeek == ini.sent => ini.tow < WEEK * SECOND

(* "if position accuracy is more than POSITION_ACCURACY_MAX_CM, don't send *)
(* the last position to GPS at all" (c/config.h:22-25).  Not true: the C   *)
(* program sends it and only leaves out the flag that makes it valid       *)
(* (c/load_agps.h:96-106).                                                 *)
PositionWithheld ==
    ini.sent /\ pos.known /\ pos.pAcc > POSITION_ACCURACY_MAX_CM =>
        ini.ecef # "last"

=============================================================================
