------------------------------ MODULE AisUtils -----------------------------
(***************************************************************************)
(* src/ais_decoder/aisutils.cpp with the helpers of strutils.h it calls:   *)
(* look-ups of country, transmitter class and vessel class, and the clean  *)
(* form of a name.  They are functions of their argument; the variables    *)
(* are the arguments of a caller, grown digit by digit and letter by       *)
(* letter.                                                                 *)
(*                                                                         *)
(* An MMSI has at most nine digits.  A string of it is a function from the *)
(* places 0 to 8 to digits, a country is known by its code (0: the empty   *)
(* pair), and class names are in capitals, since ascii_stricmp compares    *)
(* them so.  The guarded look-ups of navigation status and navigation aids *)
(* are like those of the vessel classes and left out.                      *)
(* Mut... definitions: see the README, "Mutants".                          *)
(***************************************************************************)
EXTENDS Integers, Sequences, SequencesExt

CONSTANTS HeadDigits, TailDigits,   \* digits that occur before and behind the fourth
          Letters,                  \* characters that occur in names
          MaxName                   \* bound: length of a name

ASSUME UtilsAssumption ==
  /\ HeadDigits \subseteq 0 .. 9 /\ TailDigits \subseteq 0 .. 9
  /\ MaxName \in Nat

VARIABLES mmsi, name, code

vars == <<mmsi, name, code>>

MaxMmsi == 999999999
-----------------------------------------------------------------------------
(* MMSI *)

Unit == <<100000000, 10000000, 1000000, 100000, 10000, 1000, 100, 10, 1>>

\* The decimal digits, with zeros in front up to nine.
mmsi_to_string(n) == [i \in 0 .. 8 |-> (n \div Unit[i + 1]) % 10]

\* strtoul of substr(i, 2) and substr(i, 3).
Two(s, i)   == 10 * s[i] + s[i + 1]
Three(s, i) == 100 * s[i] + 10 * s[i + 1] + s[i + 2]

MutPrefixSize(s) == IF s[0] \in {0, 8} THEN 1 ELSE         \* one digit compared first
  IF Three(s, 0) \in {111, 970, 972, 974} THEN 3 ELSE IF Two(s, 0) \in {98, 99} THEN 2 ELSE 0
\* What precedes the country code.
PrefixSize(s) ==
  IF Three(s, 0) \in {111, 970, 972, 974} THEN 3
  ELSE IF Two(s, 0) \in {0, 98, 99} THEN 2
  ELSE IF s[0] \in {0, 8} THEN 1
  ELSE 0

getMdiFromFullMmsi(s) == Three(s, PrefixSize(s))

MutMdiFromMmsi(n) ==                                       \* "00" not told from "0"
  LET a == n \div 1000000  b == n \div 10000000  c == n \div 100000000
  IN  IF a \in {111, 970, 972, 974} THEN n \div 1000 - a * 1000
      ELSE IF b \in {98, 99} THEN n \div 10000 - b * 1000
      ELSE IF c \in {0, 8} THEN n \div 100000 - c * 1000
      ELSE a
getMdiFromMmsi(n) ==
  LET a == n \div 1000000
      b == n \div 10000000
      c == n \div 100000000
  IN  IF a \in {111, 970, 972, 974} THEN n \div 1000 - a * 1000
      ELSE IF b \in {0, 98, 99} THEN n \div 10000 - b * 1000
      ELSE IF c \in {0, 8} THEN n \div 100000 - c * 1000
      ELSE a

getAisTransmitterClass(s) ==
  IF Three(s, 0) = 0 THEN "buoy"
  ELSE IF Three(s, 0) = 111 THEN "aircraft"
  ELSE IF Three(s, 0) = 970 THEN "transmitter"
  ELSE IF Three(s, 0) = 972 THEN "man_overboard"
  ELSE IF Three(s, 0) = 974 THEN "beacon"
  ELSE IF Three(s, 0) = 98 THEN "net_marker"
  ELSE IF Two(s, 0) = 0 THEN "coastal_station"
  ELSE IF Two(s, 0) = 99 THEN "aid_to_navigation"
  ELSE IF Two(s, 0) = 98 THEN "auxiliary_craft"
  ELSE IF s[0] = 0 THEN "group"
  ELSE IF s[0] = 8 THEN "diver"
  ELSE "ship"

\* The codes the table has an entry for, by the first digit.
Codes2 == (201 .. 279) \ {217, 221, 222, 223, 260}
Codes3 == {301, 314, 316, 319, 321, 323, 325, 327, 334, 336, 338, 339, 341, 343, 345, 347, 348,
           361, 362, 364} \cup (303 .. 312) \cup (329 .. 332) \cup (350 .. 359) \cup (366 .. 379)
Codes4 == {401, 403, 405, 408, 410, 412, 413, 414, 416, 417, 419, 422, 423, 425, 428, 431, 432,
           434, 436, 437, 438, 440, 441, 443, 445, 447, 450, 451, 453, 455, 457, 459, 461, 463,
           466, 468, 470, 472, 473, 475, 477, 478}
Codes5 == {501, 503, 506, 508, 510, 511, 512, 514, 515, 516, 518, 520, 523, 525, 529, 531, 533,
           536, 538, 540, 542, 544, 546, 548, 553, 555, 557, 559, 561, 570, 572, 574, 576, 577,
           578} \cup (563 .. 567)
Codes6 == (601 .. 679) \ ({602, 604, 606, 614, 623, 628, 643, 646, 648, 658, 673}
           \cup (638 .. 641) \cup (651 .. 653))
Codes7 == {701, 710, 720, 725, 730, 735, 740, 745, 750, 755, 760, 765, 770, 775}

vecCountry == [m \in 0 .. 799 |->
  IF m \in Codes2 \cup Codes3 \cup Codes4 \cup Codes5 \cup Codes6 \cup Codes7 THEN m ELSE 0]

getAisCountryCodes(s) ==
  LET uMid == getMdiFromFullMmsi(s) IN vecCountry[IF uMid >= 800 THEN 0 ELSE uMid]
-----------------------------------------------------------------------------
(* Vessel classes: a name and a category, both "" for an empty string. *)

NoClass == <<"", "">>

\* Ten codes each: names in the two tables.
Decade == [d \in {2, 4, 6, 7, 8, 9} |->
  CASE d = 2 -> <<"WIG", "WING IN GROUND">> [] d = 4 -> <<"HSC", "HIGH SPEED CRAFT">>
    [] d = 6 -> <<"PAS", "PASSENGER">>      [] d = 7 -> <<"CAR", "CARGO">>
    [] d = 8 -> <<"TNK", "TANKER">>         [] d = 9 -> <<"OTH", "OTHER">>]

Single == [c \in (30 .. 37) \cup (50 .. 59) |->
  CASE c = 30 -> <<"FSH", "FISHING">>        [] c = 31 -> <<"TOW", "TOWING">>
    [] c = 32 -> <<"TOW", "TOWING LONG">>    [] c = 33 -> <<"DRG", "DREDGING">>
    [] c = 34 -> <<"DIV", "DIVING">>         [] c = 35 -> <<"MIL", "MILITARY">>
    [] c = 36 -> <<"SAL", "SAILING">>        [] c = 37 -> <<"PLS", "PLEASURE">>
    [] c = 50 -> <<"PIL", "PILOT">>          [] c = 51 -> <<"S&R", "SEARCH">>
    [] c = 52 -> <<"TUG", "TUG">>            [] c = 53 -> <<"PRT", "PORT TENDER">>
    [] c = 54 -> <<"APE", "ANTI-POLLUTION">> [] c = 55 -> <<"LAW", "LAW ENFORCEMENT">>
    [] c \in {56, 57} -> <<"", "LOCAL">>     [] c = 58 -> <<"MED", "MEDICAL">>
    [] c = 59 -> <<"NCS", "NONCOMBATANT">>]

VesselShort == [c \in 0 .. 99 |->
  IF c \div 10 \in DOMAIN Decade THEN <<Decade[c \div 10][1], "">>
  ELSE IF c \in DOMAIN Single THEN <<Single[c][1], "">> ELSE NoClass]

Category(d) == <<"", "A", "B", "C", "D", "?", "?", "?", "?", "?">>[d + 1]

VesselFull == [c \in 0 .. 99 |->
  IF c \div 10 \in DOMAIN Decade THEN <<Decade[c \div 10][2], Category(c % 10)>>
  ELSE IF c \in DOMAIN Single THEN <<Single[c][2], "">> ELSE NoClass]

\* A code outside the table counts as "Other".
getAisVesselClassShort(c) == VesselShort[IF c < 0 \/ c >= 100 THEN 90 ELSE c]
getAisVesselClassFull(c)  == VesselFull[IF c < 0 \/ c >= 100 THEN 90 ELSE c]

Matching(table, str) == {i \in DOMAIN table : table[i] = str}

MutVesselClassCode(str) == IF Matching(VesselFull, str) # {} THEN Min(Matching(VesselFull, str)) ELSE 0
\* The first match in the table of full names, then in the other; 0 otherwise.
getAisVesselClassCode(str) ==
  IF str = NoClass THEN 0
  ELSE IF Matching(VesselFull, str) # {} THEN Min(Matching(VesselFull, str))
  ELSE IF Matching(VesselShort, str) # {} THEN Min(Matching(VesselShort, str))
  ELSE 0
-----------------------------------------------------------------------------
(* Names *)

stripTrailingAll(str, ch) ==
  LET at == {i \in DOMAIN str : str[i] = ch}
  IN  IF at = {} THEN str ELSE SubSeq(str, 1, Min(at) - 1)

Blank == " "

\* A string of nothing but white space is left as it is.
stripTrailingWhitespace(str) ==
  LET text == {i \in DOMAIN str : str[i] # Blank}
  IN  IF text = {} THEN str ELSE SubSeq(str, 1, Max(text))

MutCleanName(str) == stripTrailingAll(stripTrailingWhitespace(str), "@")    \* order swapped
getCleanName(str) == stripTrailingWhitespace(stripTrailingAll(str, "@"))
-----------------------------------------------------------------------------
Init == mmsi = 0 /\ name = <<>> /\ code = -1

Digit ==
  /\ mmsi <= MaxMmsi \div 10 /\ name = <<>> /\ code = -1
  /\ \E d \in IF mmsi < 1000 THEN HeadDigits ELSE TailDigits : mmsi' = 10 * mmsi + d
  /\ UNCHANGED <<name, code>>

Letter ==
  /\ mmsi = 0 /\ Len(name) < MaxName /\ code = -1
  /\ \E ch \in Letters : name' = Append(name, ch)
  /\ UNCHANGED <<mmsi, code>>

NextCode ==
  /\ mmsi = 0 /\ name = <<>> /\ code < 100
  /\ code' = code + 1
  /\ UNCHANGED <<mmsi, name>>

Next == Digit \/ Letter \/ NextCode

Spec == Init /\ [][Next]_vars
-----------------------------------------------------------------------------
\* The MDI is the same whether it is taken from the number or from its string
\* (aisutils.cpp:592 calls the one a quicker form of the other).
MdiAgree == getMdiFromMmsi(mmsi) = getMdiFromFullMmsi(mmsi_to_string(mmsi))

\* The country is looked up by the three digits behind the prefix that decides
\* the transmitter class, although the two functions compare prefixes separately;
\* buoys and net markers, whose prefixes only one of them knows, have no country.
ClassPrefix(class) ==
  CASE class \in {"aircraft", "transmitter", "man_overboard", "beacon"} -> 3
    [] class \in {"coastal_station", "aid_to_navigation", "auxiliary_craft"} -> 2
    [] class \in {"group", "diver"} -> 1
    [] class = "ship" -> 0
CountryBehindPrefix ==
  LET s == mmsi_to_string(mmsi)
      class == getAisTransmitterClass(s)
  IN  getAisCountryCodes(s) =
        IF class \in {"buoy", "net_marker"} THEN 0
        ELSE LET m == Three(s, ClassPrefix(class)) IN IF m \in DOMAIN vecCountry THEN vecCountry[m] ELSE 0

\* The code found for a class name has that name, in whichever table it was.
ClassRoundTrip ==
  /\ getAisVesselClassFull(getAisVesselClassCode(getAisVesselClassFull(code)))
       = getAisVesselClassFull(code)
  /\ getAisVesselClassShort(getAisVesselClassCode(getAisVesselClassShort(code)))
       = getAisVesselClassShort(code)

\* A clean name is what precedes "@" without trailing blanks, unless that is
\* nothing but blanks.
NameClean ==
  LET c == getCleanName(name)
  IN  /\ IsPrefix(c, name) /\ "@" \notin ToSet(c)
      /\ c # <<>> /\ Last(c) = Blank => ToSet(c) = {Blank}
      /\ \A i \in Len(c) + 1 .. Len(name) :
           name[i] = Blank \/ \E j \in Len(c) + 1 .. i : name[j] = "@"

=============================================================================
