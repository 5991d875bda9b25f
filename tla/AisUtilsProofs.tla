--------------------------- MODULE AisUtilsProofs ---------------------------
(***************************************************************************)
(* Proofs about AisUtils.tla: the two ways to take the country code from   *)
(* an MMSI give the same for each of the 10^9 numbers of nine digits; a    *)
(* country found is the one of a prefix that getAisTransmitterClass knows; *)
(* names come out clean, whatever they held; class names lead back to      *)
(* their code.                                                             *)
(* Leaves with numbers of this size name the one backend that reads them.  *)
(***************************************************************************)
EXTENDS AisUtils, WellFoundedInduction, TLAPS

\* n without its last digit, for the quotients that occur.
LEMMA Shorten ==
  ASSUME NEW n \in Nat
  PROVE  /\ (n \div 1000) \div 10 = n \div 10000
         /\ (n \div 10000) \div 10 = n \div 100000
         /\ (n \div 100000) \div 10 = n \div 1000000
         /\ (n \div 1000000) \div 10 = n \div 10000000
         /\ (n \div 10000000) \div 10 = n \div 100000000
<1>1. (n \div 1000) \div 10 = n \div 10000
  BY SMT
<1>2. (n \div 10000) \div 10 = n \div 100000
  BY SMT
<1>3. (n \div 100000) \div 10 = n \div 1000000
  BY SMT
<1>4. (n \div 1000000) \div 10 = n \div 10000000
  BY SMT
<1>5. (n \div 10000000) \div 10 = n \div 100000000
  BY SMT
<1> QED
  BY <1>1, <1>2, <1>3, <1>4, <1>5, SMT

LEMMA Quotients ==
  ASSUME NEW n \in Nat
  PROVE  /\ n \div 1000 \in Nat /\ n \div 10000 \in Nat /\ n \div 100000 \in Nat
         /\ n \div 1000000 \in Nat /\ n \div 10000000 \in Nat /\ n \div 100000000 \in Nat
<1>1. n \div 1000 \in Nat
  BY SMT
<1>2. n \div 10000 \in Nat
  BY SMT
<1>3. n \div 100000 \in Nat
  BY SMT
<1>4. n \div 1000000 \in Nat
  BY SMT
<1>5. n \div 10000000 \in Nat
  BY SMT
<1>6. n \div 100000000 \in Nat
  BY SMT
<1> QED
  BY <1>1, <1>2, <1>3, <1>4, <1>5, <1>6, SMT

\* The last digit of a number.
LEMMA LastDigit ==
  ASSUME NEW m \in Nat
  PROVE  m % 10 = m - 10 * (m \div 10) /\ m \div 10 \in Nat
<1>1. m \div 10 \in Nat
  BY SMT
<1>2. m % 10 = m - 10 * (m \div 10)
  BY SMT
<1> QED
  BY <1>1, <1>2, SMT

\* The digits that getMdiFromFullMmsi looks at.
LEMMA DigitsOf ==
  ASSUME NEW n \in Nat, n <= MaxMmsi
  PROVE  LET s == mmsi_to_string(n)
         IN  /\ s[0] = n \div 100000000
             /\ s[1] = (n \div 10000000) % 10
             /\ s[2] = (n \div 1000000) % 10
             /\ s[3] = (n \div 100000) % 10
             /\ s[4] = (n \div 10000) % 10
             /\ s[5] = (n \div 1000) % 10
<1>1. n \div 100000000 \in Nat /\ n \div 100000000 <= 9
  BY SMT DEF MaxMmsi
<1>2. (n \div 100000000) % 10 = n \div 100000000
  BY <1>1, SMT
<1> QED
  BY <1>2, SMT DEF mmsi_to_string, Unit

\* Both ways to the MDI agree on every MMSI.
LEMMA SameMdi ==
  ASSUME NEW n \in Nat, n <= MaxMmsi
  PROVE  getMdiFromMmsi(n) = getMdiFromFullMmsi(mmsi_to_string(n))
<1> DEFINE s == mmsi_to_string(n)
           a == n \div 1000000
           b == n \div 10000000
           c == n \div 100000000
           d == n \div 100000
           e == n \div 10000
           f == n \div 1000
<1>1. a \in Nat /\ b \in Nat /\ c \in Nat /\ d \in Nat /\ e \in Nat /\ f \in Nat
  BY Quotients, SMT
<1>2. /\ b \div 10 = c /\ a \div 10 = b /\ d \div 10 = a
      /\ e \div 10 = d /\ f \div 10 = e
  BY Shorten, SMT
<1>3. /\ s[0] = c /\ s[1] = b % 10 /\ s[2] = a % 10
      /\ s[3] = d % 10 /\ s[4] = e % 10 /\ s[5] = f % 10
  BY DigitsOf, SMT
<1>4. getMdiFromMmsi(n) =
        IF a \in {111, 970, 972, 974} THEN f - a * 1000
        ELSE IF b \in {0, 98, 99} THEN e - b * 1000
        ELSE IF c \in {0, 8} THEN d - c * 1000
        ELSE a
  BY SMT DEF getMdiFromMmsi
<1> HIDE DEF s, a, b, c, d, e, f
<1>5. /\ s[1] = b - 10 * c /\ s[2] = a - 10 * b /\ s[3] = d - 10 * a
      /\ s[4] = e - 10 * d /\ s[5] = f - 10 * e
  BY <1>1, <1>2, <1>3, LastDigit
<1>6. b = Two(s, 0) /\ a = Three(s, 0)
  BY <1>1, <1>3, <1>5 DEF Two, Three
<1>7. f - a * 1000 = Three(s, 3) /\ e - b * 1000 = Three(s, 2) /\ d - c * 1000 = Three(s, 1)
  BY <1>1, <1>5, SMT DEF Three
<1>8. getMdiFromFullMmsi(s) =
        IF Three(s, 0) \in {111, 970, 972, 974} THEN Three(s, 3)
        ELSE IF Two(s, 0) \in {0, 98, 99} THEN Three(s, 2)
        ELSE IF s[0] \in {0, 8} THEN Three(s, 1)
        ELSE Three(s, 0)
  BY SMT DEF getMdiFromFullMmsi, PrefixSize
<1>9. getMdiFromMmsi(n) = getMdiFromFullMmsi(s)
  BY <1>3, <1>4, <1>6, <1>7, <1>8
<1> QED
  BY <1>9 DEF s

(***************************************************************************)
(* Countries.                                                              *)
(***************************************************************************)

LEMMA AreDigits ==
  ASSUME NEW n \in Nat
  PROVE  \A i \in 0 .. 8 : mmsi_to_string(n)[i] \in 0 .. 9
<1>1. ASSUME NEW u \in Nat, u > 0 PROVE (n \div u) % 10 \in 0 .. 9
  <2>1. n \div u \in Nat
    BY <1>1, SMT
  <2> QED
    BY <2>1, SMT
<1>2. ASSUME NEW i \in 0 .. 8 PROVE Unit[i + 1] \in Nat /\ Unit[i + 1] > 0
  BY SMT DEF Unit
<1>3. ASSUME NEW i \in 0 .. 8 PROVE mmsi_to_string(n)[i] = (n \div Unit[i + 1]) % 10
  BY SMT DEF mmsi_to_string
<1> QED
  BY <1>1, <1>2, <1>3

\* There are no codes below 201, so the guard against codes from 800 on gives
\* the empty entry.
LEMMA NoSmallCodes == \A m \in 0 .. 200 : vecCountry[m] = 0
<1> SUFFICES ASSUME NEW m \in 0 .. 200 PROVE vecCountry[m] = 0
  OBVIOUS
<1>1. m \notin Codes2 /\ m \notin Codes3
  BY SMT DEF Codes2, Codes3
<1>2. m \notin Codes4
  BY SMT DEF Codes4
<1>3. m \notin Codes5
  BY SMT DEF Codes5
<1>4. m \notin Codes6 /\ m \notin Codes7
  BY SMT DEF Codes6, Codes7
<1> QED
  BY <1>1, <1>2, <1>3, <1>4 DEF vecCountry

LEMMA GuardedEntry ==
  ASSUME NEW s, Three(s, PrefixSize(s)) \in 0 .. 999
  PROVE  LET m == Three(s, PrefixSize(s))
         IN  /\ getAisCountryCodes(s) = IF m \in DOMAIN vecCountry THEN vecCountry[m] ELSE 0
             /\ m <= 200 \/ m >= 800 => getAisCountryCodes(s) = 0
<1> DEFINE m == Three(s, PrefixSize(s))
<1>1. getAisCountryCodes(s) = vecCountry[IF m >= 800 THEN 0 ELSE m]
  BY DEF getAisCountryCodes, getMdiFromFullMmsi
<1> HIDE DEF m
<1>2. DOMAIN vecCountry = 0 .. 799
  BY DEF vecCountry
<1>3. m \in 0 .. 999
  BY DEF m
<1>4. vecCountry[0] = 0 /\ (m <= 200 => vecCountry[m] = 0)
  BY NoSmallCodes, <1>3
<1>5. /\ getAisCountryCodes(s) = IF m \in DOMAIN vecCountry THEN vecCountry[m] ELSE 0
      /\ m <= 200 \/ m >= 800 => getAisCountryCodes(s) = 0
  BY <1>1, <1>2, <1>3, <1>4
<1> QED
  BY <1>5 DEF m

\* Numbers of two and three digits.
LEMMA NumberOfDigits ==
  ASSUME NEW a \in 0 .. 9, NEW b \in 0 .. 9, NEW d \in 0 .. 9
  PROVE  /\ 10 * a + b \in 0 .. 99 /\ 100 * a + 10 * b + d \in 0 .. 999
         /\ 100 * a + 10 * b + d = 0 => 10 * a + b = 0 /\ d = 0
         /\ 100 * a + 10 * b + d = 98 => a = 0 /\ b = 9 /\ 10 * a + b = 9
         /\ a = 0 => 100 * a + 10 * b + d <= 200
         /\ a = 9 => 100 * a + 10 * b + d >= 800
OBVIOUS

\* The two lists of prefixes agree, but for those of buoys and net markers.
LEMMA PrefixOfClass ==
  ASSUME NEW s, \A i \in 0 .. 8 : s[i] \in 0 .. 9
  PROVE  LET class == getAisTransmitterClass(s)
         IN  /\ class = "buoy" => PrefixSize(s) = 2 /\ s[2] = 0
             /\ class = "net_marker" => PrefixSize(s) = 1 /\ s[1] = 9
             /\ class \notin {"buoy", "net_marker"} => ClassPrefix(class) = PrefixSize(s)
             /\ PrefixSize(s) \in {0, 1, 2, 3}
<1> DEFINE class == getAisTransmitterClass(s)
           x == Three(s, 0)
           y == Two(s, 0)
<1>1. s[0] \in 0 .. 9 /\ s[1] \in 0 .. 9 /\ s[2] \in 0 .. 9
  OBVIOUS
<1>2. /\ x \in 0 .. 999 /\ y \in 0 .. 99
      /\ x = 0 => y = 0 /\ s[2] = 0
      /\ x = 98 => s[0] = 0 /\ s[1] = 9 /\ y = 9
  <2>1. y = 10 * s[0] + s[1] /\ x = 100 * s[0] + 10 * s[1] + s[2]
    BY DEF Two, Three
  <2> HIDE DEF x, y
  <2>2. x \in 0 .. 999 /\ y \in 0 .. 99
    <3>1. 10 * s[0] + s[1] \in 0 .. 99
      BY <1>1, NumberOfDigits
    <3>2. 100 * s[0] + 10 * s[1] + s[2] \in 0 .. 999
      BY <1>1, NumberOfDigits
    <3> QED
      BY <2>1, <3>1, <3>2
  <2>3. x = 0 => y = 0 /\ s[2] = 0
    BY <1>1, <2>1, NumberOfDigits
  <2>4. x = 98 => s[0] = 0 /\ s[1] = 9 /\ y = 9
    BY <1>1, <2>1, NumberOfDigits
  <2> QED
    BY <2>2, <2>3, <2>4
<1>3. class =
        IF x = 0 THEN "buoy" ELSE IF x = 111 THEN "aircraft" ELSE IF x = 970 THEN "transmitter"
        ELSE IF x = 972 THEN "man_overboard" ELSE IF x = 974 THEN "beacon"
        ELSE IF x = 98 THEN "net_marker" ELSE IF y = 0 THEN "coastal_station"
        ELSE IF y = 99 THEN "aid_to_navigation" ELSE IF y = 98 THEN "auxiliary_craft"
        ELSE IF s[0] = 0 THEN "group" ELSE IF s[0] = 8 THEN "diver" ELSE "ship"
  BY DEF getAisTransmitterClass
<1>4. PrefixSize(s) = IF x \in {111, 970, 972, 974} THEN 3 ELSE IF y \in {0, 98, 99} THEN 2
                      ELSE IF s[0] \in {0, 8} THEN 1 ELSE 0
  BY DEF PrefixSize
<1> HIDE DEF class, x, y
<1>5. class = "buoy" => x = 0
  BY <1>3
<1>6. x = 0 => y = 0 /\ s[2] = 0
  BY <1>2
<1>7. class = "net_marker" => x = 98
  BY <1>3
<1>8. x = 98 => s[0] = 0 /\ s[1] = 9 /\ y = 9
  BY <1>2
<1>9. class \notin {"buoy", "net_marker"} => ClassPrefix(class) = PrefixSize(s)
  <2>1. CASE class \in {"aircraft", "transmitter", "man_overboard", "beacon"}
    <3>1. x \in {111, 970, 972, 974}
      BY <2>1, <1>2, <1>3
    <3> QED
      BY <2>1, <3>1, <1>4 DEF ClassPrefix
  <2>2. CASE class \in {"coastal_station", "aid_to_navigation", "auxiliary_craft"}
    <3>1. y \in {0, 98, 99} /\ x \notin {111, 970, 972, 974}
      BY <2>2, <1>2, <1>3
    <3> QED
      BY <2>2, <3>1, <1>4 DEF ClassPrefix
  <2>3. CASE class \in {"group", "diver"}
    <3>1. s[0] \in {0, 8} /\ y \notin {0, 98, 99} /\ x \notin {111, 970, 972, 974}
      BY <2>3, <1>2, <1>3
    <3> QED
      BY <2>3, <3>1, <1>4 DEF ClassPrefix
  <2>4. CASE class = "ship"
    <3>1. s[0] \notin {0, 8} /\ y \notin {0, 98, 99} /\ x \notin {111, 970, 972, 974}
      BY <2>4, <1>2, <1>3
    <3> QED
      BY <2>4, <3>1, <1>4 DEF ClassPrefix
  <2>5. \/ class \in {"aircraft", "transmitter", "man_overboard", "beacon"}
        \/ class \in {"coastal_station", "aid_to_navigation", "auxiliary_craft"}
        \/ class \in {"group", "diver"} \/ class = "ship" \/ class \in {"buoy", "net_marker"}
    <3>1. class \in {"buoy", "aircraft", "transmitter", "man_overboard", "beacon", "net_marker",
                     "coastal_station", "aid_to_navigation", "auxiliary_craft",
                     "group", "diver", "ship"}
      BY <1>3
    <3> QED
      BY <3>1
  <2> QED
    BY <2>1, <2>2, <2>3, <2>4, <2>5
<1>10. class = "buoy" => PrefixSize(s) = 2 /\ s[2] = 0
  BY <1>4, <1>5, <1>6
<1>11. class = "net_marker" => PrefixSize(s) = 1 /\ s[1] = 9
  BY <1>4, <1>7, <1>8
<1>12. PrefixSize(s) \in {0, 1, 2, 3}
  BY <1>4
<1> QED
  BY <1>9, <1>10, <1>11, <1>12 DEF class

LEMMA CountryOfDigits ==
  ASSUME NEW n \in Nat
  PROVE  LET s == mmsi_to_string(n)
             class == getAisTransmitterClass(s)
         IN  getAisCountryCodes(s) =
               IF class \in {"buoy", "net_marker"} THEN 0
               ELSE LET m == Three(s, ClassPrefix(class))
                    IN  IF m \in DOMAIN vecCountry THEN vecCountry[m] ELSE 0
<1> DEFINE s == mmsi_to_string(n)
           class == getAisTransmitterClass(s)
           m == Three(s, PrefixSize(s))
<1>1. \A i \in 0 .. 8 : s[i] \in 0 .. 9
  BY AreDigits
<1> HIDE DEF s
<1>2. /\ class = "buoy" => PrefixSize(s) = 2 /\ s[2] = 0
      /\ class = "net_marker" => PrefixSize(s) = 1 /\ s[1] = 9
      /\ class \notin {"buoy", "net_marker"} => ClassPrefix(class) = PrefixSize(s)
      /\ PrefixSize(s) \in {0, 1, 2, 3}
  BY <1>1, PrefixOfClass
<1>3. \A k \in {0, 1, 2, 3} :
        /\ Three(s, k) \in 0 .. 999
        /\ s[k] = 0 => Three(s, k) <= 200
        /\ s[k] = 9 => Three(s, k) >= 800
  <2> SUFFICES ASSUME NEW k \in {0, 1, 2, 3}
               PROVE  /\ Three(s, k) \in 0 .. 999
                      /\ s[k] = 0 => Three(s, k) <= 200
                      /\ s[k] = 9 => Three(s, k) >= 800
    OBVIOUS
  <2>1. s[k] \in 0 .. 9 /\ s[k + 1] \in 0 .. 9 /\ s[k + 2] \in 0 .. 9
    BY <1>1
  <2>2. Three(s, k) = 100 * s[k] + 10 * s[k + 1] + s[k + 2]
    BY DEF Three
  <2> QED
    BY <2>1, <2>2, NumberOfDigits
<1>4. /\ m \in 0 .. 999
      /\ class = "buoy" => m <= 200
      /\ class = "net_marker" => m >= 800
  BY <1>2, <1>3
<1>5. /\ getAisCountryCodes(s) = IF m \in DOMAIN vecCountry THEN vecCountry[m] ELSE 0
      /\ m <= 200 \/ m >= 800 => getAisCountryCodes(s) = 0
  BY <1>4, GuardedEntry
<1> QED
  BY <1>2, <1>4, <1>5 DEF s

\* The argument stays an MMSI.
LEMMA MmsiInRange == Spec => [](mmsi \in Nat /\ mmsi <= MaxMmsi)
<1>1. Init => mmsi \in Nat /\ mmsi <= MaxMmsi
  BY SMT DEF Init, MaxMmsi
<1>2. (mmsi \in Nat /\ mmsi <= MaxMmsi) /\ [Next]_vars => (mmsi \in Nat /\ mmsi <= MaxMmsi)'
  <2> SUFFICES ASSUME mmsi \in Nat, mmsi <= MaxMmsi, [Next]_vars
               PROVE  mmsi' \in Nat /\ mmsi' <= MaxMmsi
    BY SMT DEF MaxMmsi
  <2>1. CASE Digit
    <3>1. PICK d \in 0 .. 9 : mmsi' = 10 * mmsi + d
      BY <2>1, UtilsAssumption DEF Digit, UtilsAssumption
    <3>2. mmsi <= 99999999
      BY <2>1, SMT DEF Digit, MaxMmsi
    <3> QED
      BY <3>1, <3>2, SMT DEF MaxMmsi
  <2>2. CASE Letter \/ NextCode \/ UNCHANGED vars
    BY <2>2 DEF Letter, NextCode, vars
  <2> QED
    BY <2>1, <2>2 DEF Next
<1> QED
  BY <1>1, <1>2, PTL DEF Spec

\* mmsi_to_mdi gives the same for a number and for its string (aisutils.cpp:709).
THEOREM MdiAgrees == Spec => []MdiAgree
<1>1. mmsi \in Nat /\ mmsi <= MaxMmsi => MdiAgree
  BY SameMdi DEF MdiAgree
<1> QED
  BY <1>1, MmsiInRange, PTL

\* The country (aisutils.cpp:724) is the one behind the prefix that decides the
\* transmitter class, for each of the 10^9 numbers.
THEOREM CountryFound == Spec => []CountryBehindPrefix
<1>1. mmsi \in Nat => CountryBehindPrefix
  BY CountryOfDigits DEF CountryBehindPrefix
<1> QED
  BY <1>1, MmsiInRange, PTL

(***************************************************************************)
(* Names.                                                                  *)
(***************************************************************************)

\* A set of natural numbers that is not empty has a least element.
LEMMA LeastExists ==
  ASSUME NEW T, T \subseteq Nat, T # {}
  PROVE  \E x \in T : \A y \in T : x <= y
<1> DEFINE R == {ss \in Nat \X Nat : ss[1] < ss[2]}
<1>1. IsWellFoundedOn(R, Nat)
  BY NatLessThanWellFounded DEF OpToRel
<1>2. PICK x \in T : \A y \in T : ~(<<y, x>> \in R)
  <2> HIDE DEF R
  <2> QED
    BY <1>1, WFMin
<1>3. \A y \in T : ~(y < x)
  BY <1>2
<1> QED
  BY <1>3

LEMMA MinIsLeast ==
  ASSUME NEW T, T \subseteq Nat, T # {}
  PROVE  Min(T) \in T /\ \A y \in T : Min(T) <= y
BY LeastExists DEF Min

\* The greatest is the least seen from the other end.
LEMMA MaxIsGreatest ==
  ASSUME NEW n \in Nat, NEW T, T \subseteq 1 .. n, T # {}
  PROVE  Max(T) \in T /\ \A y \in T : Max(T) >= y
<1> DEFINE M == {n - t : t \in T}
<1>1. M \subseteq Nat /\ M # {}
  <2>1. \A t \in T : n - t \in Nat
    OBVIOUS
  <2>2. PICK t \in T : TRUE
    OBVIOUS
  <2>3. n - t \in M
    OBVIOUS
  <2> QED
    BY <2>1, <2>3
<1>2. PICK m \in M : \A y \in M : m <= y
  BY <1>1, LeastExists
<1>3. PICK x \in T : m = n - x
  BY <1>2
<1>4. \A y \in T : n - x <= n - y
  BY <1>2, <1>3
<1>5. \A y \in T : x >= y
  BY <1>4
<1> QED
  BY <1>5 DEF Max

\* stripTrailingAll(str, "@") is what precedes the first "@".
LEMMA AllStripped ==
  ASSUME NEW S, NEW str \in Seq(S)
  PROVE  \E n \in 0 .. Len(str) :
           /\ stripTrailingAll(str, "@") = SubSeq(str, 1, n)
           /\ \A i \in 1 .. n : str[i] # "@"
           /\ n < Len(str) => str[n + 1] = "@"
<1> DEFINE T == {i \in DOMAIN str : str[i] = "@"}
<1>0. DOMAIN str = 1 .. Len(str) /\ Len(str) \in Nat
  OBVIOUS
<1>1. CASE T = {}
  <2>1. stripTrailingAll(str, "@") = SubSeq(str, 1, Len(str))
    BY <1>1, <1>0 DEF stripTrailingAll
  <2>2. \A i \in 1 .. Len(str) : str[i] # "@"
    BY <1>1, <1>0
  <2> QED
    BY <2>1, <2>2, <1>0
<1>2. CASE T # {}
  <2>1. T \subseteq Nat
    BY <1>0
  <2> DEFINE k == Min(T)
  <2>2. k \in T /\ \A y \in T : k <= y
    BY <2>1, <1>2, MinIsLeast
  <2>3. stripTrailingAll(str, "@") = SubSeq(str, 1, k - 1)
    BY <1>2 DEF stripTrailingAll
  <2> HIDE DEF k
  <2>4. k \in 1 .. Len(str) /\ str[k] = "@" /\ \A i \in 1 .. k - 1 : str[i] # "@"
    BY <2>2, <1>0
  <2>5. k - 1 \in 0 .. Len(str) /\ (k - 1) + 1 = k
    BY <2>4, <1>0
  <2> QED
    BY <2>3, <2>4, <2>5
<1> QED
  BY <1>1, <1>2

\* stripTrailingWhitespace(str) ends with the last character that is no blank.
LEMMA BlanksStripped ==
  ASSUME NEW S, NEW str \in Seq(S)
  PROVE  \E m \in 0 .. Len(str) :
           /\ stripTrailingWhitespace(str) = SubSeq(str, 1, m)
           /\ \/ m = Len(str) /\ \A i \in 1 .. m : str[i] = Blank
              \/ m > 0 /\ str[m] # Blank /\ \A i \in m + 1 .. Len(str) : str[i] = Blank
<1> DEFINE T == {i \in DOMAIN str : str[i] # Blank}
<1>0. DOMAIN str = 1 .. Len(str) /\ Len(str) \in Nat
  OBVIOUS
<1>1. CASE T = {}
  <2>1. stripTrailingWhitespace(str) = SubSeq(str, 1, Len(str))
    BY <1>1, <1>0 DEF stripTrailingWhitespace
  <2>2. \A i \in 1 .. Len(str) : str[i] = Blank
    BY <1>1, <1>0
  <2> WITNESS Len(str) \in 0 .. Len(str)
  <2> QED
    BY <2>1, <2>2
<1>2. CASE T # {}
  <2>1. T \subseteq 1 .. Len(str)
    BY <1>0
  <2> DEFINE k == Max(T)
  <2>2. k \in T /\ \A y \in T : k >= y
    BY <2>1, <1>2, <1>0, MaxIsGreatest
  <2>3. stripTrailingWhitespace(str) = SubSeq(str, 1, k)
    BY <1>2 DEF stripTrailingWhitespace
  <2> HIDE DEF k
  <2>4. k \in 1 .. Len(str) /\ str[k] # Blank /\ \A i \in k + 1 .. Len(str) : str[i] = Blank
    BY <2>2, <1>0
  <2> k \in 0 .. Len(str) /\ k > 0
    BY <2>4, <1>0
  <2> WITNESS k \in 0 .. Len(str)
  <2> QED
    BY <2>3, <2>4
<1> QED
  BY <1>1, <1>2

LEMMA CleanNames == name \in Seq(Letters) => NameClean
<1> SUFFICES ASSUME name \in Seq(Letters) PROVE NameClean
  OBVIOUS
<1> DEFINE a == stripTrailingAll(name, "@")
           c == getCleanName(name)
<1>0. Len(name) \in Nat /\ DOMAIN name = 1 .. Len(name)
  OBVIOUS
<1>1. PICK n \in 0 .. Len(name) :
        /\ a = SubSeq(name, 1, n)
        /\ \A i \in 1 .. n : name[i] # "@"
        /\ n < Len(name) => name[n + 1] = "@"
  BY AllStripped
<1>2. a \in Seq(Letters) /\ Len(a) = n /\ \A i \in 1 .. n : a[i] = name[i]
  BY <1>1, <1>0
<1>3. PICK m \in 0 .. Len(a) :
        /\ stripTrailingWhitespace(a) = SubSeq(a, 1, m)
        /\ \/ m = Len(a) /\ \A i \in 1 .. m : a[i] = Blank
           \/ m > 0 /\ a[m] # Blank /\ \A i \in m + 1 .. Len(a) : a[i] = Blank
  BY <1>2, BlanksStripped
<1>4. c = SubSeq(a, 1, m)
  BY <1>3 DEF getCleanName
<1> HIDE DEF a, c
<1>5. c \in Seq(Letters) /\ Len(c) = m /\ m <= n /\ \A i \in 1 .. m : c[i] = name[i]
  BY <1>2, <1>3, <1>4
<1>6. IsPrefix(c, name)
  <2>1. SubSeq(c, 1, m) = SubSeq(name, 1, m)
    BY <1>0, <1>5, <1>1
  <2> QED
    BY <2>1, <1>0, <1>1, <1>5 DEF IsPrefix
<1>7. DOMAIN c = 1 .. m
  BY <1>5
<1>8. "@" \notin ToSet(c)
  BY <1>1, <1>5, <1>7 DEF ToSet
<1>9. c # <<>> /\ Last(c) = Blank => ToSet(c) = {Blank}
  <2> SUFFICES ASSUME c # <<>>, Last(c) = Blank PROVE ToSet(c) = {Blank}
    OBVIOUS
  <2>1. m > 0 /\ c[m] = Blank
    BY <1>5 DEF Last
  <2>2. a[m] = Blank
    BY <2>1, <1>5, <1>2, <1>3
  <2>3. \A i \in 1 .. m : c[i] = Blank
    BY <2>2, <1>2, <1>3, <1>5
  <2> QED
    BY <2>1, <2>3, <1>7 DEF ToSet
<1>10. ASSUME NEW i \in Len(c) + 1 .. Len(name)
       PROVE  name[i] = Blank \/ \E j \in Len(c) + 1 .. i : name[j] = "@"
  <2>1. CASE i <= n
    BY <2>1, <1>0, <1>1, <1>2, <1>3, <1>5
  <2>2. CASE i > n
    <3>1. name[n + 1] = "@" /\ n + 1 \in Len(c) + 1 .. i
      BY <2>2, <1>0, <1>1, <1>5
    <3> QED
      BY <3>1
  <2> QED
    BY <2>1, <2>2, <1>0, <1>1, <1>5
<1> QED
  BY <1>6, <1>8, <1>9, <1>10 DEF NameClean, c

\* getCleanName (aisutils.cpp:778) keeps exactly what precedes the first "@",
\* without the blanks at its end, whatever the letters and the length.
THEOREM NamesClean == Spec => []NameClean
<1>1. Init => name \in Seq(Letters)
  BY DEF Init
<1>2. name \in Seq(Letters) /\ [Next]_vars => (name \in Seq(Letters))'
  BY DEF Next, Digit, Letter, NextCode, vars
<1> QED
  BY <1>1, <1>2, CleanNames, PTL DEF Spec

(***************************************************************************)
(* Vessel classes.                                                         *)
(***************************************************************************)

\* The table of full names has one entry that the other table has too, and it
\* is the same one there.
LEMMA TablesOverlap ==
  ASSUME NEW i \in 0 .. 99, NEW c \in 0 .. 99, VesselFull[i] = VesselShort[c],
         VesselShort[c] # NoClass
  PROVE  VesselShort[i] = VesselFull[i]
<1> DEFINE Shorts == {"WIG", "HSC", "PAS", "CAR", "TNK", "OTH", "FSH", "TOW", "DRG", "DIV", "MIL",
                      "SAL", "PLS", "PIL", "S&R", "TUG", "PRT", "APE", "LAW", "MED", "NCS"}
           Fulls  == {"WING IN GROUND", "HIGH SPEED CRAFT", "PASSENGER", "CARGO", "TANKER", "OTHER",
                      "FISHING", "TOWING", "TOWING LONG", "DREDGING", "DIVING", "MILITARY", "SAILING",
                      "PLEASURE", "PILOT", "SEARCH", "PORT TENDER", "ANTI-POLLUTION",
                      "LAW ENFORCEMENT", "LOCAL", "MEDICAL", "NONCOMBATANT"}
<1>1. \A d \in {2, 4, 6, 7, 8, 9} : Decade[d][1] \in Shorts /\ Decade[d][2] \in Fulls
  BY DEF Decade
<1>2. \A k \in (30 .. 37) \cup (50 .. 59) :
        /\ Single[k][1] \in Shorts \cup {""}
        /\ Single[k][2] \in Fulls \cup {"TUG"}
        /\ Single[k][2] = "TUG" => k = 52
  <2> SUFFICES ASSUME NEW k \in (30 .. 37) \cup (50 .. 59)
               PROVE  /\ Single[k][1] \in Shorts \cup {""}
                      /\ Single[k][2] \in Fulls \cup {"TUG"}
                      /\ Single[k][2] = "TUG" => k = 52
    OBVIOUS
  <2>1. CASE k \in {30, 31, 32, 33}
    BY <2>1 DEF Single
  <2>2. CASE k \in {34, 35, 36, 37}
    BY <2>2 DEF Single
  <2>3. CASE k \in {50, 51, 52, 53}
    BY <2>3 DEF Single
  <2>4. CASE k \in {54, 55, 56, 57}
    BY <2>4 DEF Single
  <2>5. CASE k \in {58, 59}
    BY <2>5 DEF Single
  <2> HIDE DEF Shorts, Fulls
  <2>6. \/ k \in {30, 31, 32, 33} \/ k \in {34, 35, 36, 37} \/ k \in {50, 51, 52, 53}
        \/ k \in {54, 55, 56, 57} \/ k \in {58, 59}
    OBVIOUS
  <2> QED
    BY <2>1, <2>2, <2>3, <2>4, <2>5, <2>6
<1>3. DOMAIN Decade = {2, 4, 6, 7, 8, 9} /\ DOMAIN Single = (30 .. 37) \cup (50 .. 59)
  BY DEF Decade, Single
<1>4. VesselShort[c][1] \in Shorts
  BY <1>1, <1>2, <1>3 DEF VesselShort, NoClass
<1>5. VesselFull[i][1] \in Fulls \cup {"", "TUG"} /\ (VesselFull[i][1] = "TUG" => i = 52)
  BY <1>1, <1>2, <1>3 DEF VesselFull, NoClass
<1>6. Shorts \cap (Fulls \cup {"", "TUG"}) = {"TUG"}
  OBVIOUS
<1>7. i = 52
  BY <1>4, <1>5, <1>6
<1>8. 52 \div 10 = 5 /\ 52 \in DOMAIN Single /\ 5 \notin DOMAIN Decade
  BY <1>3
<1>9. Single[52] = <<"TUG", "TUG">>
  BY DEF Single
<1>10. VesselFull[52] = <<"TUG", "">> /\ VesselShort[52] = <<"TUG", "">>
  <2>1. VesselFull[52] = <<Single[52][2], "">> /\ VesselShort[52] = <<Single[52][1], "">>
    <3>1. \A k \in 0 .. 99 : k \div 10 \notin DOMAIN Decade /\ k \in DOMAIN Single =>
            VesselFull[k] = <<Single[k][2], "">> /\ VesselShort[k] = <<Single[k][1], "">>
      BY DEF VesselFull, VesselShort
    <3>2. 52 \in 0 .. 99 /\ 52 \div 10 \notin DOMAIN Decade
      BY <1>8
    <3> QED
      BY <3>1, <3>2, <1>8
  <2>2. Single[52][1] = "TUG" /\ Single[52][2] = "TUG"
    BY <1>9
  <2> QED
    BY <2>1, <2>2
<1> QED
  BY <1>7, <1>10

\* The code that is found has the name, in the first table that has it.
LEMMA CodeFound ==
  ASSUME NEW str, str # NoClass
  PROVE  LET i == getAisVesselClassCode(str)
         IN  /\ Matching(VesselFull, str) # {} => i \in 0 .. 99 /\ VesselFull[i] = str
             /\ Matching(VesselFull, str) = {} /\ Matching(VesselShort, str) # {}
                  => i \in 0 .. 99 /\ VesselShort[i] = str
<1>1. DOMAIN VesselFull = 0 .. 99 /\ DOMAIN VesselShort = 0 .. 99
  BY DEF VesselFull, VesselShort
<1>2. ASSUME NEW t, DOMAIN t = 0 .. 99, Matching(t, str) # {}
      PROVE  Min(Matching(t, str)) \in 0 .. 99 /\ t[Min(Matching(t, str))] = str
  <2>1. Matching(t, str) \subseteq Nat /\ \A i \in Matching(t, str) : i \in 0 .. 99 /\ t[i] = str
    BY <1>2 DEF Matching
  <2>2. Min(Matching(t, str)) \in Matching(t, str)
    BY <2>1, <1>2, MinIsLeast
  <2> QED
    BY <2>1, <2>2
<1>3. Matching(VesselFull, str) # {} => getAisVesselClassCode(str) = Min(Matching(VesselFull, str))
  BY DEF getAisVesselClassCode
<1>4. Matching(VesselFull, str) = {} /\ Matching(VesselShort, str) # {}
        => getAisVesselClassCode(str) = Min(Matching(VesselShort, str))
  BY DEF getAisVesselClassCode
<1> QED
  BY <1>1, <1>2, <1>3, <1>4

LEMMA ClassesFound == code \in Int => ClassRoundTrip
<1> SUFFICES ASSUME code \in Int PROVE ClassRoundTrip
  OBVIOUS
<1> DEFINE c == IF code < 0 \/ code >= 100 THEN 90 ELSE code
<1>1. c \in 0 .. 99
  OBVIOUS
<1>2. getAisVesselClassFull(code) = VesselFull[c] /\ getAisVesselClassShort(code) = VesselShort[c]
  BY DEF getAisVesselClassFull, getAisVesselClassShort
<1>3. ASSUME NEW i \in 0 .. 99
      PROVE  getAisVesselClassFull(i) = VesselFull[i] /\ getAisVesselClassShort(i) = VesselShort[i]
  BY DEF getAisVesselClassFull, getAisVesselClassShort
<1> HIDE DEF c
<1>4. DOMAIN VesselFull = 0 .. 99 /\ DOMAIN VesselShort = 0 .. 99
  BY DEF VesselFull, VesselShort
<1>5. getAisVesselClassFull(getAisVesselClassCode(NoClass)) = NoClass
      /\ getAisVesselClassShort(getAisVesselClassCode(NoClass)) = NoClass
  <2>1. getAisVesselClassCode(NoClass) = 0
    BY DEF getAisVesselClassCode
  <2>2. 0 \div 10 \notin DOMAIN Decade /\ 0 \notin DOMAIN Single
    BY DEF Decade, Single
  <2>3. VesselFull[0] = NoClass /\ VesselShort[0] = NoClass
    BY <2>2 DEF VesselFull, VesselShort
  <2> QED
    BY <2>1, <2>3, <1>3
<1>6. getAisVesselClassFull(getAisVesselClassCode(VesselFull[c])) = VesselFull[c]
  <2>1. CASE VesselFull[c] = NoClass
    BY <2>1, <1>5
  <2>2. CASE VesselFull[c] # NoClass
    <3> DEFINE str == VesselFull[c]
    <3>1. Matching(VesselFull, str) # {}
      BY <1>1, <1>4 DEF Matching
    <3> HIDE DEF str
    <3>2. getAisVesselClassCode(str) \in 0 .. 99 /\ VesselFull[getAisVesselClassCode(str)] = str
      BY <3>1, <2>2, CodeFound DEF str
    <3>3. getAisVesselClassFull(getAisVesselClassCode(str)) = str
      BY <3>2, <1>3
    <3> QED
      BY <3>3 DEF str
  <2> QED
    BY <2>1, <2>2
<1>7. getAisVesselClassShort(getAisVesselClassCode(VesselShort[c])) = VesselShort[c]
  <2>1. CASE VesselShort[c] = NoClass
    BY <2>1, <1>5
  <2>2. CASE VesselShort[c] # NoClass
    <3> DEFINE str == VesselShort[c]
               i == getAisVesselClassCode(str)
    <3>1. Matching(VesselShort, str) # {}
      BY <1>1, <1>4 DEF Matching
    <3>2. i \in 0 .. 99 /\ (VesselFull[i] = str \/ VesselShort[i] = str)
      BY <3>1, <2>2, CodeFound
    <3>3. VesselShort[i] = str
      BY <3>2, <2>2, <1>1, TablesOverlap
    <3>4. getAisVesselClassShort(i) = str
      BY <3>2, <3>3, <1>3
    <3> QED
      BY <3>4
  <2> QED
    BY <2>1, <2>2
<1> QED
  BY <1>2, <1>6, <1>7 DEF ClassRoundTrip

\* A class name that is looked up by its code leads back to a code with that
\* name (aisutils.cpp:657), although the two tables share a name.
THEOREM ClassesRoundTrip == Spec => []ClassRoundTrip
<1>1. Init => code \in Int
  BY DEF Init
<1>2. code \in Int /\ [Next]_vars => (code \in Int)'
  BY DEF Next, Digit, Letter, NextCode, vars
<1> QED
  BY <1>1, <1>2, ClassesFound, PTL DEF Spec
=============================================================================
