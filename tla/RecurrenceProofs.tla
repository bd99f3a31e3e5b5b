---------------------------- MODULE RecurrenceProofs ---------------------------
(* Theorems about Recurrence, for every calendar, every zone whose clock is   *)
(* set once, and every rule: a next run is one the rule names, and no named   *)
(* day is passed over.                                                        *)
EXTENDS Recurrence, WellFoundedInduction, TLAPS

--------------------------------------------------------------------------------
(* Quotients and remainders.                                                  *)

\* A set of naturals has a least element.
LEMMA LeastNatural ==
  ASSUME NEW S \in SUBSET Nat, S # {}
  PROVE  \E m \in S : \A n \in S : m <= n
PROOF
<1>1. S \subseteq Nat OBVIOUS
<1>2. PICK m \in S : \A n \in S : ~ (<<n, m>> \in OpToRel(<, Nat))
  BY <1>1, NatLessThanWellFounded, WFMin, Zenon
<1>3. ASSUME NEW n \in S PROVE m <= n
  <2>1. n \in Nat /\ m \in Nat OBVIOUS
  <2>2. ~ (n < m) BY <1>2, <2>1, Zenon DEF OpToRel
  <2> QED BY <2>1, <2>2
<1> QED BY <1>3

\* A number is its quotient times the divisor and a remainder.
LEMMA DivMod ==
  ASSUME NEW d \in Nat \ {0}, NEW a \in Int
  PROVE  /\ a = (a \div d) * d + (a % d)
         /\ a % d \in 0 .. d - 1
         /\ a \div d \in Int
PROOF
  OBVIOUS

\* There is no other way to write it so.
LEMMA DivUnique ==
  ASSUME NEW d \in Nat \ {0}, NEW q \in Int, NEW r \in 0 .. d - 1
  PROVE  (q * d + r) \div d = q /\ (q * d + r) % d = r
PROOF
  BY Z3

\* A quotient is found by finding the multiples around the number.
LEMMA DivBetween ==
  ASSUME NEW d \in Nat \ {0}, NEW a \in Int, NEW q \in Int,
         NEW m \in Int, m = q * d, m <= a, a < m + d
  PROVE  a \div d = q
PROOF
<1>1. PICK r \in 0 .. d - 1 : r = a - m OBVIOUS
<1>2. a = q * d + r BY <1>1
<1>3. (q * d + r) \div d = q BY DivUnique
<1> QED BY <1>2, <1>3

\* The laws of multiplication that the next two need.
LEMMA Multiples ==
  ASSUME NEW p \in Int, NEW q \in Int, NEW d \in Nat \ {0}
  PROVE  /\ p * d \in Int /\ (p - q) * d = p * d - q * d
         /\ (p + q) * d = p * d + q * d
         /\ p >= 0 => p * d >= 0
         /\ p < q => p * d + d <= q * d
         /\ (p - 1) * d = p * d - d /\ (p + 1) * d = p * d + d
PROOF
<1>1. p * d \in Int /\ (p - q) * d = p * d - q * d BY SMTT(30)
<1>2. (p + q) * d = p * d + q * d BY SMTT(30)
<1>3. \A n \in Nat : n * d >= 0 BY SMTT(30)
<1>4. ASSUME p < q PROVE (q - p - 1) * d >= 0
  BY <1>3, <1>4
<1>5. (q - p - 1) * d = q * d - p * d - d BY SMTT(30)
<1>6. q * d \in Int BY SMTT(30)
<1>7. (p - 1) * d = p * d - d /\ (p + 1) * d = p * d + d BY SMTT(30)
<1>8. p >= 0 => p * d >= 0 BY <1>3
<1> QED BY <1>1, <1>2, <1>4, <1>5, <1>6, <1>7, <1>8

\* A natural number has a natural quotient.
LEMMA DivNat ==
  ASSUME NEW d \in Nat \ {0}, NEW a \in Nat
  PROVE  a \div d \in Nat
PROOF
<1>1. PICK q \in Int, r \in 0 .. d - 1 : q = a \div d /\ a = q * d + r
  BY DivMod
<1>2. q < 0 => q * d + d <= 0 * d BY Multiples
<1>3. q * d \in Int /\ 0 * d = 0 BY Multiples
<1> QED BY <1>1, <1>2, <1>3

\* Where a number lies that is near a multiple.
LEMMA QuotientNear ==
  \A d \in Nat \ {0} : \A q, m, a \in Int :
    m = q * d =>
      /\ m <= a /\ a < m + d => a \div d = q
      /\ m - d <= a /\ a < m => a \div d = q - 1
      /\ m + d <= a /\ a < m + d + d => a \div d = q + 1
PROOF
<1> SUFFICES ASSUME NEW d \in Nat \ {0}, NEW q \in Int, NEW m \in Int,
                    NEW a \in Int, m = q * d
             PROVE  /\ m <= a /\ a < m + d => a \div d = q
                    /\ m - d <= a /\ a < m => a \div d = q - 1
                    /\ m + d <= a /\ a < m + d + d => a \div d = q + 1
  OBVIOUS
<1>1. PICK b \in Int : b = m - d OBVIOUS
<1>2. PICK c \in Int : c = m + d OBVIOUS
<1>3. b = (q - 1) * d /\ c = (q + 1) * d BY <1>1, <1>2, Multiples
<1>4. m <= a /\ a < m + d => a \div d = q BY DivBetween
<1>5. b <= a /\ a < b + d => a \div d = q - 1 BY <1>3, DivBetween
<1>6. c <= a /\ a < c + d => a \div d = q + 1 BY <1>3, DivBetween
<1>7. m - d <= a /\ a < m => b <= a /\ a < b + d BY <1>1
<1>8. m + d <= a /\ a < m + d + d => c <= a /\ a < c + d BY <1>2
<1> QED BY <1>4, <1>5, <1>6, <1>7, <1>8

\* Numbers with the same remainder are a multiple of the divisor apart.
LEMMA SameRest ==
  ASSUME NEW d \in Nat \ {0}, NEW a \in Int, NEW b \in Int
  PROVE  (a - b) % d = 0 <=> a % d = b % d
PROOF
<1>1. PICK qa \in Int, ra \in 0 .. d - 1 : ra = a % d /\ a = qa * d + ra
  BY DivMod
<1>2. PICK qb \in Int, rb \in 0 .. d - 1 : rb = b % d /\ b = qb * d + rb
  BY DivMod
<1>c. PICK c \in Int : c = a - b OBVIOUS
<1>3. PICK q \in Int, r \in 0 .. d - 1 : r = c % d /\ c = q * d + r
  BY DivMod
<1>4. /\ qa * d \in Int /\ qb * d \in Int /\ q * d \in Int
      /\ (qa - qb) * d = qa * d - qb * d /\ (q + qb) * d = q * d + qb * d
  BY Multiples
<1>5. ASSUME ra = rb PROVE r = 0
  <2>0. c = qa * d - qb * d
    <3>1. a = qa * d + ra /\ b = qb * d + rb BY <1>1, <1>2
    <3> QED BY <1>c, <1>4, <1>5, <3>1
  <2>1. c = (qa - qb) * d + 0 BY <1>4, <2>0
  <2>2. 0 \in 0 .. d - 1 /\ qa - qb \in Int OBVIOUS
  <2> QED BY <1>3, <2>1, <2>2, DivUnique
<1>6. ASSUME r = 0 PROVE ra = rb
  <2>0. a = q * d + b BY <1>c, <1>3, <1>4, <1>6
  <2>1. a = (q + qb) * d + rb BY <1>2, <1>4, <2>0
  <2>2. q + qb \in Int OBVIOUS
  <2> QED BY <1>1, <2>1, <2>2, DivUnique
<1> QED BY <1>c, <1>1, <1>2, <1>3, <1>5, <1>6

\* A larger number has no smaller quotient.
LEMMA DivInOrder ==
  ASSUME NEW d \in Nat \ {0}, NEW a \in Int, NEW b \in Int, a <= b
  PROVE  a \div d <= b \div d
PROOF
<1>1. PICK qa \in Int, ra \in 0 .. d - 1 : qa = a \div d /\ a = qa * d + ra
  BY DivMod
<1>2. PICK qb \in Int, rb \in 0 .. d - 1 : qb = b \div d /\ b = qb * d + rb
  BY DivMod
<1>3. SUFFICES ASSUME qb < qa PROVE FALSE BY <1>1, <1>2
<1>4. qb * d + d <= qa * d /\ qa * d \in Int /\ qb * d \in Int
  BY <1>3, Multiples
<1> QED BY <1>1, <1>2, <1>4

--------------------------------------------------------------------------------
(* The calendar.                                                              *)

\* What is assumed of the calendar, taken apart.
LEMMA CalendarFacts ==
  /\ DayLength \in Nat \ {0} /\ WeekLength \in Nat \ {0}
  /\ YearLength \in Nat \ {0} /\ Months \in Nat \ {0}
  /\ DayTries \in Nat \ {0} /\ MonthTries \in Nat \ {0}
  /\ YearTries \in Nat \ {0}
  /\ FirstDay[0] = 0 /\ \A k \in 0 .. Months : FirstDay[k] \in Nat
  /\ \A k \in 1 .. Months : FirstDay[k - 1] < FirstDay[k]
PROOF
<1>1. ASSUME NEW k \in 1 .. Months PROVE FirstDay[k - 1] < FirstDay[k]
  <2>1. k - 1 \in 0 .. Months - 1 /\ (k - 1) + 1 = k BY CalendarAssumption
  <2> QED BY <2>1, CalendarAssumption
<1> QED BY <1>1, CalendarAssumption

\* Months begin in their order.
LEMMA MonthsGrow ==
  ASSUME NEW j \in 0 .. Months, NEW k \in 0 .. Months, j < k
  PROVE  FirstDay[j] < FirstDay[k]
PROOF
<1> USE CalendarFacts
<1>1. SUFFICES ASSUME FirstDay[k] <= FirstDay[j] PROVE FALSE
  OBVIOUS
<1> DEFINE S == {n \in j + 1 .. Months : FirstDay[n] <= FirstDay[j]}
<1>2. S \in SUBSET Nat /\ k \in S BY <1>1
<1>3. PICK m \in S : \A n \in S : m <= n BY <1>2, LeastNatural
<1>4. m \in 1 .. Months /\ m - 1 \in 0 .. Months /\ m - 1 \notin S BY <1>3
<1>5. FirstDay[m - 1] < FirstDay[m] BY <1>4
<1>6. m - 1 = j \/ FirstDay[m - 1] > FirstDay[j] BY <1>3, <1>4
<1> QED BY <1>3, <1>4, <1>5, <1>6

\* A day lies in one month.
LEMMA MonthIsOne ==
  ASSUME NEW k \in Month, NEW day \in Int,
         FirstDay[k] <= day, day < FirstDay[k + 1]
  PROVE  MonthOf(day) = k
PROOF
<1> USE CalendarFacts DEF Month
<1> DEFINE In(j) == FirstDay[j] <= day /\ day < FirstDay[j + 1]
<1>1. ASSUME NEW j \in Month, In(j) PROVE j = k
  <2>1. CASE j < k
    <3>1. j + 1 = k \/ FirstDay[j + 1] < FirstDay[k] BY <2>1, MonthsGrow
    <3> QED BY <1>1, <3>1
  <2>2. CASE k < j
    <3>1. k + 1 = j \/ FirstDay[k + 1] < FirstDay[j] BY <2>2, MonthsGrow
    <3> QED BY <1>1, <3>1
  <2> QED BY <2>1, <2>2
<1>2. \E j \in Month : In(j) OBVIOUS
<1> HIDE DEF In
<1>3. (CHOOSE j \in Month : In(j)) \in Month /\ In(CHOOSE j \in Month : In(j))
  BY <1>2
<1> QED BY <1>1, <1>3 DEF MonthOf, In

\* A day of the calendar lies in its month.
LEMMA DayInItsMonth ==
  ASSUME NEW day \in 0 .. FirstDay[Months] - 1
  PROVE  /\ MonthOf(day) \in Month
         /\ FirstDay[MonthOf(day)] <= day /\ day < FirstDay[MonthOf(day) + 1]
PROOF
<1> USE CalendarFacts DEF Month
<1> DEFINE S == {n \in 0 .. Months : day < FirstDay[n]}
<1>1. S \in SUBSET Nat /\ Months \in S OBVIOUS
<1>2. PICK m \in S : \A n \in S : m <= n BY <1>1, LeastNatural
<1>3. m # 0 /\ m - 1 \notin S BY <1>2
<1>4. m - 1 \in Month /\ FirstDay[m - 1] <= day /\ day < FirstDay[(m - 1) + 1]
  BY <1>2, <1>3
<1>5. MonthOf(day) = m - 1 BY <1>4, MonthIsOne
<1> QED BY <1>4, <1>5

\* A later day lies in no earlier month, and in no earlier year.
LEMMA MonthsInOrder ==
  ASSUME NEW d \in 0 .. FirstDay[Months] - 1, NEW e \in 0 .. FirstDay[Months] - 1,
         d <= e
  PROVE  MonthOf(d) <= MonthOf(e) /\ YearOf(d) <= YearOf(e)
PROOF
<1> USE CalendarFacts DEF Month
<1>1. MonthOf(d) \in Month /\ FirstDay[MonthOf(d)] <= d BY DayInItsMonth
<1>2. MonthOf(e) \in Month /\ e < FirstDay[MonthOf(e) + 1] BY DayInItsMonth
<1>3. MonthOf(d) <= MonthOf(e)
  <2>1. SUFFICES ASSUME MonthOf(e) < MonthOf(d) PROVE FALSE BY <1>1, <1>2
  <2>2. MonthOf(e) + 1 = MonthOf(d)
        \/ FirstDay[MonthOf(e) + 1] < FirstDay[MonthOf(d)]
    BY <1>1, <1>2, <2>1, MonthsGrow
  <2> QED BY <1>1, <1>2, <2>2
<1> QED BY <1>1, <1>2, <1>3, DivInOrder DEF YearOf

\* What a day of the calendar is called.
LEMMA DateFacts ==
  ASSUME NEW day \in 0 .. FirstDay[Months] - 1
  PROVE  /\ MonthOf(day) \in Month /\ MonthOf(day) \in Int /\ YearOf(day) \in Int
         /\ FirstDay[MonthOf(day)] \in Nat
         /\ MonthOf(day) % YearLength \in 0 .. YearLength - 1
         /\ MonthOf(day)
              = YearOf(day) * YearLength + (MonthOf(day) % YearLength)
         /\ DayOf(day) \in 1 .. Length(MonthOf(day))
         /\ day = FirstDay[MonthOf(day)] + DayOf(day) - 1
PROOF
<1>1. PICK k \in Month : /\ k = MonthOf(day)
                         /\ FirstDay[k] <= day /\ day < FirstDay[k + 1]
  BY DayInItsMonth
<1>2. k \in Int /\ k \in 0 .. Months /\ k + 1 \in 0 .. Months
  BY CalendarFacts DEF Month
<1>3. FirstDay[k] \in Nat /\ FirstDay[k + 1] \in Nat BY <1>2, CalendarFacts
<1>4. /\ k = (k \div YearLength) * YearLength + (k % YearLength)
      /\ k % YearLength \in 0 .. YearLength - 1 /\ k \div YearLength \in Int
  BY <1>2, CalendarFacts, DivMod
<1>5. DayOf(day) = day - FirstDay[k] + 1 BY <1>1 DEF DayOf
<1>6. DayOf(day) \in 1 .. Length(k) /\ day = FirstDay[k] + DayOf(day) - 1
  BY <1>1, <1>3, <1>5 DEF Length
<1> QED BY <1>1, <1>2, <1>3, <1>4, <1>6 DEF YearOf

\* The day that a month and a day of it name.
LEMMA DateIsOne ==
  ASSUME NEW k \in Month, NEW d \in 1 .. Length(k),
         NEW day, day = FirstDay[k] + d - 1
  PROVE  /\ day \in 0 .. FirstDay[Months] - 1
         /\ MonthOf(day) = k /\ DayOf(day) = d
         /\ FirstDay[k] <= day /\ day < FirstDay[k + 1]
PROOF
<1>1. k \in 0 .. Months /\ k + 1 \in 0 .. Months /\ Months \in 0 .. Months
  BY CalendarFacts DEF Month
<1>2. /\ FirstDay[k] \in Nat /\ FirstDay[k + 1] \in Nat
      /\ FirstDay[Months] \in Nat
  BY <1>1, CalendarFacts
<1>3. k + 1 = Months \/ FirstDay[k + 1] < FirstDay[Months]
  BY <1>1, MonthsGrow
<1>4. day \in Int /\ FirstDay[k] <= day /\ day < FirstDay[k + 1]
  BY <1>2 DEF Length
<1>5. MonthOf(day) = k BY <1>4, MonthIsOne
<1> QED BY <1>2, <1>3, <1>4, <1>5 DEF DayOf

--------------------------------------------------------------------------------
(* The clock.                                                                 *)

\* What a zone is: a clock set once, by at most a day.
LEMMA ZoneFacts ==
  ASSUME NEW z \in Zones
  PROVE  /\ z.change \in Int /\ z.before \in Int /\ z.since \in Int
         /\ z.since - z.before >= -DayLength /\ z.since - z.before <= DayLength
         /\ z.before >= 0 => z.since - z.before < DayLength
PROOF
  BY ZoneAssumption, CalendarFacts

\* The local time of a day.
LEMMA LocalTimes ==
  ASSUME NEW day \in Int, NEW time \in 0 .. DayLength - 1
  PROVE  /\ day * DayLength + time \in Int
         /\ (day * DayLength + time) \div DayLength = day
         /\ (day * DayLength + time) % DayLength = time
PROOF
<1>1. day * DayLength \in Int BY CalendarFacts, Multiples
<1>2. time \in Int BY CalendarFacts
<1> QED BY <1>1, <1>2, CalendarFacts, DivUnique

\* time.Date finds the local time if the zone's clock ever shows it, and else a
\* moment at which the clock is off by the change.
LEMMA DateReads ==
  ASSUME NEW z \in Zones, NEW day \in Int, NEW time \in 0 .. DayLength - 1,
         NEW local \in Int, local = day * DayLength + time,
         NEW t, t = Date(z, day, time)
  PROVE  /\ t \in Int /\ Local(z, t) \in Int
         /\ Local(z, t) = local <=> Readings(z, local) # {}
         /\ Local(z, t) = local => t \in Readings(z, local)
         /\ Local(z, t) # local =>
               /\ Local(z, t) \in {local + (z.since - z.before),
                                   local - (z.since - z.before)}
               /\ z.before >= 0 => /\ Local(z, t) = local + (z.since - z.before)
                                   /\ z.since > z.before
PROOF
<1> USE ZoneFacts
<1>1. t = IF \/ Offset(z, local) = 0
             \/ (local - Offset(z, local) < z.change <=> local < z.change)
          THEN local - Offset(z, local)
          ELSE local - Offset(z, local - Offset(z, local))
  BY Zenon DEF Date
<1>2. \A x \in Int : /\ x < z.change => Offset(z, x) = z.before
                     /\ x >= z.change => Offset(z, x) = z.since
  BY DEF Offset
<1>3. t \in {local - z.before, local - z.since}
  BY <1>1, <1>2
<1>4. t \in Int /\ Local(z, t) = t + Offset(z, t) /\ Offset(z, t) \in Int
  BY <1>2, <1>3 DEF Local
<1>5. \A x \in {local - z.before, local - z.since} :
         x \in Readings(z, local) <=> x + Offset(z, x) = local
  BY DEF Readings, Local
<1>6. Readings(z, local) \subseteq {local - z.before, local - z.since}
  BY DEF Readings
<1>7. CASE local < z.change
  <2>1. Offset(z, local) = z.before BY <1>2, <1>7
  <2>2. CASE local - z.before < z.change
    BY <1>1, <1>2, <1>3, <1>4, <1>5, <1>7, <2>1, <2>2
  <2>3. CASE local - z.before >= z.change
    <3>1. z.before < 0 BY <1>7, <2>3
    <3>2. t = local - z.since BY <1>1, <1>2, <1>7, <2>1, <2>3, <3>1
    <3>3. CASE local - z.since < z.change
      <4>1. Local(z, t) = local - (z.since - z.before)
        BY <1>2, <1>4, <3>2, <3>3
      <4>2. local - z.before \notin Readings(z, local)
        BY <1>2, <1>5, <2>3, <3>3
      <4>3. local - z.since \notin Readings(z, local)
        BY <1>2, <1>5, <2>3, <3>3
      <4> QED BY <1>4, <1>6, <2>3, <3>1, <3>3, <4>1, <4>2, <4>3
    <3>4. CASE local - z.since >= z.change
      BY <1>2, <1>3, <1>4, <1>5, <3>2, <3>4
    <3> QED BY <3>3, <3>4
  <2> QED BY <2>2, <2>3
<1>8. CASE local >= z.change
  <2>1. Offset(z, local) = z.since BY <1>2, <1>8
  <2>2. CASE local - z.since >= z.change
    BY <1>1, <1>2, <1>3, <1>4, <1>5, <1>8, <2>1, <2>2
  <2>3. CASE local - z.since < z.change
    <3>1. z.since > 0 BY <1>8, <2>3
    <3>2. t = local - z.before BY <1>1, <1>2, <1>8, <2>1, <2>3, <3>1
    <3>3. CASE local - z.before >= z.change
      <4>1. Local(z, t) = local + (z.since - z.before)
        BY <1>2, <1>4, <3>2, <3>3
      <4>2. local - z.before \notin Readings(z, local)
        BY <1>2, <1>5, <2>3, <3>3
      <4>3. local - z.since \notin Readings(z, local)
        BY <1>2, <1>5, <2>3, <3>3
      <4> QED BY <1>4, <1>6, <2>3, <3>1, <3>3, <4>1, <4>2, <4>3
    <3>4. CASE local - z.before < z.change
      BY <1>2, <1>3, <1>4, <1>5, <3>2, <3>4
    <3> QED BY <3>3, <3>4
  <2> QED BY <2>2, <2>3
<1> QED BY <1>7, <1>8

\* The day that the code takes for this one is this one, if its midnight exists
\* or the zone is not west of Greenwich, and otherwise one next to it.
LEMMA DayFromIsNear ==
  ASSUME NEW z \in Zones, NEW day \in Int
  PROVE  /\ DayFrom(z, day) \in {day - 1, day, day + 1}
         /\ z.before >= 0 \/ Readings(z, day * DayLength) # {}
               => DayFrom(z, day) = day
PROOF
<1> USE CalendarFacts
<1>1. PICK local \in Int : local = day * DayLength
  BY Multiples
<1>2. local = day * DayLength + 0 BY <1>1
<1>3. PICK t : t = Date(z, day, 0) OBVIOUS
<1>4. PICK x : x = Local(z, t) OBVIOUS
<1>5. 0 \in 0 .. DayLength - 1 OBVIOUS
<1>6. /\ x \in Int
      /\ x = local <=> Readings(z, local) # {}
      /\ x # local => /\ x \in {local + (z.since - z.before),
                                local - (z.since - z.before)}
                      /\ z.before >= 0 => /\ x = local + (z.since - z.before)
                                          /\ z.since > z.before
  BY <1>2, <1>3, <1>4, <1>5, DateReads
<1>7. /\ x >= local - DayLength /\ x <= local + DayLength
      /\ z.before >= 0 \/ Readings(z, local) # {}
            => x >= local /\ x < local + DayLength
  BY <1>6, ZoneFacts
<1>8. /\ local <= x /\ x < local + DayLength => x \div DayLength = day
      /\ local - DayLength <= x /\ x < local => x \div DayLength = day - 1
      /\ local + DayLength <= x /\ x < local + DayLength + DayLength
            => x \div DayLength = day + 1
  <2>1. DayLength \in Nat \ {0} /\ x \in Int BY <1>6
  <2> HIDE CalendarFacts
  <2>2. \A q, m, a \in Int :
           m = q * DayLength =>
             /\ m <= a /\ a < m + DayLength => a \div DayLength = q
             /\ m - DayLength <= a /\ a < m => a \div DayLength = q - 1
             /\ m + DayLength <= a /\ a < m + DayLength + DayLength
                   => a \div DayLength = q + 1
    BY <2>1, QuotientNear, Zenon
  <2> QED BY <1>1, <2>1, <2>2, Zenon
<1>9. DayFrom(z, day) = x \div DayLength
  BY <1>3, <1>4 DEF DayFrom, Today
<1>10. DayLength \in Int /\ DayLength > 0 OBVIOUS
<1> HIDE CalendarFacts
<1> QED BY <1>1, <1>6, <1>7, <1>8, <1>9, <1>10

--------------------------------------------------------------------------------
(* Candidates.                                                                *)

\* The readings of a local time are one or two moments, of which one is last.
LEMMA LastReading ==
  ASSUME NEW z \in Zones, NEW local \in Int, Readings(z, local) # {}
  PROVE  /\ Readings(z, local) \subseteq Int
         /\ \A t \in Readings(z, local) :
               t \in {local - z.before, local - z.since}
         /\ Max(Readings(z, local)) \in Readings(z, local)
         /\ \A t \in Readings(z, local) : t <= Max(Readings(z, local))
PROOF
<1> DEFINE S == Readings(z, local)
<1>1. S \subseteq {local - z.before, local - z.since} BY DEF Readings
<1>2. local - z.before \in Int /\ local - z.since \in Int BY ZoneFacts
<1>3. \E m \in S : \A t \in S : m >= t
  <2>1. PICK p \in Int, q \in Int : p = local - z.before /\ q = local - z.since
    BY <1>2
  <2> QED BY <1>1, <2>1
<1>4. Max(S) \in S /\ \A t \in S : Max(S) >= t BY <1>3 DEF Max
<1> QED BY <1>1, <1>2, <1>4

\* A candidate is a later moment at which the clock shows the local time.
LEMMA CandidateReads ==
  ASSUME NEW z \in Zones, NEW day \in Int, NEW time \in 0 .. DayLength - 1,
         NEW t \in Nat, Candidate(z, day, time, t) # Never
  PROVE  LET c == Candidate(z, day, time, t)
         IN  /\ c \in Int /\ c > t
             /\ c \in Readings(z, day * DayLength + time)
             /\ Today(z, c) = day /\ Local(z, c) % DayLength = time
PROOF
<1>1. PICK local \in Int : local = day * DayLength + time BY LocalTimes
<1>2. PICK c : c = Date(z, day, time) OBVIOUS
<1>3. /\ c \in Int
      /\ Local(z, c) = local => c \in Readings(z, local)
  BY <1>1, <1>2, DateReads
<1>4. Candidate(z, day, time, t) = c /\ c > t /\ Local(z, c) = local
  BY <1>1, <1>2 DEF Candidate
<1>5. Today(z, c) = day /\ Local(z, c) % DayLength = time
  BY <1>1, <1>4, LocalTimes DEF Today
<1> QED BY <1>1, <1>3, <1>4, <1>5

\* Where the clock shows the local time, and later each time, it is one.
LEMMA CandidateFound ==
  ASSUME NEW z \in Zones, NEW day \in Int, NEW time \in 0 .. DayLength - 1,
         NEW t \in Nat,
         Readings(z, day * DayLength + time) # {},
         \A x \in Readings(z, day * DayLength + time) : x > t
  PROVE  Candidate(z, day, time, t) # Never
PROOF
<1>1. PICK local \in Int : local = day * DayLength + time BY LocalTimes
<1>2. PICK c : c = Date(z, day, time) OBVIOUS
<1>3. c \in Int /\ Local(z, c) = local /\ c \in Readings(z, local)
  BY <1>1, <1>2, DateReads
<1>4. c > t BY <1>1, <1>3
<1>5. Candidate(z, day, time, t) = c BY <1>1, <1>2, <1>3, <1>4 DEF Candidate
<1> QED BY <1>3, <1>4, <1>5 DEF Never

\* The clock shows the local time of a later day no earlier, as no clock is set
\* by more than a day.
LEMMA ReadingsInOrder ==
  ASSUME NEW z \in Zones, NEW d \in Int, NEW e \in Int, d < e,
         NEW time \in 0 .. DayLength - 1,
         NEW c \in Readings(z, d * DayLength + time),
         NEW m \in Readings(z, e * DayLength + time)
  PROVE  c \in Int /\ m \in Int /\ c <= m
PROOF
<1>1. PICK a \in Int, b \in Int : /\ a = d * DayLength + time
                                  /\ b = e * DayLength + time
  BY LocalTimes
<1>2. a + DayLength <= b
  <2>1. d * DayLength + DayLength <= e * DayLength
        /\ d * DayLength \in Int /\ e * DayLength \in Int
    BY CalendarFacts, Multiples
  <2>2. DayLength \in Int /\ time \in Int BY CalendarFacts
  <2> QED BY <1>1, <2>1, <2>2
<1>3. c \in Int /\ c \in {a - z.before, a - z.since}
  BY <1>1, LastReading
<1>4. m \in Int /\ m \in {b - z.before, b - z.since}
  BY <1>1, LastReading
<1> QED BY <1>2, <1>3, <1>4, ZoneFacts, CalendarFacts

\* The candidate of a day lies before the last reading of a later one.
LEMMA CandidatesInOrder ==
  ASSUME NEW z \in Zones, NEW d \in Int, NEW e \in Int, d <= e,
         NEW time \in 0 .. DayLength - 1, NEW t \in Nat,
         Candidate(z, d, time, t) # Never,
         Readings(z, e * DayLength + time) # {}
  PROVE  Candidate(z, d, time, t) <= Max(Readings(z, e * DayLength + time))
PROOF
<1>1. Candidate(z, d, time, t) \in Readings(z, d * DayLength + time)
  BY CandidateReads
<1>2. e * DayLength + time \in Int BY LocalTimes
<1>3. CASE d = e BY <1>1, <1>2, <1>3, LastReading
<1>4. CASE d < e
  <2>1. Max(Readings(z, e * DayLength + time))
          \in Readings(z, e * DayLength + time)
    BY <1>2, LastReading
  <2> QED BY <1>1, <1>4, <2>1, ReadingsInOrder
<1> QED BY <1>3, <1>4

\* What a loop returns is what one of its places has, and no later one than any
\* that has something.
LEMMA FirstFoundIsFirst ==
  ASSUME NEW n \in Nat \ {0}, NEW found, DOMAIN found = 0 .. n - 1
  PROVE  /\ FirstFound(found) # Never =>
               \E m \in 0 .. n - 1 : FirstFound(found) = found[m]
         /\ \A i \in 0 .. n - 1 : found[i] # Never =>
               \E m \in 0 .. i : found[m] # Never /\ FirstFound(found) = found[m]
PROOF
<1> DEFINE places == {i \in DOMAIN found : found[i] # Never}
<1>1. DOMAIN found = 0 .. n - 1 OBVIOUS
<1>2. ASSUME places # {}
      PROVE  /\ Min(places) \in places
             /\ \A i \in places : Min(places) <= i
  <2>1. places \in SUBSET Nat BY <1>1
  <2>2. \E m \in places : \A i \in places : m <= i BY <1>2, <2>1, LeastNatural
  <2> QED BY <2>2 DEF Min
<1>3. FirstFound(found) = IF places = {} THEN Never ELSE found[Min(places)]
  BY DEF FirstFound
<1>4. ASSUME FirstFound(found) # Never
      PROVE  \E m \in 0 .. n - 1 : FirstFound(found) = found[m]
  BY <1>1, <1>2, <1>3, <1>4
<1>5. ASSUME NEW i \in 0 .. n - 1, found[i] # Never
      PROVE  \E m \in 0 .. i : found[m] # Never /\ FirstFound(found) = found[m]
  <2>1. i \in places BY <1>1, <1>5
  <2>2. Min(places) \in places /\ Min(places) <= i BY <1>2, <2>1
  <2>3. FirstFound(found) = found[Min(places)] BY <1>3, <2>1
  <2>4. Min(places) \in 0 .. i /\ found[Min(places)] # Never BY <1>1, <2>2
  <2> QED BY <2>3, <2>4
<1> QED BY <1>4, <1>5

--------------------------------------------------------------------------------
(* Rules.                                                                     *)

Moment == MinTime .. MaxTime

\* The rules that repeat, as they are stored.
Repeating ==
    [kind : {"daily", "weekly", "monthly", "yearly"},
     interval : Nat, time : 0 .. DayLength - 1, weekdays : SUBSET Int,
     day : Int, month : Int, start : Moment, end : Int, run : Int]

\* The day, month and year that a rule counts from.
First(r, z) == Today(z, r.start)

\* From a moment, every day, month and year a loop tries lies in the calendar.
LEMMA MomentFacts ==
  ASSUME NEW z \in Zones, NEW t \in Moment
  PROVE  /\ t \in Nat /\ Today(z, t) \in Int /\ Today(z, t) >= 0
         /\ Today(z, t) + DayTries - 1 < FirstDay[Months]
         /\ Today(z, t) \in 0 .. FirstDay[Months] - 1
         /\ MonthOf(Today(z, t)) + MonthTries < Months
         /\ (YearOf(Today(z, t)) + YearTries) * YearLength <= Months
         /\ MonthOf(Today(z, t) + DayTries - 1)
              < MonthOf(Today(z, t)) + MonthTries
         /\ YearOf(Today(z, t) + DayTries - 1) < YearOf(Today(z, t)) + YearTries
PROOF
<1>1. t \in Nat BY RuleAssumption DEF Moment
<1>2. Local(z, t) \in Int BY <1>1, ZoneFacts DEF Local, Offset
<1>3. Today(z, t) \in Int BY <1>2, CalendarFacts, DivMod DEF Today
<1>4. /\ Today(z, t) >= 0
      /\ Today(z, t) + DayTries - 1 < FirstDay[Months]
      /\ MonthOf(Today(z, t)) + MonthTries < Months
      /\ (YearOf(Today(z, t)) + YearTries) * YearLength <= Months
      /\ MonthOf(Today(z, t) + DayTries - 1)
           < MonthOf(Today(z, t)) + MonthTries
      /\ YearOf(Today(z, t) + DayTries - 1) < YearOf(Today(z, t)) + YearTries
  BY ReachAssumption DEF Moment
<1>5. Today(z, t) \in 0 .. FirstDay[Months] - 1
  <2>1. FirstDay[Months] \in Nat /\ DayTries \in Nat \ {0} BY CalendarFacts
  <2>2. Today(z, t) + DayTries - 1 < FirstDay[Months] /\ Today(z, t) >= 0
    BY <1>4
  <2> QED BY <1>3, <2>1, <2>2
<1> QED BY <1>1, <1>3, <1>4, <1>5

\* A repeating rule has an interval of at least one, counted from its first day.
LEMMA RuleFacts ==
  ASSUME NEW r \in Repeating, NEW z \in Zones, NEW t
  PROVE  /\ Interval(r) \in Nat \ {0} /\ r.time \in 0 .. DayLength - 1
         /\ r.day \in Int /\ r.month \in Int
         /\ Anchor(r, z, t) = First(r, z)
         /\ First(r, z) \in 0 .. FirstDay[Months] - 1
PROOF
<1>1. r.start \in Moment /\ r.start # None
  BY RuleAssumption DEF Repeating, Moment, None
<1>2. Interval(r) \in Nat \ {0} BY DEF Repeating, Interval
<1> QED BY <1>1, <1>2, MomentFacts DEF Repeating, Anchor, First

\* What it takes for a rule of each kind to name a day.
Every(r, n) == n >= 0 /\ n % Interval(r) = 0

\* A daily rule names every so many days.
LEMMA FallsDaily ==
  ASSUME NEW r \in Repeating, r.kind = "daily", NEW z, NEW day
  PROVE  Falls(r, z, day) <=> Every(r, day - First(r, z))
PROOF
  BY DEF Falls, Every, First

\* A weekly rule names its weekdays, or the first one, every so many weeks.
LEMMA FallsWeekly ==
  ASSUME NEW r \in Repeating, r.kind = "weekly", NEW z, NEW day
  PROVE  Falls(r, z, day) <=>
            /\ day - First(r, z) >= 0
            /\ Every(r, (day - First(r, z)) \div WeekLength)
            /\ \/ day % WeekLength \in Weekdays(r)
               \/ Weekdays(r) = {} /\ (day - First(r, z)) % WeekLength = 0
PROOF
  BY DEF Falls, Every, First

DayNamed(r, z) == IF r.day = 0 THEN DayOf(First(r, z)) ELSE r.day
MonthNamed(r, z) ==
    IF r.month = 0 THEN MonthOf(First(r, z)) % YearLength ELSE r.month - 1

\* A monthly rule names one day of every so many months.
LEMMA FallsMonthly ==
  ASSUME NEW r \in Repeating, r.kind = "monthly", NEW z, NEW day
  PROVE  Falls(r, z, day) <=>
            /\ Every(r, MonthOf(day) - MonthOf(First(r, z)))
            /\ DayOf(day) = DayNamed(r, z)
PROOF
  BY DEF Falls, Every, First, DayNamed

\* A yearly rule names one day of one month of every so many years.
LEMMA FallsYearly ==
  ASSUME NEW r \in Repeating, r.kind = "yearly", NEW z \in Zones,
         NEW day \in 0 .. FirstDay[Months] - 1
  PROVE  Falls(r, z, day) <=>
            /\ Every(r, YearOf(day) - YearOf(First(r, z)))
            /\ MonthOf(day) % YearLength = MonthNamed(r, z)
            /\ DayOf(day) = DayNamed(r, z)
PROOF
<1>1. /\ MonthOf(day) % YearLength \in Int
      /\ MonthOf(First(r, z)) % YearLength \in Int
  <2>1. First(r, z) \in 0 .. FirstDay[Months] - 1 BY RuleFacts
  <2> QED BY <2>1, DateFacts
<1>2. r.month \in Int BY RuleFacts
<1>3. Falls(r, z, day) <=>
         /\ Every(r, YearOf(day) - YearOf(First(r, z)))
         /\ (MonthOf(day) % YearLength) + 1 =
               IF r.month = 0 THEN (MonthOf(First(r, z)) % YearLength) + 1
                              ELSE r.month
         /\ DayOf(day) = DayNamed(r, z)
  BY DEF Falls, Every, First, DayNamed
<1> QED BY <1>1, <1>2, <1>3 DEF MonthNamed

--------------------------------------------------------------------------------
(* What a place of a loop has is named by the rule.                           *)

\* The loop over days: what it finds is the reading of a day the rule names.
LEMMA OnDayIsNamed ==
  ASSUME NEW r \in Repeating, r.kind \in {"daily", "weekly"},
         NEW z \in Zones, NEW t \in Moment, NEW i \in Nat,
         OnDay(r, z, t, i) # Never
  PROVE  LET day == DayFrom(z, Today(z, t) + i)
         IN  /\ day \in Int /\ Falls(r, z, day)
             /\ OnDay(r, z, t, i) = Candidate(z, day, r.time, t)
PROOF
<1>1. PICK day \in Int : day = DayFrom(z, Today(z, t) + i)
  <2>1. PICK n \in Int : n = Today(z, t) + i BY MomentFacts
  <2>2. n - 1 \in Int /\ n + 1 \in Int OBVIOUS
  <2> QED BY <2>1, <2>2, DayFromIsNear
<1>2. PICK first \in Int : first = First(r, z) BY RuleFacts
<1>3. Anchor(r, z, t) = first BY <1>2, RuleFacts
<1>4. /\ day - first >= 0
      /\ IF r.kind = "daily" THEN (day - first) % Interval(r) = 0
         ELSE /\ ((day - first) \div WeekLength) % Interval(r) = 0
              /\ day % WeekLength \in
                    IF Weekdays(r) = {} THEN {first % WeekLength} ELSE Weekdays(r)
      /\ OnDay(r, z, t, i) = Candidate(z, day, r.time, t)
  BY <1>1, <1>3, Zenon DEF OnDay
<1>5. CASE r.kind = "daily"
  BY <1>1, <1>2, <1>4, <1>5, FallsDaily DEF Every
<1>6. CASE r.kind = "weekly"
  <2>1. Every(r, (day - first) \div WeekLength)
    <3>1. PICK days \in Nat : days = day - first BY <1>4
    <3>2. days \div WeekLength \in Nat BY CalendarFacts, DivNat
    <3> QED BY <1>4, <1>6, <3>1, <3>2 DEF Every
  <2>2. Weekdays(r) = {} => (day - first) % WeekLength = 0
    BY <1>4, <1>6, CalendarFacts, SameRest
  <2>3. Weekdays(r) # {} => day % WeekLength \in Weekdays(r)
    BY <1>4, <1>6
  <2> QED BY <1>1, <1>2, <1>4, <1>6, <2>1, <2>2, <2>3, FallsWeekly
<1> QED BY <1>5, <1>6

\* In a month of the calendar a rule finds the day that it names, if there is
\* one.
LEMMA InMonthIsNamed ==
  ASSUME NEW r \in Repeating, NEW z \in Zones, NEW t \in Moment,
         NEW k \in Month, InMonth(r, z, t, k) # Never
  PROVE  LET day == FirstDay[k] + DayNamed(r, z) - 1
         IN  /\ day \in 0 .. FirstDay[Months] - 1
             /\ DayNamed(r, z) \in 1 .. Length(k)
             /\ MonthOf(day) = k /\ DayOf(day) = DayNamed(r, z)
             /\ InMonth(r, z, t, k) = Candidate(z, day, r.time, t)
PROOF
<1>1. DayNamed(r, z) =
         IF r.day = 0 THEN DayOf(Anchor(r, z, t)) ELSE r.day
  BY RuleFacts DEF DayNamed
<1>2. /\ DayNamed(r, z) \in 1 .. Length(k)
      /\ InMonth(r, z, t, k)
           = Candidate(z, FirstDay[k] + DayNamed(r, z) - 1, r.time, t)
  BY <1>1, Zenon DEF InMonth
<1> QED BY <1>2, DateIsOne

\* The month that the code takes for the i-th one.
MonthFrom(z, t, i) == MonthOf(DayFrom(z, FirstDay[MonthOf(Today(z, t)) + i]))

\* The month i months on is the one meant, or the next when midnight is skipped.
LEMMA MonthFromIsNear ==
  ASSUME NEW z \in Zones, NEW t \in Moment, NEW i \in 0 .. MonthTries - 1
  PROVE  LET k == MonthOf(Today(z, t)) + i
         IN  /\ k \in Month /\ MonthFrom(z, t, i) \in Month
             /\ MonthFrom(z, t, i) <= k + 1
             /\ z.before >= 0 \/ Readings(z, FirstDay[k] * DayLength) # {}
                   => MonthFrom(z, t, i) = k
PROOF
<1>1. PICK k : k = MonthOf(Today(z, t)) + i OBVIOUS
<1>2. /\ k \in Month /\ k + 1 \in Month /\ k \in Int
      /\ {k, k + 1, k + 2} \subseteq 0 .. Months
  <2>1. MonthOf(Today(z, t)) \in Month BY MomentFacts, DateFacts
  <2>2. MonthOf(Today(z, t)) + MonthTries < Months BY MomentFacts
  <2>3. MonthTries \in Nat \ {0} /\ Months \in Nat BY CalendarFacts
  <2> QED BY <1>1, <2>1, <2>2, <2>3 DEF Month
<1>3. /\ FirstDay[k] \in Nat /\ FirstDay[k + 1] \in Nat
      /\ FirstDay[k + 2] \in Nat /\ FirstDay[Months] \in Nat
      /\ FirstDay[k] < FirstDay[k + 1] /\ FirstDay[k + 1] < FirstDay[k + 2]
      /\ FirstDay[k + 2] <= FirstDay[Months]
  <2>1. Months \in 0 .. Months BY CalendarFacts
  <2>2. k < k + 1 /\ k + 1 < k + 2 /\ (k + 2 < Months \/ k + 2 = Months)
    BY <1>2, CalendarFacts
  <2>3. k \in 0 .. Months /\ k + 1 \in 0 .. Months /\ k + 2 \in 0 .. Months
    BY <1>2
  <2>4. /\ FirstDay[k] \in Nat /\ FirstDay[k + 1] \in Nat
        /\ FirstDay[k + 2] \in Nat /\ FirstDay[Months] \in Nat
    BY <2>1, <2>3, CalendarFacts
  <2>5. FirstDay[k] < FirstDay[k + 1] /\ FirstDay[k + 1] < FirstDay[k + 2]
    BY <2>2, <2>3, MonthsGrow
  <2>6. k + 2 < Months => FirstDay[k + 2] < FirstDay[Months]
    BY <2>1, <2>3, MonthsGrow
  <2> QED BY <2>2, <2>4, <2>5, <2>6
<1>4. PICK day : day = DayFrom(z, FirstDay[k]) OBVIOUS
<1>5. day \in 0 .. FirstDay[Months] - 1 /\ day <= FirstDay[k] + 1
  <2>1. day \in {FirstDay[k] - 1, FirstDay[k], FirstDay[k] + 1}
    BY <1>3, <1>4, DayFromIsNear
  <2>2. FirstDay[k] = 0 => day = 0 BY <1>4, ReachAssumption
  <2> QED BY <1>3, <2>1, <2>2
<1>6. MonthOf(day) \in Month BY <1>5, DateFacts
<1>7. MonthOf(day) <= k + 1
  <2>1. PICK e : e = FirstDay[k + 1] OBVIOUS
  <2>2. MonthOf(e) = k + 1
    <3>1. FirstDay[(k + 1) + 1] = FirstDay[k + 2] BY <1>2
    <3> QED BY <1>2, <1>3, <2>1, <3>1, MonthIsOne
  <2>3. e \in 0 .. FirstDay[Months] - 1 /\ day <= e BY <1>3, <1>5, <2>1
  <2> QED BY <1>5, <2>2, <2>3, MonthsInOrder
<1>8. ASSUME z.before >= 0 \/ Readings(z, FirstDay[k] * DayLength) # {}
      PROVE  MonthOf(day) = k
  <2>1. day = FirstDay[k] BY <1>3, <1>4, <1>8, DayFromIsNear
  <2> QED BY <1>2, <1>3, <2>1, MonthIsOne
<1>9. MonthFrom(z, t, i) = MonthOf(day) BY <1>1, <1>4 DEF MonthFrom
<1> QED BY <1>1, <1>2, <1>6, <1>7, <1>8, <1>9

\* A month of a year that a rule looks at is in the calendar.
LEMMA MonthOfYear ==
  ASSUME NEW z \in Zones, NEW t \in Moment, NEW i \in 0 .. YearTries - 1,
         NEW m \in 0 .. YearLength - 1,
         NEW k, k = (YearOf(Today(z, t)) + i) * YearLength + m
  PROVE  /\ k \in Month /\ k % YearLength = m
         /\ k \div YearLength = YearOf(Today(z, t)) + i
PROOF
<1>1. PICK d \in Nat \ {0} : d = YearLength BY CalendarFacts
<1>2. YearOf(Today(z, t)) \in Int /\ YearOf(Today(z, t)) >= 0
  <2>1. Today(z, t) \in 0 .. FirstDay[Months] - 1 BY MomentFacts
  <2>2. PICK n \in Nat : n = MonthOf(Today(z, t))
    BY <2>1, DateFacts DEF Month
  <2>3. n \div d \in Nat BY DivNat
  <2> QED BY <1>1, <2>2, <2>3 DEF YearOf
<1>3. PICK y \in Int : y = YearOf(Today(z, t)) BY <1>2
<1>4. PICK q \in Int : q = y + i OBVIOUS
<1>5. k = q * d + m /\ m \in 0 .. d - 1 BY <1>1, <1>3, <1>4
<1>6. k \div d = q /\ k % d = m BY <1>5, DivUnique
<1>7. q * d \in Int /\ q * d >= 0
  <2>1. q \in Nat BY <1>2, <1>3, <1>4
  <2> QED BY <2>1, Multiples
<1>8. q * d + d <= Months
  <2>1. PICK p \in Int : p = y + YearTries BY CalendarFacts
  <2>2. p * d <= Months BY <1>1, <1>3, <2>1, MomentFacts
  <2>3. q < p BY <1>4, <2>1, CalendarFacts
  <2>4. q * d + d <= p * d /\ p * d \in Int BY <2>3, Multiples
  <2> QED BY <1>7, <2>2, <2>4, CalendarFacts
<1>9. k \in Month BY <1>5, <1>7, <1>8, CalendarFacts DEF Month
<1> QED BY <1>1, <1>3, <1>4, <1>6, <1>9

\* The loop over months: what it finds is the reading of a day the rule names.
LEMMA OnMonthIsNamed ==
  ASSUME NEW r \in Repeating, r.kind = "monthly",
         NEW z \in Zones, NEW t \in Moment, NEW i \in 0 .. MonthTries - 1,
         OnMonth(r, z, t, i) # Never
  PROVE  \E day \in 0 .. FirstDay[Months] - 1 :
            /\ Falls(r, z, day) /\ MonthOf(day) = MonthFrom(z, t, i)
            /\ OnMonth(r, z, t, i) = Candidate(z, day, r.time, t)
PROOF
<1>1. PICK k \in Month : k = MonthFrom(z, t, i) BY MonthFromIsNear
<1>2. Anchor(r, z, t) = First(r, z) BY RuleFacts
<1>3. /\ k - MonthOf(First(r, z)) >= 0
      /\ (k - MonthOf(First(r, z))) % Interval(r) = 0
      /\ OnMonth(r, z, t, i) = InMonth(r, z, t, k)
  BY <1>1, <1>2, Zenon DEF OnMonth, MonthFrom
<1>4. PICK day \in 0 .. FirstDay[Months] - 1 :
         /\ MonthOf(day) = k /\ DayOf(day) = DayNamed(r, z)
         /\ InMonth(r, z, t, k) = Candidate(z, day, r.time, t)
  BY <1>3, InMonthIsNamed
<1>5. Falls(r, z, day) BY <1>3, <1>4, FallsMonthly DEF Every
<1> QED BY <1>1, <1>3, <1>4, <1>5

\* The loop over years: what it finds is the reading of a day the rule names.
LEMMA OnYearIsNamed ==
  ASSUME NEW r \in Repeating, r.kind = "yearly",
         NEW z \in Zones, NEW t \in Moment, NEW i \in 0 .. YearTries - 1,
         OnYear(r, z, t, i) # Never
  PROVE  /\ MonthNamed(r, z) \in 0 .. YearLength - 1
         /\ \E day \in 0 .. FirstDay[Months] - 1 :
               /\ Falls(r, z, day)
               /\ MonthOf(day) = (YearOf(Today(z, t)) + i) * YearLength
                                    + MonthNamed(r, z)
               /\ OnYear(r, z, t, i) = Candidate(z, day, r.time, t)
PROOF
<1>1. PICK year : year = YearOf(Today(z, t)) + i OBVIOUS
<1>2. PICK m : m = MonthNamed(r, z) OBVIOUS
<1>3. Anchor(r, z, t) = First(r, z) BY RuleFacts
<1>4. m = IF r.month = 0 THEN MonthOf(Anchor(r, z, t)) % YearLength
                         ELSE r.month - 1
  BY <1>2, <1>3 DEF MonthNamed
<1>5. /\ year - YearOf(First(r, z)) >= 0
      /\ (year - YearOf(First(r, z))) % Interval(r) = 0
      /\ m \in 0 .. YearLength - 1
      /\ OnYear(r, z, t, i) = InMonth(r, z, t, year * YearLength + m)
  BY <1>1, <1>3, <1>4, Zenon DEF OnYear
<1>6. PICK k \in Month : /\ k = year * YearLength + m
                         /\ k \div YearLength = year /\ k % YearLength = m
  BY <1>1, <1>5, MonthOfYear
<1>7. PICK day \in 0 .. FirstDay[Months] - 1 :
         /\ MonthOf(day) = k /\ DayOf(day) = DayNamed(r, z)
         /\ InMonth(r, z, t, k) = Candidate(z, day, r.time, t)
  BY <1>5, <1>6, InMonthIsNamed
<1>8. YearOf(day) = year /\ MonthOf(day) % YearLength = MonthNamed(r, z)
  BY <1>2, <1>6, <1>7 DEF YearOf
<1>9. Falls(r, z, day) BY <1>5, <1>7, <1>8, FallsYearly DEF Every
<1> QED BY <1>1, <1>2, <1>5, <1>6, <1>7, <1>9

\* A next run is the candidate of a day that the rule names.
LEMMA NextIsNamed ==
  ASSUME NEW r \in Repeating, NEW z \in Zones, NEW t \in Moment,
         NextOf(r, z, t) # Never
  PROVE  \E day \in Int : /\ Falls(r, z, day)
                          /\ NextOf(r, z, t) = Candidate(z, day, r.time, t)
PROOF
<1>1. CASE r.kind \in {"daily", "weekly"}
  <2> DEFINE found == [i \in 0 .. DayTries - 1 |-> OnDay(r, z, t, i)]
  <2>1. NextOf(r, z, t) = FirstFound(found) BY <1>1 DEF NextOf
  <2>2. DOMAIN found = 0 .. DayTries - 1 OBVIOUS
  <2> HIDE DEF found
  <2>3. PICK m \in 0 .. DayTries - 1 : NextOf(r, z, t) = found[m]
    BY <2>1, <2>2, CalendarFacts, FirstFoundIsFirst
  <2>4. found[m] = OnDay(r, z, t, m) BY DEF found
  <2> QED BY <1>1, <2>3, <2>4, OnDayIsNamed
<1>2. CASE r.kind = "monthly"
  <2> DEFINE found == [i \in 0 .. MonthTries - 1 |-> OnMonth(r, z, t, i)]
  <2>1. NextOf(r, z, t) = FirstFound(found) BY <1>2 DEF NextOf
  <2>2. DOMAIN found = 0 .. MonthTries - 1 OBVIOUS
  <2> HIDE DEF found
  <2>3. PICK m \in 0 .. MonthTries - 1 : NextOf(r, z, t) = found[m]
    BY <2>1, <2>2, CalendarFacts, FirstFoundIsFirst
  <2>4. found[m] = OnMonth(r, z, t, m) BY DEF found
  <2> QED BY <1>2, <2>3, <2>4, OnMonthIsNamed
<1>3. CASE r.kind = "yearly"
  <2> DEFINE found == [i \in 0 .. YearTries - 1 |-> OnYear(r, z, t, i)]
  <2>1. NextOf(r, z, t) = FirstFound(found) BY <1>3 DEF NextOf
  <2>2. DOMAIN found = 0 .. YearTries - 1 OBVIOUS
  <2> HIDE DEF found
  <2>3. PICK m \in 0 .. YearTries - 1 : NextOf(r, z, t) = found[m]
    BY <2>1, <2>2, CalendarFacts, FirstFoundIsFirst
  <2>4. found[m] = OnYear(r, z, t, m) BY DEF found
  <2> QED BY <1>3, <2>3, <2>4, OnYearIsNamed
<1> QED BY <1>1, <1>2, <1>3 DEF Repeating

--------------------------------------------------------------------------------
(* A day that the rule names is found, and nothing after it before it.        *)

\* The days of which NextIsFirst speaks.
ToBeFound(r, z, t, day) ==
    LET times == Readings(z, day * DayLength + r.time)
    IN  /\ Falls(r, z, day) /\ ~MidnightMissed(r, z, day)
        /\ times # {} /\ \A x \in times : x > t

Last(r, z, day) == Max(Readings(z, day * DayLength + r.time))

\* The day that a rule names has a candidate, and the candidates of the days
\* before it come no later.
LEMMA ToBeFoundFacts ==
  ASSUME NEW r \in Repeating, NEW z \in Zones, NEW t \in Moment, NEW day \in Int,
         ToBeFound(r, z, t, day)
  PROVE  /\ Candidate(z, day, r.time, t) # Never
         /\ \A d \in Int : d <= day /\ Candidate(z, d, r.time, t) # Never
               => Candidate(z, d, r.time, t) <= Last(r, z, day)
PROOF
<1> USE MomentFacts, RuleFacts DEF ToBeFound
<1>1. t \in Nat /\ r.time \in 0 .. DayLength - 1 OBVIOUS
<1>2. Candidate(z, day, r.time, t) # Never BY <1>1, CandidateFound
<1>3. ASSUME NEW d \in Int, d <= day, Candidate(z, d, r.time, t) # Never
      PROVE  Candidate(z, d, r.time, t) <= Last(r, z, day)
  BY <1>1, <1>3, CandidatesInOrder DEF Last
<1> QED BY <1>2, <1>3

\* The loop over days stops no later than at a day the rule names.
LEMMA DayIsFound ==
  ASSUME NEW r \in Repeating, r.kind \in {"daily", "weekly"},
         NEW z \in Zones, NEW t \in Moment, NEW day \in Int,
         Today(z, t) <= day, ToBeFound(r, z, t, day)
  PROVE  /\ OnDay(r, z, t, day - Today(z, t)) # Never
         /\ \A i \in 0 .. day - Today(z, t) :
               OnDay(r, z, t, i) # Never => OnDay(r, z, t, i) <= Last(r, z, day)
PROOF
<1>1. PICK today \in Int : today = Today(z, t) /\ today <= day BY MomentFacts
<1>2. DayFrom(z, today + (day - today)) = day
  <2>1. z.before >= 0 \/ Readings(z, day * DayLength) # {}
    <3>1. z.before < 0 \/ z.before >= 0 BY ZoneFacts
    <3> QED BY <3>1 DEF ToBeFound, MidnightMissed
  <2>2. today + (day - today) = day OBVIOUS
  <2> QED BY <2>1, <2>2, DayFromIsNear
<1>3. PICK first \in Int : first = First(r, z) /\ first = Anchor(r, z, t)
  BY RuleFacts
<1>4. /\ day - first >= 0
      /\ IF r.kind = "daily" THEN (day - first) % Interval(r) = 0
         ELSE /\ ((day - first) \div WeekLength) % Interval(r) = 0
              /\ day % WeekLength \in
                    IF Weekdays(r) = {} THEN {first % WeekLength} ELSE Weekdays(r)
  <2>1. CASE r.kind = "daily"
    BY <1>3, <2>1, FallsDaily DEF ToBeFound, Every
  <2>2. CASE r.kind = "weekly"
    <3>1. /\ day - first >= 0
          /\ ((day - first) \div WeekLength) % Interval(r) = 0
          /\ \/ day % WeekLength \in Weekdays(r)
             \/ Weekdays(r) = {} /\ (day - first) % WeekLength = 0
      BY <1>3, <2>2, FallsWeekly DEF ToBeFound, Every
    <3>2. (day - first) % WeekLength = 0 => day % WeekLength = first % WeekLength
      BY CalendarFacts, SameRest
    <3> QED BY <2>2, <3>1, <3>2
  <2> QED BY <2>1, <2>2
<1>5. OnDay(r, z, t, day - today) = Candidate(z, day, r.time, t)
  BY <1>1, <1>2, <1>3, <1>4, Zenon DEF OnDay
<1>6. OnDay(r, z, t, day - today) # Never BY <1>5, ToBeFoundFacts
<1>7. ASSUME NEW i \in 0 .. day - today, OnDay(r, z, t, i) # Never
      PROVE  OnDay(r, z, t, i) <= Last(r, z, day)
  <2>1. PICK n \in Int : n = today + i OBVIOUS
  <2>2. PICK d : d = DayFrom(z, n) OBVIOUS
  <2>3. i \in Nat BY <1>1
  <2>4. d \in Int /\ OnDay(r, z, t, i) = Candidate(z, d, r.time, t)
    BY <1>1, <1>7, <2>1, <2>2, <2>3, OnDayIsNamed
  <2>5. d <= day
    <3>1. CASE n = day BY <1>1, <1>2, <2>2, <3>1
    <3>2. CASE n < day BY <2>2, <3>2, DayFromIsNear
    <3> QED BY <1>1, <2>1, <3>1, <3>2
  <2> QED BY <1>7, <2>4, <2>5, ToBeFoundFacts
<1> QED BY <1>1, <1>6, <1>7

\* The loop over months stops no later than at a day the rule names.
LEMMA MonthIsFound ==
  ASSUME NEW r \in Repeating, r.kind = "monthly",
         NEW z \in Zones, NEW t \in Moment, NEW day \in Int,
         Today(z, t) <= day, day <= Today(z, t) + DayTries - 1,
         ToBeFound(r, z, t, day)
  PROVE  \E i \in 0 .. MonthTries - 1 :
            /\ OnMonth(r, z, t, i) # Never
            /\ \A m \in 0 .. i :
                  OnMonth(r, z, t, m) # Never
                     => OnMonth(r, z, t, m) <= Last(r, z, day)
PROOF
<1>1. PICK last \in Int : last = Today(z, t) + DayTries - 1
  BY MomentFacts, CalendarFacts
<1>2. /\ Today(z, t) \in 0 .. FirstDay[Months] - 1
      /\ last \in 0 .. FirstDay[Months] - 1
      /\ day \in 0 .. FirstDay[Months] - 1
  BY <1>1, MomentFacts, CalendarFacts
<1>3. PICK from \in Int : from = MonthOf(Today(z, t)) BY <1>2, DateFacts
<1>4. PICK k \in Month : k = MonthOf(day) BY <1>2, DateFacts
<1>5. k \in Int /\ from <= k /\ k < from + MonthTries
  <2>1. MonthOf(last) \in Int BY <1>2, DateFacts
  <2>2. from <= k BY <1>2, <1>3, <1>4, MonthsInOrder
  <2>3. k <= MonthOf(last) BY <1>1, <1>2, <1>4, MonthsInOrder
  <2>4. MonthOf(last) < from + MonthTries BY <1>1, <1>3, MomentFacts
  <2> QED BY <2>1, <2>2, <2>3, <2>4, <1>3, CalendarFacts DEF Month
<1>6. PICK i \in 0 .. MonthTries - 1 : i = k - from /\ from + i = k
  BY <1>5, CalendarFacts
<1>7. MonthFrom(z, t, i) = k
  <2>1. z.before >= 0 \/ Readings(z, FirstDay[k] * DayLength) # {}
    <3>1. z.before < 0 \/ z.before >= 0 BY ZoneFacts
    <3> QED BY <1>4, <3>1 DEF ToBeFound, MidnightMissed
  <2> QED BY <1>3, <1>6, <2>1, MonthFromIsNear
<1>8. /\ k - MonthOf(First(r, z)) >= 0
      /\ (k - MonthOf(First(r, z))) % Interval(r) = 0
      /\ DayOf(day) = DayNamed(r, z)
  BY <1>4, FallsMonthly DEF ToBeFound, Every
<1>9. Anchor(r, z, t) = First(r, z) BY RuleFacts
<1>10. OnMonth(r, z, t, i) = InMonth(r, z, t, k)
  BY <1>7, <1>8, <1>9, Zenon DEF OnMonth, MonthFrom
<1>11. InMonth(r, z, t, k) = Candidate(z, day, r.time, t)
  <2>1. /\ DayNamed(r, z) \in 1 .. Length(k)
        /\ FirstDay[k] + DayNamed(r, z) - 1 = day
    BY <1>2, <1>4, <1>8, DateFacts
  <2>2. DayNamed(r, z) =
           IF r.day = 0 THEN DayOf(Anchor(r, z, t)) ELSE r.day
    BY <1>9 DEF DayNamed
  <2> QED BY <2>1, <2>2, Zenon DEF InMonth
<1>12. OnMonth(r, z, t, i) # Never BY <1>10, <1>11, ToBeFoundFacts
<1>13. ASSUME NEW m \in 0 .. i, OnMonth(r, z, t, m) # Never
       PROVE  OnMonth(r, z, t, m) <= Last(r, z, day)
  <2>1. m \in 0 .. MonthTries - 1 BY CalendarFacts
  <2>2. PICK d \in 0 .. FirstDay[Months] - 1 :
           /\ Falls(r, z, d) /\ MonthOf(d) = MonthFrom(z, t, m)
           /\ OnMonth(r, z, t, m) = Candidate(z, d, r.time, t)
    BY <1>13, <2>1, OnMonthIsNamed
  <2>3. MonthOf(d) <= k
    <3>1. CASE m = i BY <1>5, <1>7, <2>2, <3>1
    <3>2. CASE m < i
      <4>1. MonthOf(d) <= from + m + 1
        BY <1>3, <2>1, <2>2, MonthFromIsNear
      <4>2. MonthOf(d) \in Int BY DateFacts
      <4> QED BY <1>5, <1>6, <3>2, <4>1, <4>2
    <3> QED BY <3>1, <3>2
  <2>4. d <= day
    <3>1. CASE MonthOf(d) = k
      <4>1. DayOf(d) = DayOf(day) BY <1>8, <2>2, FallsMonthly
      <4> QED BY <1>2, <1>4, <3>1, <4>1, DateFacts
    <3>2. CASE MonthOf(d) < k
      <4>1. d < day \/ day <= d BY <1>2
      <4>2. day <= d => k <= MonthOf(d) BY <1>2, <1>4, MonthsInOrder
      <4>3. MonthOf(d) \in Int BY DateFacts
      <4> QED BY <1>2, <1>5, <3>2, <4>1, <4>2, <4>3
    <3>3. MonthOf(d) \in Int BY DateFacts
    <3> QED BY <1>5, <2>3, <3>1, <3>2, <3>3
  <2>5. d \in Int BY CalendarFacts
  <2> QED BY <1>13, <2>2, <2>4, <2>5, ToBeFoundFacts
<1> QED BY <1>12, <1>13

\* The loop over years stops no later than at a day the rule names.
LEMMA YearIsFound ==
  ASSUME NEW r \in Repeating, r.kind = "yearly",
         NEW z \in Zones, NEW t \in Moment, NEW day \in Int,
         Today(z, t) <= day, day <= Today(z, t) + DayTries - 1,
         ToBeFound(r, z, t, day)
  PROVE  \E i \in 0 .. YearTries - 1 :
            /\ OnYear(r, z, t, i) # Never
            /\ \A m \in 0 .. i :
                  OnYear(r, z, t, m) # Never
                     => OnYear(r, z, t, m) <= Last(r, z, day)
PROOF
<1>1. PICK last \in Int : last = Today(z, t) + DayTries - 1
  BY MomentFacts, CalendarFacts
<1>2. /\ Today(z, t) \in 0 .. FirstDay[Months] - 1
      /\ last \in 0 .. FirstDay[Months] - 1
      /\ day \in 0 .. FirstDay[Months] - 1
  BY <1>1, MomentFacts, CalendarFacts
<1>3. PICK from \in Int : from = YearOf(Today(z, t)) BY <1>2, DateFacts
<1>4. PICK year \in Int : year = YearOf(day) BY <1>2, DateFacts
<1>5. from <= year /\ year < from + YearTries
  <2>1. YearOf(last) \in Int BY <1>2, DateFacts
  <2>2. from <= year BY <1>2, <1>3, <1>4, MonthsInOrder
  <2>3. year <= YearOf(last) BY <1>1, <1>2, <1>4, MonthsInOrder
  <2>4. YearOf(last) < from + YearTries BY <1>1, <1>3, MomentFacts
  <2> QED BY <2>1, <2>2, <2>3, <2>4, CalendarFacts
<1>6. PICK i \in 0 .. YearTries - 1 : i = year - from /\ from + i = year
  BY <1>5, CalendarFacts
<1>7. PICK n : n = MonthNamed(r, z) OBVIOUS
<1>8. /\ year - YearOf(First(r, z)) >= 0
      /\ (year - YearOf(First(r, z))) % Interval(r) = 0
      /\ MonthOf(day) % YearLength = n /\ DayOf(day) = DayNamed(r, z)
  BY <1>2, <1>4, <1>7, FallsYearly DEF ToBeFound, Every
<1>9. PICK k \in Month : /\ k = MonthOf(day) /\ k = year * YearLength + n
                         /\ n \in 0 .. YearLength - 1
  BY <1>2, <1>4, <1>8, DateFacts
<1>10. Anchor(r, z, t) = First(r, z) BY RuleFacts
<1>11. OnYear(r, z, t, i) = InMonth(r, z, t, k)
  <2>1. n = IF r.month = 0 THEN MonthOf(Anchor(r, z, t)) % YearLength
                           ELSE r.month - 1
    BY <1>7, <1>10 DEF MonthNamed
  <2>2. YearOf(Today(z, t)) + i = year BY <1>3, <1>6
  <2> QED BY <1>8, <1>9, <1>10, <2>1, <2>2, Zenon DEF OnYear
<1>12. InMonth(r, z, t, k) = Candidate(z, day, r.time, t)
  <2>1. /\ DayNamed(r, z) \in 1 .. Length(k)
        /\ FirstDay[k] + DayNamed(r, z) - 1 = day
    BY <1>2, <1>8, <1>9, DateFacts
  <2>2. DayNamed(r, z) =
           IF r.day = 0 THEN DayOf(Anchor(r, z, t)) ELSE r.day
    BY <1>10 DEF DayNamed
  <2> QED BY <2>1, <2>2, Zenon DEF InMonth
<1>13. OnYear(r, z, t, i) # Never BY <1>11, <1>12, ToBeFoundFacts
<1>14. ASSUME NEW m \in 0 .. i, OnYear(r, z, t, m) # Never
       PROVE  OnYear(r, z, t, m) <= Last(r, z, day)
  <2>1. m \in 0 .. YearTries - 1 BY CalendarFacts
  <2>2. PICK d \in 0 .. FirstDay[Months] - 1 :
           /\ Falls(r, z, d)
           /\ MonthOf(d) = (YearOf(Today(z, t)) + m) * YearLength + n
           /\ OnYear(r, z, t, m) = Candidate(z, d, r.time, t)
    BY <1>7, <1>14, <2>1, OnYearIsNamed
  <2>3. MonthOf(d) \in Int /\ n \in Int BY <1>9, DateFacts, CalendarFacts
  <2>4. d <= day
    <3>1. CASE m = i
      <4>1. MonthOf(d) = k BY <1>3, <1>6, <1>9, <2>2, <3>1
      <4>2. DayOf(d) = DayOf(day) BY <1>8, <2>2, FallsYearly
      <4>3. /\ d = FirstDay[MonthOf(d)] + DayOf(d) - 1
            /\ day = FirstDay[MonthOf(day)] + DayOf(day) - 1
        BY <1>2, DateFacts
      <4>4. d = day BY <1>9, <4>1, <4>2, <4>3
      <4> QED BY <4>4
    <3>2. CASE m < i
      <4>1. PICK y \in Int : y = from + m /\ y < year BY <1>6, <3>2
      <4>2. /\ y * YearLength + YearLength <= year * YearLength
            /\ y * YearLength \in Int /\ year * YearLength \in Int
        BY <4>1, CalendarFacts, Multiples
      <4>3. MonthOf(d) = y * YearLength + n BY <1>3, <2>2, <4>1
      <4>4. k \in Int /\ YearLength \in Int /\ YearLength > 0
        BY CalendarFacts DEF Month
      <4>5. MonthOf(d) < k BY <1>9, <2>3, <4>2, <4>3, <4>4
      <4>6. day <= d => k <= MonthOf(d) BY <1>2, <1>9, MonthsInOrder
      <4> QED BY <1>2, <2>3, <4>4, <4>5, <4>6
    <3> QED BY <3>1, <3>2
  <2>5. d \in Int BY CalendarFacts
  <2> QED BY <1>14, <2>2, <2>4, <2>5, ToBeFoundFacts
<1> QED BY <1>13, <1>14

\* The loop of every kind finds the day, or something before it.
LEMMA NamedDayIsFound ==
  ASSUME NEW r \in Repeating, NEW z \in Zones, NEW t \in Moment, NEW day \in Int,
         Today(z, t) <= day, day <= Today(z, t) + DayTries - 1,
         ToBeFound(r, z, t, day)
  PROVE  NextOf(r, z, t) # Never /\ NextOf(r, z, t) <= Last(r, z, day)
PROOF
<1>1. CASE r.kind \in {"daily", "weekly"}
  <2> DEFINE found == [i \in 0 .. DayTries - 1 |-> OnDay(r, z, t, i)]
  <2>1. NextOf(r, z, t) = FirstFound(found) BY <1>1 DEF NextOf
  <2>2. /\ DOMAIN found = 0 .. DayTries - 1
        /\ \A i \in 0 .. DayTries - 1 : found[i] = OnDay(r, z, t, i)
    OBVIOUS
  <2> HIDE DEF found
  <2>3. PICK i \in 0 .. DayTries - 1 : i = day - Today(z, t)
    BY MomentFacts, CalendarFacts
  <2>4. /\ OnDay(r, z, t, i) # Never
        /\ \A m \in 0 .. i : OnDay(r, z, t, m) # Never
                                => OnDay(r, z, t, m) <= Last(r, z, day)
    BY <1>1, <2>3, DayIsFound
  <2>5. PICK m \in 0 .. i : found[m] # Never /\ NextOf(r, z, t) = found[m]
    BY <2>1, <2>2, <2>4, CalendarFacts, FirstFoundIsFirst
  <2>6. m \in 0 .. DayTries - 1 BY CalendarFacts
  <2> QED BY <2>2, <2>4, <2>5, <2>6
<1>2. CASE r.kind = "monthly"
  <2> DEFINE found == [i \in 0 .. MonthTries - 1 |-> OnMonth(r, z, t, i)]
  <2>1. NextOf(r, z, t) = FirstFound(found) BY <1>2 DEF NextOf
  <2>2. /\ DOMAIN found = 0 .. MonthTries - 1
        /\ \A i \in 0 .. MonthTries - 1 : found[i] = OnMonth(r, z, t, i)
    OBVIOUS
  <2> HIDE DEF found
  <2>3. PICK i \in 0 .. MonthTries - 1 :
           /\ OnMonth(r, z, t, i) # Never
           /\ \A m \in 0 .. i : OnMonth(r, z, t, m) # Never
                                   => OnMonth(r, z, t, m) <= Last(r, z, day)
    BY <1>2, MonthIsFound
  <2>4. PICK m \in 0 .. i : found[m] # Never /\ NextOf(r, z, t) = found[m]
    BY <2>1, <2>2, <2>3, CalendarFacts, FirstFoundIsFirst
  <2>5. m \in 0 .. MonthTries - 1 BY CalendarFacts
  <2> QED BY <2>2, <2>3, <2>4, <2>5
<1>3. CASE r.kind = "yearly"
  <2> DEFINE found == [i \in 0 .. YearTries - 1 |-> OnYear(r, z, t, i)]
  <2>1. NextOf(r, z, t) = FirstFound(found) BY <1>3 DEF NextOf
  <2>2. /\ DOMAIN found = 0 .. YearTries - 1
        /\ \A i \in 0 .. YearTries - 1 : found[i] = OnYear(r, z, t, i)
    OBVIOUS
  <2> HIDE DEF found
  <2>3. PICK i \in 0 .. YearTries - 1 :
           /\ OnYear(r, z, t, i) # Never
           /\ \A m \in 0 .. i : OnYear(r, z, t, m) # Never
                                   => OnYear(r, z, t, m) <= Last(r, z, day)
    BY <1>3, YearIsFound
  <2>4. PICK m \in 0 .. i : found[m] # Never /\ NextOf(r, z, t) = found[m]
    BY <2>1, <2>2, <2>3, CalendarFacts, FirstFoundIsFirst
  <2>5. m \in 0 .. YearTries - 1 BY CalendarFacts
  <2> QED BY <2>2, <2>3, <2>4, <2>5
<1> QED BY <1>1, <1>2, <1>3 DEF Repeating

--------------------------------------------------------------------------------
(* A preview goes on from a run.                                              *)

\* The rule of a preview has no start.
Draft(r) == [r EXCEPT !.start = None]

\* A run of a rule at a moment of the calendar: the clock shows its time on a
\* day that it names, and the code takes that day for itself.  Where weekdays
\* are named there is no interval.
RunAt(r, z, t) ==
    /\ z \in Zones /\ r \in Repeating /\ t \in Moment
    /\ t \in Readings(z, Today(z, t) * DayLength + r.time)
    /\ Falls(r, z, Today(z, t))
    /\ DayFrom(z, Today(z, t)) = Today(z, t)
    /\ r.kind = "weekly" => Interval(r) = 1 \/ Weekdays(r) = {}

\* A draft differs from its rule in what it counts from: the day of the run.
LEMMA DraftFacts ==
  ASSUME NEW r, NEW z, NEW t, RunAt(r, z, t)
  PROVE  /\ Draft(r).kind = r.kind /\ Draft(r).time = r.time
         /\ Draft(r).day = r.day /\ Draft(r).month = r.month
         /\ Draft(r).end = r.end /\ Draft(r).start = None
         /\ Interval(Draft(r)) = Interval(r)
         /\ Weekdays(Draft(r)) = Weekdays(r)
         /\ Anchor(Draft(r), z, t) = Today(z, t)
PROOF
<1>1. r \in Repeating /\ DayFrom(z, Today(z, t)) = Today(z, t) BY DEF RunAt
<1>2. /\ Draft(r).kind = r.kind /\ Draft(r).time = r.time
      /\ Draft(r).day = r.day /\ Draft(r).month = r.month
      /\ Draft(r).end = r.end /\ Draft(r).start = None
      /\ Draft(r).interval = r.interval /\ Draft(r).weekdays = r.weekdays
  BY <1>1 DEF Repeating, Draft
<1> QED BY <1>1, <1>2 DEF Interval, Weekdays, Anchor

\* Where the interval divides the count from the start to the run, it divides the
\* count on from the run just if it divides the one from the start.
LEMMA CountsAgree ==
  ASSUME NEW d \in Nat \ {0}, NEW on \in Int, NEW all \in Int, NEW run \in Int,
         on = all - run, run % d = 0
  PROVE  on % d = 0 <=> all % d = 0
PROOF
<1>1. (all - run) % d = 0 <=> all % d = run % d BY SameRest
<1> QED BY <1>1

\* A number of whole weeks from the start is one from the run, and the weeks
\* between are so many fewer.
LEMMA WeeksAgree ==
  ASSUME NEW day \in Int, NEW from \in Int, NEW first \in Int,
         NEW d \in Nat \ {0},
         (from - first) % WeekLength = 0, (day - first) % WeekLength = 0,
         ((from - first) \div WeekLength) % d = 0
  PROVE  ((day - from) \div WeekLength) % d = 0
            <=> ((day - first) \div WeekLength) % d = 0
PROOF
<1>1. PICK w \in Nat \ {0} : w = WeekLength BY CalendarFacts
<1>2. PICK a \in Int, b \in Int : a = from - first /\ b = day - first
  OBVIOUS
<1>3. PICK p \in Int, q \in Int : p = a \div w /\ q = b \div w
  BY DivMod
<1>4. a = p * w /\ b = q * w
  <2>1. a % w = 0 /\ b % w = 0 BY <1>1, <1>2
  <2>2. a = p * w + (a % w) /\ b = q * w + (b % w) BY <1>3, DivMod
  <2>3. p * w \in Int /\ q * w \in Int BY Multiples
  <2> QED BY <2>1, <2>2, <2>3
<1>5. (day - from) \div w = q - p
  <2>1. day - from = (q - p) * w + 0
    <3>1. (q - p) * w = q * w - p * w /\ p * w \in Int /\ q * w \in Int
      BY Multiples
    <3>2. day - from = b - a BY <1>2
    <3> QED BY <1>4, <3>1, <3>2
  <2>2. q - p \in Int /\ 0 \in 0 .. w - 1 OBVIOUS
  <2> QED BY <2>1, <2>2, DivUnique
<1>6. p % d = 0 BY <1>1, <1>2, <1>3
<1>7. (q - p) % d = 0 <=> q % d = 0
  <2>1. (q - p) % d = 0 <=> q % d = p % d BY SameRest
  <2> QED BY <1>6, <2>1
<1> QED BY <1>1, <1>2, <1>3, <1>5, <1>7

\* What the loop over days finds in a draft, it finds in the rule.
LEMMA DaysGoOn ==
  ASSUME NEW r, NEW z, NEW t, RunAt(r, z, t), r.kind \in {"daily", "weekly"},
         NEW i \in 0 .. DayTries - 1
  PROVE  OnDay(Draft(r), z, t, i) = OnDay(r, z, t, i)
PROOF
<1>1. /\ z \in Zones /\ r \in Repeating /\ t \in Moment
      /\ Falls(r, z, Today(z, t)) /\ DayFrom(z, Today(z, t)) = Today(z, t)
      /\ r.kind = "weekly" => Interval(r) = 1 \/ Weekdays(r) = {}
  BY DEF RunAt
<1>2. PICK today \in Int : today = Today(z, t) BY <1>1, MomentFacts
<1>3. PICK first \in Int : first = First(r, z) BY <1>1, RuleFacts
<1>4. PICK d \in Nat \ {0} : d = Interval(r) BY <1>1, RuleFacts
<1>5. PICK day \in Int : day = DayFrom(z, today + i) /\ day >= today
  <2>1. PICK n \in Int : n = today + i BY CalendarFacts
  <2>2. DayFrom(z, n) \in {n - 1, n, n + 1} BY <1>1, <2>1, DayFromIsNear
  <2>3. i = 0 => DayFrom(z, n) = today BY <1>1, <1>2, <2>1
  <2>4. i \in Int /\ (i = 0 \/ i >= 1) BY CalendarFacts
  <2> QED BY <2>1, <2>2, <2>3, <2>4
<1>6. /\ Anchor(r, z, t) = first /\ Anchor(Draft(r), z, t) = today
      /\ Interval(Draft(r)) = d /\ Weekdays(Draft(r)) = Weekdays(r)
      /\ Draft(r).kind = r.kind /\ Draft(r).time = r.time
  BY <1>1, <1>2, <1>3, <1>4, DraftFacts, RuleFacts
<1>7. today - first >= 0
  BY <1>1, <1>2, <1>3, FallsDaily, FallsWeekly DEF Every
<1> DEFINE Named(anchor) ==
      /\ day - anchor >= 0
      /\ IF r.kind = "daily" THEN (day - anchor) % d = 0
         ELSE /\ ((day - anchor) \div WeekLength) % d = 0
              /\ day % WeekLength \in IF Weekdays(r) = {} THEN {anchor % WeekLength}
                                      ELSE Weekdays(r)
<1>8. /\ OnDay(r, z, t, i)
           = IF Named(first) THEN Candidate(z, day, r.time, t) ELSE Never
      /\ OnDay(Draft(r), z, t, i)
           = IF Named(today) THEN Candidate(z, day, r.time, t) ELSE Never
  BY <1>2, <1>4, <1>5, <1>6, Zenon DEF OnDay
<1>9. day - today >= 0 /\ day - first >= 0 BY <1>5, <1>7
<1>10. Named(today) <=> Named(first)
  <2>1. CASE r.kind = "daily"
    <3>1. (today - first) % d = 0
      BY <1>1, <1>2, <1>3, <1>4, <2>1, FallsDaily DEF Every
    <3>2. (day - today) % d = 0 <=> (day - first) % d = 0
      <4>1. PICK on \in Int, all \in Int, run \in Int :
               on = day - today /\ all = day - first /\ run = today - first
        OBVIOUS
      <4>2. run % d = 0 /\ on = all - run BY <3>1, <4>1
      <4>3. on % d = 0 <=> all % d = 0 BY <4>2, CountsAgree
      <4> QED BY <4>1, <4>3, Zenon
    <3>3. /\ Named(today) <=> day - today >= 0 /\ (day - today) % d = 0
          /\ Named(first) <=> day - first >= 0 /\ (day - first) % d = 0
      BY <2>1, Zenon
    <3> HIDE DEF Named
    <3> QED BY <1>9, <3>2, <3>3, Zenon
  <2>2. CASE r.kind = "weekly" /\ Weekdays(r) = {}
    <3>1. /\ ((today - first) \div WeekLength) % d = 0
          /\ (today - first) % WeekLength = 0
      BY <1>1, <1>2, <1>3, <1>4, <2>2, FallsWeekly DEF Every
    <3>2. today % WeekLength = first % WeekLength
      BY <3>1, CalendarFacts, SameRest
    <3>3. day % WeekLength = first % WeekLength
             => (((day - today) \div WeekLength) % d = 0
                    <=> ((day - first) \div WeekLength) % d = 0)
      <4>1. day % WeekLength = first % WeekLength
               => (day - first) % WeekLength = 0
        BY CalendarFacts, SameRest
      <4> QED BY <3>1, <4>1, WeeksAgree
    <3>4. r.kind # "daily" BY <2>2
    <3> QED BY <1>9, <2>2, <3>2, <3>3, <3>4
  <2>3. CASE r.kind = "weekly" /\ Weekdays(r) # {}
    <3>1. d = 1 BY <1>1, <1>4, <2>3
    <3>2. \A n \in Int : n % d = 0 BY <3>1
    <3>3. /\ (day - today) \div WeekLength \in Int
          /\ (day - first) \div WeekLength \in Int
      <4>1. PICK a \in Int, b \in Int : a = day - today /\ b = day - first
        OBVIOUS
      <4>2. a \div WeekLength \in Int /\ b \div WeekLength \in Int
        BY CalendarFacts, DivMod
      <4> QED BY <4>1, <4>2
    <3>4. r.kind # "daily" BY <2>3
    <3> QED BY <1>9, <2>3, <3>2, <3>3, <3>4
  <2> QED BY <2>1, <2>2, <2>3
<1> QED BY <1>8, <1>10

\* In a month of the calendar a draft finds the day that its rule finds.
LEMMA InMonthGoesOn ==
  ASSUME NEW r, NEW z, NEW t, RunAt(r, z, t), r.kind \in {"monthly", "yearly"},
         NEW k
  PROVE  InMonth(Draft(r), z, t, k) = InMonth(r, z, t, k)
PROOF
<1>1. /\ z \in Zones /\ r \in Repeating /\ t \in Moment
      /\ Falls(r, z, Today(z, t))
  BY DEF RunAt
<1>2. Today(z, t) \in 0 .. FirstDay[Months] - 1 BY <1>1, MomentFacts
<1>3. DayOf(Today(z, t)) = DayNamed(r, z)
  BY <1>1, <1>2, FallsMonthly, FallsYearly
<1>4. r.day = 0 => DayOf(Today(z, t)) = DayOf(Anchor(r, z, t))
  BY <1>1, <1>3, RuleFacts DEF DayNamed
<1>5. /\ Draft(r).day = r.day /\ Draft(r).time = r.time
      /\ Anchor(Draft(r), z, t) = Today(z, t)
  BY DraftFacts
<1> QED BY <1>4, <1>5, Zenon DEF InMonth

\* What a rule finds in an earlier month than that of the run is past.
LEMMA EarlierMonthIsPast ==
  ASSUME NEW r, NEW z, NEW t, RunAt(r, z, t), NEW k \in Month,
         k < MonthOf(Today(z, t))
  PROVE  InMonth(r, z, t, k) = Never
PROOF
<1>1. /\ z \in Zones /\ r \in Repeating /\ t \in Moment
      /\ t \in Readings(z, Today(z, t) * DayLength + r.time)
  BY DEF RunAt
<1>2. PICK today \in 0 .. FirstDay[Months] - 1 : today = Today(z, t)
  BY <1>1, MomentFacts
<1>3. SUFFICES ASSUME InMonth(r, z, t, k) # Never PROVE FALSE
  OBVIOUS
<1>4. PICK day \in 0 .. FirstDay[Months] - 1 :
         /\ MonthOf(day) = k
         /\ InMonth(r, z, t, k) = Candidate(z, day, r.time, t)
  BY <1>1, <1>3, InMonthIsNamed
<1>5. day < today
  <2>1. SUFFICES ASSUME today <= day PROVE FALSE OBVIOUS
  <2>2. MonthOf(today) <= MonthOf(day) BY <2>1, MonthsInOrder
  <2>3. MonthOf(today) \in Int /\ k \in Int
    BY CalendarFacts, DateFacts DEF Month
  <2> QED BY <1>2, <1>4, <2>2, <2>3
<1>6. /\ Candidate(z, day, r.time, t) \in Readings(z, day * DayLength + r.time)
      /\ Candidate(z, day, r.time, t) > t
  <2>1. t \in Nat /\ r.time \in 0 .. DayLength - 1
    BY <1>1, MomentFacts, RuleFacts
  <2> QED BY <1>1, <1>3, <1>4, <2>1, CandidateReads
<1>7. Candidate(z, day, r.time, t) \in Int /\ Candidate(z, day, r.time, t) <= t
  <2>1. r.time \in 0 .. DayLength - 1 BY <1>1, RuleFacts
  <2> QED BY <1>1, <1>2, <1>5, <1>6, <2>1, ReadingsInOrder
<1>8. t \in Int BY <1>1, MomentFacts
<1> QED BY <1>6, <1>7, <1>8

\* What the loop over months finds in a draft, it finds in the rule.
LEMMA MonthsGoOn ==
  ASSUME NEW r, NEW z, NEW t, RunAt(r, z, t), r.kind = "monthly",
         NEW i \in 0 .. MonthTries - 1
  PROVE  OnMonth(Draft(r), z, t, i) = OnMonth(r, z, t, i)
PROOF
<1>1. /\ z \in Zones /\ r \in Repeating /\ t \in Moment
      /\ Falls(r, z, Today(z, t))
  BY DEF RunAt
<1>2. PICK k \in Month : k = MonthFrom(z, t, i) BY <1>1, MonthFromIsNear
<1>3. PICK m \in Int : m = MonthOf(Today(z, t))
  BY <1>1, MomentFacts, DateFacts
<1>4. PICK n \in Int : n = MonthOf(First(r, z))
  BY <1>1, RuleFacts, DateFacts
<1>5. PICK d \in Nat \ {0} : d = Interval(r) BY <1>1, RuleFacts
<1>6. m - n >= 0 /\ (m - n) % d = 0
  BY <1>1, <1>3, <1>4, <1>5, FallsMonthly DEF Every
<1>7. /\ Interval(Draft(r)) = d /\ Anchor(Draft(r), z, t) = Today(z, t)
      /\ Anchor(r, z, t) = First(r, z)
  BY <1>1, <1>5, DraftFacts, RuleFacts
<1> DEFINE Counts(from) == k - from >= 0 /\ (k - from) % d = 0
<1>8. /\ OnMonth(Draft(r), z, t, i)
           = IF Counts(m) THEN InMonth(Draft(r), z, t, k) ELSE Never
      /\ OnMonth(r, z, t, i) = IF Counts(n) THEN InMonth(r, z, t, k) ELSE Never
  BY <1>2, <1>3, <1>4, <1>5, <1>7, Zenon DEF OnMonth, MonthFrom
<1>9. k \in Int BY <1>2, CalendarFacts DEF Month
<1>10. (k - m) % d = 0 <=> (k - n) % d = 0
  <2>1. PICK on \in Int, all \in Int, run \in Int :
           on = k - m /\ all = k - n /\ run = m - n
    BY <1>9
  <2>2. run % d = 0 /\ on = all - run BY <1>6, <1>9, <2>1
  <2>3. on % d = 0 <=> all % d = 0 BY <2>2, CountsAgree
  <2> QED BY <2>1, <2>3, Zenon
<1>11. InMonth(Draft(r), z, t, k) = InMonth(r, z, t, k) BY <1>1, InMonthGoesOn
<1>12. CASE k < m
  <2>1. InMonth(r, z, t, k) = Never BY <1>1, <1>3, <1>12, EarlierMonthIsPast
  <2> HIDE DEF Counts
  <2> QED BY <1>8, <1>11, <2>1
<1>13. CASE k >= m
  <2>1. k - m >= 0 /\ k - n >= 0 BY <1>6, <1>9, <1>13
  <2>2. Counts(m) <=> Counts(n) BY <1>10, <2>1, Zenon
  <2> HIDE DEF Counts
  <2> QED BY <1>8, <1>11, <2>2
<1> QED BY <1>9, <1>12, <1>13

\* What the loop over years finds in a draft, it finds in the rule.
LEMMA YearsGoOn ==
  ASSUME NEW r, NEW z, NEW t, RunAt(r, z, t), r.kind = "yearly",
         NEW i \in 0 .. YearTries - 1
  PROVE  OnYear(Draft(r), z, t, i) = OnYear(r, z, t, i)
PROOF
<1>1. /\ z \in Zones /\ r \in Repeating /\ t \in Moment
      /\ Falls(r, z, Today(z, t))
  BY DEF RunAt
<1>2. Today(z, t) \in 0 .. FirstDay[Months] - 1 BY <1>1, MomentFacts
<1>3. PICK y \in Int : y = YearOf(Today(z, t)) BY <1>2, DateFacts
<1>4. PICK n \in Int : n = YearOf(First(r, z))
  BY <1>1, RuleFacts, DateFacts
<1>5. PICK d \in Nat \ {0} : d = Interval(r) BY <1>1, RuleFacts
<1>6. /\ y - n >= 0 /\ (y - n) % d = 0
      /\ MonthOf(Today(z, t)) % YearLength = MonthNamed(r, z)
  BY <1>1, <1>2, <1>3, <1>4, <1>5, FallsYearly DEF Every
<1>7. /\ Interval(Draft(r)) = d /\ Anchor(Draft(r), z, t) = Today(z, t)
      /\ Anchor(r, z, t) = First(r, z) /\ Draft(r).month = r.month
  BY <1>1, <1>5, DraftFacts, RuleFacts
<1>8. PICK year \in Int : year = y + i /\ year >= y BY CalendarFacts
<1>9. PICK month : month = MonthNamed(r, z) OBVIOUS
<1>10. /\ month = IF r.month = 0 THEN MonthOf(First(r, z)) % YearLength
                  ELSE r.month - 1
       /\ month = IF r.month = 0 THEN MonthOf(Today(z, t)) % YearLength
                  ELSE r.month - 1
  BY <1>6, <1>9, Zenon DEF MonthNamed
<1> DEFINE k == year * YearLength + month
<1> DEFINE Counts(from) ==
      /\ year - from >= 0 /\ (year - from) % d = 0
      /\ month \in 0 .. YearLength - 1
<1>11. /\ OnYear(Draft(r), z, t, i)
            = IF Counts(y) THEN InMonth(Draft(r), z, t, k) ELSE Never
       /\ OnYear(r, z, t, i)
            = IF Counts(n) THEN InMonth(r, z, t, k) ELSE Never
  BY <1>3, <1>4, <1>5, <1>7, <1>8, <1>10, Zenon DEF OnYear
<1>12. (year - y) % d = 0 <=> (year - n) % d = 0
  <2>1. PICK on \in Int, all \in Int, run \in Int :
           on = year - y /\ all = year - n /\ run = y - n
    OBVIOUS
  <2>2. run % d = 0 /\ on = all - run BY <1>6, <2>1
  <2>3. on % d = 0 <=> all % d = 0 BY <2>2, CountsAgree
  <2> QED BY <2>1, <2>3, Zenon
<1>13. InMonth(Draft(r), z, t, k) = InMonth(r, z, t, k)
  BY <1>1, InMonthGoesOn
<1>14. year - y >= 0 /\ year - n >= 0 BY <1>6, <1>8
<1>15. Counts(y) <=> Counts(n) BY <1>12, <1>14, Zenon
<1> HIDE DEF k, Counts
<1> QED BY <1>11, <1>13, <1>15

\* A preview after a run has the next run that the schedule has.
LEMMA PreviewAgrees ==
  ASSUME NEW r, NEW z, NEW t, RunAt(r, z, t)
  PROVE  Preview(r, z, t) = NextRun(r, z, t)
PROOF
<1>1. r \in Repeating BY DEF RunAt
<1>2. Draft(r).kind = r.kind /\ Draft(r).end = r.end BY DraftFacts
<1>3. NextOf(Draft(r), z, t) = NextOf(r, z, t)
  <2>1. CASE r.kind \in {"daily", "weekly"}
    <3>1. [i \in 0 .. DayTries - 1 |-> OnDay(Draft(r), z, t, i)]
            = [i \in 0 .. DayTries - 1 |-> OnDay(r, z, t, i)]
      BY <2>1, DaysGoOn
    <3>2. /\ NextOf(r, z, t)
               = FirstFound([i \in 0 .. DayTries - 1 |-> OnDay(r, z, t, i)])
          /\ NextOf(Draft(r), z, t)
               = FirstFound([i \in 0 .. DayTries - 1 |->
                                OnDay(Draft(r), z, t, i)])
      BY <1>2, <2>1 DEF NextOf
    <3> QED BY <3>1, <3>2, Zenon
  <2>2. CASE r.kind = "monthly"
    <3>1. [i \in 0 .. MonthTries - 1 |-> OnMonth(Draft(r), z, t, i)]
            = [i \in 0 .. MonthTries - 1 |-> OnMonth(r, z, t, i)]
      BY <2>2, MonthsGoOn
    <3>2. /\ NextOf(r, z, t)
               = FirstFound([i \in 0 .. MonthTries - 1 |-> OnMonth(r, z, t, i)])
          /\ NextOf(Draft(r), z, t)
               = FirstFound([i \in 0 .. MonthTries - 1 |->
                                OnMonth(Draft(r), z, t, i)])
      BY <1>2, <2>2 DEF NextOf
    <3> QED BY <3>1, <3>2, Zenon
  <2>3. CASE r.kind = "yearly"
    <3>1. [i \in 0 .. YearTries - 1 |-> OnYear(Draft(r), z, t, i)]
            = [i \in 0 .. YearTries - 1 |-> OnYear(r, z, t, i)]
      BY <2>3, YearsGoOn
    <3>2. /\ NextOf(r, z, t)
               = FirstFound([i \in 0 .. YearTries - 1 |-> OnYear(r, z, t, i)])
          /\ NextOf(Draft(r), z, t)
               = FirstFound([i \in 0 .. YearTries - 1 |->
                                OnYear(Draft(r), z, t, i)])
      BY <1>2, <2>3 DEF NextOf
    <3> QED BY <3>1, <3>2, Zenon
  <2> QED BY <1>1, <2>1, <2>2, <2>3 DEF Repeating
<1>4. NextRun(Draft(r), z, t) = NextRun(r, z, t)
  BY <1>2, <1>3, Zenon DEF NextRun
<1> QED BY <1>4, Zenon DEF Preview, Draft

--------------------------------------------------------------------------------
(* The life of a rule.                                                        *)

\* A rule that repeats was stored with a start, and its next run is computed
\* from a moment of the calendar.
RuleInForce ==
    rule.kind # "once" =>
        /\ zone \in Zones /\ rule \in Repeating /\ after \in Moment
        /\ next = NextRun(rule, zone, after)
        /\ next # Never => next \in Int /\ next > after

\* A next run of such a rule lies after the moment it is computed from.
LEMMA NextRunIsLater ==
  ASSUME NEW r \in Repeating, NEW z \in Zones, NEW t \in Moment,
         NextRun(r, z, t) # Never
  PROVE  /\ NextRun(r, z, t) \in Int /\ NextRun(r, z, t) > t
         /\ NextRun(r, z, t) = NextOf(r, z, t)
PROOF
<1>1. NextRun(r, z, t) = NextOf(r, z, t) BY DEF NextRun
<1>2. PICK day \in Int : NextOf(r, z, t) = Candidate(z, day, r.time, t)
  BY <1>1, NextIsNamed
<1>3. t \in Nat /\ r.time \in 0 .. DayLength - 1 BY MomentFacts, RuleFacts
<1> QED BY <1>1, <1>2, <1>3, CandidateReads

\* A rule is saved with the next run computed from its save.
LEMMA RuleInForceInit == Init => RuleInForce
PROOF
<1> SUFFICES ASSUME Init, rule.kind # "once"
             PROVE  /\ zone \in Zones /\ rule \in Repeating /\ after \in Moment
                    /\ next = NextRun(rule, zone, after)
                    /\ next # Never => next \in Int /\ next > after
  BY DEF RuleInForce
<1>1. PICK r \in Rules, now \in Saves :
         /\ rule = IF r.kind = "once" \/ r.start # None THEN r
                   ELSE [r EXCEPT !.start = now]
         /\ after = now - 1
  BY DEF Init
<1>2. now \in Moment /\ after \in Moment BY <1>1, RuleAssumption DEF Moment
<1>3. rule \in Repeating
  <2>1. r \in [kind : {"once", "daily", "weekly", "monthly", "yearly"},
               interval : Nat, time : 0 .. DayLength - 1,
               weekdays : SUBSET Int, day : Int, month : Int,
               start : Moment \cup {None}, end : Int, run : Int]
    BY RuleAssumption DEF Moment
  <2>2. r.kind # "once" BY <1>1, <2>1
  <2>3. CASE r.start # None BY <1>1, <2>1, <2>2, <2>3 DEF Repeating
  <2>4. CASE r.start = None
    <3>1. rule = [r EXCEPT !.start = now] BY <1>1, <2>2, <2>4
    <3> QED BY <1>2, <2>1, <2>2, <3>1 DEF Repeating
  <2> QED BY <2>3, <2>4
<1>4. zone \in Zones /\ next = NextRun(rule, zone, after) BY DEF Init
<1> QED BY <1>2, <1>3, <1>4, NextRunIsLater

\* A run marks its rule with the next run computed from it.
LEMMA RuleInForceStep == RuleInForce /\ [Next]_vars => RuleInForce'
PROOF
<1> SUFFICES ASSUME RuleInForce, [Next]_vars PROVE RuleInForce'
  OBVIOUS
<1>1. CASE UNCHANGED vars BY <1>1 DEF vars, RuleInForce
<1>2. CASE Run
  <2> SUFFICES ASSUME rule'.kind # "once"
               PROVE  /\ zone' \in Zones /\ rule' \in Repeating
                      /\ after' \in Moment
                      /\ next' = NextRun(rule', zone', after')
                      /\ next' # Never => next' \in Int /\ next' > after'
    BY DEF RuleInForce
  <2>1. /\ UNCHANGED <<rule, zone>> /\ next # Never
        /\ zone \in Zones /\ rule \in Repeating /\ after \in Moment
        /\ next \in Int /\ next > after
    BY <1>2 DEF Run, RuleInForce
  <2>2. PICK now \in next .. next + Late :
           now <= MaxTime /\ after' = now /\ next' = NextRun(rule, zone, now)
    BY <1>2 DEF Run
  <2>3. now \in Moment BY <2>1, <2>2, RuleAssumption DEF Moment
  <2> QED BY <2>1, <2>2, <2>3, NextRunIsLater
<1> QED BY <1>1, <1>2 DEF Next

\* The next run of a rule in force is the first.
LEMMA InForceIsFirst == RuleInForce => NextIsFirst
PROOF
<1> SUFFICES ASSUME RuleInForce, rule.kind # "once"
             PROVE  /\ next # Never =>
                         /\ next > after
                         /\ Local(zone, next) % DayLength = rule.time
                         /\ Falls(rule, zone, Today(zone, next))
                    /\ \A day \in Today(zone, after) ..
                                    Today(zone, after) + DayTries - 1 :
                         LET times == Readings(zone, day * DayLength + rule.time)
                         IN  /\ Falls(rule, zone, day)
                             /\ ~MidnightMissed(rule, zone, day)
                             /\ times # {} /\ \A t \in times : t > after
                             /\ rule.end = None \/ \A t \in times : t <= rule.end
                             => next # Never /\ next <= Max(times)
  BY DEF NextIsFirst
<1>1. /\ zone \in Zones /\ rule \in Repeating /\ after \in Moment
      /\ next = NextRun(rule, zone, after)
  BY DEF RuleInForce
<1>2. after \in Nat /\ rule.time \in 0 .. DayLength - 1
  BY <1>1, MomentFacts, RuleFacts
<1>3. ASSUME next # Never
      PROVE  /\ next > after
             /\ Local(zone, next) % DayLength = rule.time
             /\ Falls(rule, zone, Today(zone, next))
  <2>1. next > after /\ next = NextOf(rule, zone, after)
    BY <1>1, <1>3, NextRunIsLater
  <2>2. PICK day \in Int : /\ Falls(rule, zone, day)
                           /\ next = Candidate(zone, day, rule.time, after)
    BY <1>1, <1>3, <2>1, NextIsNamed
  <2>3. Today(zone, next) = day /\ Local(zone, next) % DayLength = rule.time
    BY <1>1, <1>2, <1>3, <2>2, CandidateReads
  <2> QED BY <2>1, <2>2, <2>3
<1>4. ASSUME NEW day \in Today(zone, after) .. Today(zone, after) + DayTries - 1,
             Falls(rule, zone, day), ~MidnightMissed(rule, zone, day),
             NEW times, times = Readings(zone, day * DayLength + rule.time),
             times # {}, \A t \in times : t > after,
             rule.end = None \/ \A t \in times : t <= rule.end
      PROVE  next # Never /\ next <= Max(times)
  <2>1. /\ Today(zone, after) \in Int /\ DayTries \in Int
    BY <1>1, MomentFacts, CalendarFacts
  <2>2. /\ day \in Int /\ Today(zone, after) <= day
        /\ day <= Today(zone, after) + DayTries - 1
    BY <2>1
  <2>3. ToBeFound(rule, zone, after, day) BY <1>4 DEF ToBeFound
  <2>4. /\ NextOf(rule, zone, after) # Never
        /\ NextOf(rule, zone, after) <= Max(times)
    BY <1>1, <1>4, <2>2, <2>3, NamedDayIsFound DEF Last
  <2>5. rule.end # None => ~(NextOf(rule, zone, after) > rule.end)
    <3>1. PICK local \in Int : local = day * DayLength + rule.time
      BY <1>2, <2>2, LocalTimes
    <3>2. Max(times) \in times /\ times \subseteq Int
      BY <1>1, <1>4, <3>1, LastReading
    <3>3. rule.end \in Int BY <1>1 DEF Repeating
    <3>4. NextOf(rule, zone, after) \in Int
      <4>1. PICK d \in Int :
               NextOf(rule, zone, after) = Candidate(zone, d, rule.time, after)
        BY <1>1, <2>4, NextIsNamed
      <4> QED BY <1>1, <1>2, <2>4, <4>1, CandidateReads
    <3> QED BY <1>4, <2>4, <3>2, <3>3, <3>4
  <2>6. next = NextOf(rule, zone, after) BY <1>1, <2>5 DEF NextRun
  <2> QED BY <2>4, <2>6
<1> QED BY <1>3, <1>4

\* The preview of a rule in force goes on from its next run.
LEMMA InForceGoesOn == RuleInForce => PreviewGoesOn
PROOF
<1> SUFFICES ASSUME RuleInForce, next # Never, next <= MaxTime,
                    rule.kind # "once",
                    rule.kind = "weekly" =>
                       Interval(rule) = 1 \/ Weekdays(rule) = {},
                    DayFrom(zone, Today(zone, next)) = Today(zone, next)
             PROVE  Preview(rule, zone, next) = NextRun(rule, zone, next)
  BY DEF PreviewGoesOn
<1>1. /\ zone \in Zones /\ rule \in Repeating /\ after \in Moment
      /\ next = NextRun(rule, zone, after) /\ next \in Int /\ next > after
  BY DEF RuleInForce
<1>2. after \in Nat /\ rule.time \in 0 .. DayLength - 1
  BY <1>1, MomentFacts, RuleFacts
<1>3. PICK day \in Int : /\ Falls(rule, zone, day)
                         /\ next = Candidate(zone, day, rule.time, after)
  <2>1. next = NextOf(rule, zone, after) BY <1>1, NextRunIsLater
  <2> QED BY <1>1, <2>1, NextIsNamed
<1>4. /\ Today(zone, next) = day
      /\ next \in Readings(zone, day * DayLength + rule.time)
  BY <1>1, <1>2, <1>3, CandidateReads
<1>5. next \in Moment
  <2>1. after >= MinTime /\ MinTime \in Int /\ MaxTime \in Int
    BY <1>1, RuleAssumption DEF Moment
  <2> QED BY <1>1, <1>2, <2>1 DEF Moment
<1>6. RunAt(rule, zone, next) BY <1>1, <1>3, <1>4, <1>5 DEF RunAt
<1> QED BY <1>6, PreviewAgrees

\* However late the passes are, and wherever in the calendar and around a change
\* of the clock they fall, the next run that schedule.Next computes is the first
\* local time the rule names, and no named day is passed over.
THEOREM NextRunsAreFirst == Spec => []NextIsFirst
PROOF
<1>1. Spec => []RuleInForce
  BY RuleInForceInit, RuleInForceStep, PTL DEF Spec
<1> QED BY <1>1, InForceIsFirst, PTL

\* After any run, a preview shows the runs that the schedule will have, though
\* it counts the intervals of days, weeks, months and years from that run.
THEOREM PreviewsGoOn == Spec => []PreviewGoesOn
PROOF
<1>1. Spec => []RuleInForce
  BY RuleInForceInit, RuleInForceStep, PTL DEF Spec
<1> QED BY <1>1, InForceGoesOn, PTL

================================================================================
