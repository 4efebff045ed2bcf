----------------------------- MODULE HttpDates ------------------------------
(***************************************************************************)
(* The dates a server writes and what is read from them: the three copies  *)
(* of the calendar arithmetic (chromulate-cookie/src/date.rs,              *)
(* chromulate-cache/src/date.rs, chromulate-concurrency/src/adaptive/      *)
(* date.rs) and the delay a Retry-After asks for.                          *)
(*                                                                         *)
(* A cursor walks the calendar month by month, counting days by the rule   *)
(* of the Gregorian calendar alone; the properties compare the code's      *)
(* closed formula and its parsers with that count.  A written date is its  *)
(* tokens: digits, a word, or a time.  An instant is a day since 1970 and  *)
(* a second of that day, so that no number outgrows TLC's integers.        *)
(***************************************************************************)
EXTENDS Integers, Sequences, SequencesExt, TLC

CONSTANTS None, MinYear, MaxYear, Days, Times

VARIABLES year, month, count   \* count: days from 1970-01-01 to the first of the month

vars == <<year, month, count>>

-----------------------------------------------------------------------------
(* The reference calendar. *)

IsLeap(y) == y % 4 = 0 /\ (y % 100 # 0 \/ y % 400 = 0)

MonthLength(y, m) ==
    IF m = 2 THEN (IF IsLeap(y) THEN 29 ELSE 28) ELSE IF m \in {4, 6, 9, 11} THEN 30 ELSE 31

Init == year = 1970 /\ month = 1 /\ count = 0

NextMonth ==
    /\ year < MaxYear
    /\ count' = count + MonthLength(year, month)
    /\ IF month = 12 THEN month' = 1 /\ year' = year + 1 ELSE month' = month + 1 /\ UNCHANGED year

PreviousMonth ==
    /\ year > MinYear
    /\ IF month = 1 THEN month' = 12 /\ year' = year - 1 ELSE month' = month - 1 /\ UNCHANGED year
    /\ count' = count - MonthLength(year', month')

Next == NextMonth \/ PreviousMonth

Spec == Init /\ [][Next]_vars

-----------------------------------------------------------------------------
(* The code's arithmetic. *)

\* Mutant: January and February are counted in the year they open.
UnshiftedDays(y, m, d) ==
    LET era == y \div 400
        yoe == y - era * 400
        doy == (153 * ((m + 9) % 12) + 2) \div 5 + d - 1
    IN  era * 146097 + yoe * 365 + yoe \div 4 - yoe \div 100 + doy - 719468

\* days_from_civil, the same in the three crates.
DaysFromCivil(y, m, d) ==
    LET shifted == IF m <= 2 THEN y - 1 ELSE y
        era == shifted \div 400
        yoe == shifted - era * 400
        doy == (153 * ((m + 9) % 12) + 2) \div 5 + d - 1
    IN  era * 146097 + yoe * 365 + yoe \div 4 - yoe \div 100 + doy - 719468

\* The sum of days, hours, minutes and seconds; a leap second runs into the
\* next minute.
Instant(y, m, d, t) ==
    LET second == t.h * 3600 + t.m * 60 + t.s
    IN  <<DaysFromCivil(y, m, d) + second \div 86400, second % 86400>>

\* The tokens.  A word that names no month has month 0; a month's full name is
\* longer than three letters.
Digits(value, len) == [kind |-> "digits", value |-> value, len |-> len]
Word(m, len) == [kind |-> "word", month |-> m, len |-> len]
Clock(t) == [kind |-> "time", time |-> t]

Weekday == Word(0, 3)
Zone == Word(0, 3)

InRange(t) == t.h <= 23 /\ t.m <= 59 /\ t.s <= 60

Windowed(value) == IF value >= 70 THEN 1900 + value ELSE 2000 + value

-----------------------------------------------------------------------------
(* parse_http_date and http_date: the fields in the order the form has. *)

TwoDigits(token) == IF token.kind = "digits" /\ token.len <= 2 THEN token.value ELSE None

MonthOf(token) == IF token.kind = "word" /\ token.len = 3 /\ token.month # 0 THEN token.month ELSE None

YearOf(token) ==
    IF token.kind # "digits" THEN None
    ELSE IF token.len = 2 THEN Windowed(token.value)
    ELSE IF token.len = 4 THEN token.value
    ELSE None

TimeOf(token) == IF token.kind = "time" /\ InRange(token.time) THEN token.time ELSE None

\* A comma after the weekday means day, month, year, time; none means weekday,
\* month, day, time, year.
ParseHttpDate(written) ==
    LET f == written.fields
        enough == IF written.comma THEN written.weekday /\ Len(f) >= 4 ELSE Len(f) >= 5
        d == TwoDigits(IF written.comma THEN f[1] ELSE f[3])
        m == MonthOf(f[2])
        y == YearOf(IF written.comma THEN f[3] ELSE f[5])
        t == TimeOf(f[4])
    IN  IF ~enough THEN None
        ELSE IF d = None \/ m = None \/ y = None \/ t = None THEN None
        ELSE IF d = 0 \/ d > 31 \/ y < 1601 THEN None
        ELSE Instant(y, m, d, t)

-----------------------------------------------------------------------------
(* parse_cookie_date: every token is offered to what is still missing. *)

Missing == [time |-> None, day |-> None, month |-> None, year |-> None]

\* leading_digits: a second time is read for the digits it starts with.
LeadingDigits(token) ==
    CASE token.kind = "digits" -> token
      [] token.kind = "time" -> Digits(token.time.h, 2)
      [] OTHER -> Digits(0, 0)

TakeToken(found, token) ==
    LET digits == LeadingDigits(token)
    IN  IF found.time = None /\ token.kind = "time" THEN [found EXCEPT !.time = token.time]
        ELSE IF found.day = None /\ digits.len \in 1..2 THEN [found EXCEPT !.day = digits.value]
        ELSE IF found.month = None /\ token.kind = "word" /\ token.month # 0
             THEN [found EXCEPT !.month = token.month]
        ELSE IF found.year = None /\ digits.len \in {2, 4} THEN [found EXCEPT !.year = digits.value]
        ELSE found

CookieYear(value) == IF value \in 70..99 THEN value + 1900 ELSE IF value <= 69 THEN value + 2000 ELSE value

ParseCookieDate(written) ==
    LET all == (IF written.comma /\ written.weekday THEN <<Weekday>> ELSE <<>>) \o written.fields
        found == FoldLeft(TakeToken, Missing, all)
    IN  IF \E piece \in DOMAIN found : found[piece] = None THEN None
        ELSE IF ~InRange(found.time) \/ found.day = 0 \/ found.day > 31 THEN None
        ELSE IF CookieYear(found.year) < 1601 THEN None
        ELSE Instant(CookieYear(found.year), found.month, found.day, found.time)

-----------------------------------------------------------------------------
(* Retry-After. *)

Earlier(a, b) == a[1] < b[1] \/ (a[1] = b[1] /\ a[2] < b[2])

SecondsBetween(a, b) == (b[1] - a[1]) * 86400 + b[2] - a[2]

\* retry_after_delay: against the answer's own Date where it can be read.
RetryAfterDelay(field, date, now) ==
    IF field.form = "seconds" THEN field.seconds
    ELSE LET target == ParseHttpDate(field.date)
             own == IF date = None THEN None ELSE ParseHttpDate(date)
             from == IF own = None THEN now ELSE own
         IN  IF target = None THEN None
             ELSE IF Earlier(target, from) THEN 0 ELSE SecondsBetween(from, target)

\* parse_retry_after, of the retry policy: seconds only.
ParseRetryAfter(field) == IF field.form = "seconds" THEN field.seconds ELSE None

\* Signal::from_status
FromStatus(status) ==
    IF status = 403 THEN "refused"
    ELSE IF status \in {429, 503} THEN "backpressure"
    ELSE IF status \in 500..599 THEN "neutral"
    ELSE "healthy"

\* Signal::from_response: only backpressure carries a delay.
FromResponse(status, field, date, now) ==
    [signal |-> FromStatus(status),
     retry_after |-> IF FromStatus(status) = "backpressure" /\ field # None
                     THEN RetryAfterDelay(field, date, now) ELSE None]

-----------------------------------------------------------------------------
(* The dates servers write: IMF-fixdate, RFC 850 with its two-digit year, *)
(* and asctime. *)

ImfFixdate(y, m, d, t) ==
    [comma |-> TRUE, weekday |-> TRUE, fields |-> <<Digits(d, 2), Word(m, 3), Digits(y, 4), Clock(t), Zone>>]

Rfc850(y, m, d, t) ==
    [comma |-> TRUE, weekday |-> TRUE, fields |-> <<Digits(d, 2), Word(m, 3), Digits(y % 100, 2), Clock(t), Zone>>]

Asctime(y, m, d, t) ==
    [comma |-> FALSE, weekday |-> TRUE,
     fields |-> <<Weekday, Word(m, 3), Digits(d, IF d < 10 THEN 1 ELSE 2), Clock(t), Digits(y, 4)>>]

Written(y, m, d, t) ==
    {ImfFixdate(y, m, d, t), Asctime(y, m, d, t)}
        \cup (IF y \in 1970..2069 THEN {Rfc850(y, m, d, t)} ELSE {})

Without(written, i) == [written EXCEPT !.fields = RemoveAt(@, i)]

-----------------------------------------------------------------------------

DaysHere == {d \in Days : d <= MonthLength(year, month)}

Meant(d, t) ==
    LET second == t.h * 3600 + t.m * 60 + t.s
    IN  <<count + d - 1 + second \div 86400, second % 86400>>

\* Every date of the calendar, in each of the three forms a server may write it
\* in, is read as the instant it means by the cache, the concurrency controller
\* and the cookie jar alike; none of them reads a date a field is missing from
\* (days_from_civil, parse_http_date, http_date, parse_cookie_date).
CalendarTrue ==
    \A d \in DaysHere, t \in Times :
        \A written \in Written(year, month, d, t) :
            /\ ParseHttpDate(written) = Meant(d, t)
            /\ ParseCookieDate(written) = Meant(d, t)
            /\ \A i \in DOMAIN written.fields :
                  written.fields[i] # Zone =>
                      ParseHttpDate(Without(written, i)) = None /\ ParseCookieDate(Without(written, i)) = None

\* The pause a refusal asks for is the distance between two dates of the
\* server's own clock, whatever the client's clock says, never negative; only
\* without a Date does the client's clock count (Signal::from_response,
\* retry_after_delay).
PausesFromOneClock ==
    \A d, from \in DaysHere, status \in {403, 429, 500}, t \in Times :
        LET noon == [h |-> 12, m |-> 0, s |-> 0]
            field == [form |-> "date", date |-> ImfFixdate(year, month, d, t)]
            asked(now, date) == FromResponse(status, field, date, now).retry_after
            gap(now) == IF Earlier(Meant(d, t), now) THEN 0 ELSE SecondsBetween(now, Meant(d, t))
        IN  \A now \in {Meant(1, noon), Meant(28, noon)} :
                /\ asked(now, Asctime(year, month, from, noon)) =
                       (IF status = 429 THEN gap(Meant(from, noon)) ELSE None)
                /\ asked(now, None) = (IF status = 429 THEN gap(now) ELSE None)
                /\ ParseRetryAfter(field) = None

\* Dates mean one thing everywhere, and delays are measured on one clock.
DatesRead == CalendarTrue /\ PausesFromOneClock
=============================================================================
