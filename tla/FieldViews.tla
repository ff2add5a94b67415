----------------------------- MODULE FieldViews -----------------------------
(***************************************************************************)
(* What a stakeholder sees of a record: the fields a category declares, at *)
(* its granularity.  The Rust gateway (manifest/mod.rs) and the Python one *)
(* that stands in for it (local_gateway.py) compute it independently, so   *)
(* both are here.                                                          *)
(*                                                                         *)
(* A record's fields are a function from names to values.  A number is     *)
(* counted in ten-thousandths; any other value (text, null, NaN, a list)   *)
(* is opaque.  Rounding is to a nearest multiple, either one in a tie:     *)
(* Rust rounds ties away from zero, Python to even, and the binary         *)
(* fraction being rounded is not exactly the decimal one in general.       *)
(***************************************************************************)
EXTENDS Integers, Sequences, FiniteSets

LOCAL INSTANCE FiniteSetsExt

Number(n) == [kind |-> "number", n |-> n]
Opaque == [kind |-> "opaque", n |-> 0]
IsNumber(v) == v.kind = "number"

One == 10000    \* the number 1

Distance(a, b) == IF a < b THEN b - a ELSE a - b

(* The multiples of step nearest to sum / count.                           *)
NearestMean(sum, count, step) ==
  LET below == ((sum \div count) \div step) * step
  IN {m \in {below, below + step} : 2 * Distance(m * count, sum) <= step * count}

(* The values a value may be rounded to.                                   *)
Rounded(v, step) ==
  IF IsNumber(v) THEN {Number(m) : m \in NearestMean(v.n, 1, step)} ELSE {v}

(* The part of a record with these names.                                  *)
Only(fields, names) == [k \in DOMAIN fields \cap names |-> fields[k]]

(* All ways to replace the value of each field k by a member of to[k].     *)
Replacements(to) ==
  {f \in [DOMAIN to -> UNION {to[k] : k \in DOMAIN to}] :
     \A k \in DOMAIN to : f[k] \in to[k]}

-----------------------------------------------------------------------------
(* The Rust gateway.                                                       *)

Identity == {"driver_id", "vin", "name", "email", "phone", "contact", "ssn",
             "license_plate"}
DeviceIdentity == {"device_id", "imei", "mac_address"}
Position == {"latitude", "longitude"}

(* filter_fields: a category whose allowlist is present and empty lets no  *)
(* field through.                                                          *)
RustFilter(fields, c) ==
  Only(fields, (IF c.listed THEN c.fields ELSE DOMAIN fields) \ c.excluded)

(* PerTripScore: one score from 0 to 100, the mean of the numbers.         *)
TripScores(fields) ==
  LET numbers == {k \in DOMAIN fields : IsNumber(fields[k])}
      count   == Cardinality(numbers)
      sum     == MapThenSumSet(LAMBDA k : fields[k].n, numbers)
      clamped == IF sum < 0 THEN 0
                 ELSE IF sum > 100 * One * count THEN 100 * One * count ELSE sum
  IN IF numbers = {} THEN {50 * One} ELSE NearestMean(clamped, count, One \div 10)

(* apply_granularity *)
RustGranularity(fields, granularity) ==
  LET people  == Only(fields, DOMAIN fields \ Identity)
      devices == Only(people, DOMAIN people \ DeviceIdentity)
  IN CASE granularity = "Raw" -> {fields}
       [] granularity = "Aggregated" ->
            Replacements([k \in DOMAIN people |-> Rounded(people[k], One \div 10)])
       [] granularity = "Anonymised" ->
            Replacements([k \in DOMAIN devices |->
              Rounded(devices[k], IF k \in Position THEN One \div 100 ELSE One)])
       [] granularity = "PerTripScore" ->
            {[k \in {"trip_score"} |-> Number(m)] : m \in TripScores(fields)}

-----------------------------------------------------------------------------
(* The Python gateway.                                                     *)

(* _filter_fields: an empty allowlist, present or not, restricts nothing.  *)
LocalFilter(fields, c) ==
  Only(fields, (IF c.fields = {} THEN DOMAIN fields ELSE c.fields) \ c.excluded)

Traces == {"raw_speed_trace", "raw_accel_trace"}
ScoreFields == {"score", "distance_km", "duration_minutes", "time_of_day_bucket"}

Cell == 90      \* the side of a grid cell, 0.009 degrees

(* Mutant: the quotient is truncated, as int() does, and not floored.      *)
CellCentresTruncated(n) ==
  {IF n < 0 THEN -(((-n) \div Cell) * Cell) + Cell \div 2
            ELSE (n \div Cell) * Cell + Cell \div 2}

(* The centre of the cell of a coordinate; the binary quotient of one on   *)
(* the edge of a cell may fall on either side.                             *)
CellCentres(n) ==
  {(n \div Cell) * Cell + Cell \div 2} \cup
  (IF n % Cell = 0 THEN {n - Cell \div 2} ELSE {})

(* _anonymise_fields on one field: identities and other numbers stay.      *)
LocalAnonymised(k, v) ==
  CASE k \in Position -> {Number(m) : m \in CellCentres(v.n)}
    [] k = "speed_mps" -> Rounded(v, 5 * One)
    [] OTHER -> {v}

(* The transformation raises: arithmetic on a value that is no number.     *)
LocalRaises(fields, granularity) ==
  /\ granularity = "Anonymised"
  /\ \E k \in DOMAIN fields \cap (Position \cup {"speed_mps"}) : ~IsNumber(fields[k])

(* _apply_granularity, where it does not raise: a trip score is passed on  *)
(* as the record has it, and is zero when the record has none left.        *)
LocalGranularity(fields, granularity) ==
  LET kept == Only(fields, DOMAIN fields \ Traces) IN
  CASE granularity = "Raw" -> {fields}
    [] granularity = "Anonymised" ->
         Replacements([k \in DOMAIN kept |-> LocalAnonymised(k, kept[k])])
    [] granularity = "Aggregated" ->
         Replacements([k \in DOMAIN kept |-> Rounded(kept[k], One \div 10)])
    [] granularity = "PerTripScore" ->
         {[k \in (DOMAIN fields \cap ScoreFields) \cup {"score"} |->
            IF k \in DOMAIN fields THEN fields[k] ELSE Number(0)]}

=============================================================================
