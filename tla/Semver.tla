------------------------------- MODULE Semver -------------------------------
(***************************************************************************)
(* The grade a driver's probe gives the version it finds                   *)
(* (src/core/semver.ts): compareVersions, satisfies and gradeCompat.       *)
(*                                                                         *)
(* A text is the record of what the two regular expressions make of it: do *)
(* they match, and the version and operator in it. A range is the sequence *)
(* of its terms; Absent stands for undefined.                              *)
(***************************************************************************)
EXTENDS Integers, Sequences

CONSTANT Absent

Versions  == [major : Nat, minor : Nat, patch : Nat]
Operators == {">=", ">", "<=", "<", "="}

VersionTexts == [matches : BOOLEAN, version : Versions]
Terms == [matches : BOOLEAN, op : Operators, target : Versions]

CompareVersions(a, b) ==
  IF a.major # b.major THEN a.major - b.major
  ELSE IF a.minor # b.minor THEN a.minor - b.minor
  ELSE a.patch - b.patch

Holds(op, cmp) ==
  \/ op = ">=" /\ cmp >= 0
  \/ op = ">"  /\ cmp > 0
  \/ op = "<=" /\ cmp <= 0
  \/ op = "<"  /\ cmp < 0
  \/ op = "="  /\ cmp = 0

(* Every term must match and hold; a range without terms is malformed.     *)
Satisfies(text, range) ==
  /\ text.matches
  /\ range # <<>>
  /\ \A i \in DOMAIN range :
       range[i].matches /\ Holds(range[i].op, CompareVersions(text.version, range[i].target))

GradeCompat(detected, supported) ==
  IF supported = Absent THEN "any"
  ELSE IF detected = Absent THEN "untested"
  ELSE IF Satisfies(detected, supported) THEN "supported" ELSE "unsupported"

(* The probe says that the version is outside the tested range.            *)
Warns(detected, supported) ==
  GradeCompat(detected, supported) = "untested" /\ detected # Absent

-----------------------------------------------------------------------------
(* Reference definitions                                                   *)

(* The order of versions: major, then minor, then patch.                   *)
Precedes(a, b) ==
  \/ a.major < b.major
  \/ a.major = b.major /\ a.minor < b.minor
  \/ a.major = b.major /\ a.minor = b.minor /\ a.patch < b.patch

(* compareVersions has the sign of that order.                             *)
ComparesRight(a, b) ==
  /\ CompareVersions(a, b) < 0 <=> Precedes(a, b)
  /\ CompareVersions(a, b) > 0 <=> Precedes(b, a)
  /\ CompareVersions(a, b) = 0 <=> a = b

(* What lies between two versions of a range is in the range: a driver     *)
(* that works with two releases is not refused one that came between them. *)
HasNoHole(range, a, b, c) ==
  /\ Satisfies([matches |-> TRUE, version |-> a], range)
  /\ Satisfies([matches |-> TRUE, version |-> c], range)
  /\ ~Precedes(b, a) /\ ~Precedes(c, b)
  => Satisfies([matches |-> TRUE, version |-> b], range)
=============================================================================
