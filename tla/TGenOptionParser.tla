-------------------------- MODULE TGenOptionParser --------------------------
(***************************************************************************)
(* The parsers of attribute values (src/src/tgen-optionparser.c).          *)
(*                                                                         *)
(* A text is abstracted to what a parser finds in it: Unset is the empty   *)
(* string, a number stands for its digits, a list is the sequence of the   *)
(* texts between its commas, a peer is a record with Unset for a port that *)
(* is missing, an amount has a number, a suffix (Unset if there is none)   *)
(* and whether the number has only digits.                                 *)
(***************************************************************************)
EXTENDS Integers, Sequences, FiniteSets, FiniteSetsExt

CONSTANTS
  Unset,      \* no value
  ByteUnit,   \* factor of each suffix of a size
  TimeUnit,   \* nanoseconds of each suffix of a time
  Word,       \* number of values of a guint64
  Max32,      \* G_MAXUINT32
  Max16       \* G_MAXUINT16

ASSUME UnitAssumption ==
  /\ Unset \notin Nat
  /\ "b" \in DOMAIN ByteUnit /\ \A x \in DOMAIN ByteUnit : ByteUnit[x] \in Nat \ {0}
  /\ ByteUnit["b"] = 1
  /\ "s" \in DOMAIN TimeUnit /\ \A x \in DOMAIN TimeUnit : TimeUnit[x] \in Nat \ {0}
  /\ Max16 \in Nat /\ Max32 \in Nat /\ Word \in Nat \ {0}
  /\ Max16 < Max32 /\ Max32 < Word

\* What a parser returns: an error, or the value of the option.
Parsed(v) == [error |-> FALSE, value |-> v]
NotGiven == Parsed(Unset)
Malformed == [error |-> TRUE, value |-> Unset]

\* parseUInt64, and with max the narrower ones; a number too large saturates.
parseUInt(t, max) == IF t = Unset THEN NotGiven ELSE Parsed(Min({t, max}))

parseString(t) == IF t = Unset THEN NotGiven ELSE Parsed(t)

parsePeer(t) ==
  IF t = Unset THEN NotGiven
  ELSE IF t.port = Unset \/ t.port > Max16 THEN Malformed
  ELSE Parsed(t)

\* The positions of a list that are not empty.
NonEmpty(list) == {i \in DOMAIN list : list[i] # Unset}

\* Empty items of the list are skipped; a peer is known by its position in the list.
parsePeerList(list) ==
  IF list = Unset THEN NotGiven
  ELSE IF \E i \in DOMAIN list : parsePeer(list[i]).error THEN Malformed
  ELSE IF NonEmpty(list) = {} THEN NotGiven
  ELSE Parsed([i \in NonEmpty(list) |-> list[i]])

\* A product that does not fit in 64 bits is a cast with undefined behaviour.
parseBytes(t) ==
  IF t = Unset THEN NotGiven
  ELSE IF ~t.digits THEN Malformed
  ELSE IF t.suffix = Unset THEN Parsed(t.num)
  ELSE IF t.suffix \notin DOMAIN ByteUnit THEN Malformed
  ELSE IF ByteUnit[t.suffix] > 1 /\ t.num = 0 THEN Malformed
  ELSE Parsed(t.num * ByteUnit[t.suffix])

\* The product wraps around.
parseTime(t) ==
  IF t = Unset THEN NotGiven
  ELSE IF ~t.digits THEN Malformed
  ELSE LET suffix == IF t.suffix = Unset THEN "s" ELSE t.suffix
       IN IF suffix \notin DOMAIN TimeUnit THEN Malformed
          ELSE Parsed((t.num * TimeUnit[suffix]) % Word)

\* Here an empty item is an error.
parseTimeList(list) ==
  IF list = Unset THEN NotGiven
  ELSE IF \E i \in DOMAIN list : list[i] = Unset \/ parseTime(list[i]).error THEN Malformed
  ELSE Parsed([i \in DOMAIN list |-> parseTime(list[i]).value])

\* The texts of a list of peers, of an amount and of a number.
IsPeerList(t) ==
  /\ DOMAIN t \subseteq Nat \ {0} /\ DOMAIN t # {}
  /\ \A i \in NonEmpty(t) : t[i].host # Unset /\ t[i].port \in Nat \cup {Unset}
  /\ Unset \notin {t, [i \in NonEmpty(t) |-> t[i]]}

IsAmount(t) == t.num \in Nat /\ t.digits \in BOOLEAN

LogLevels == {"error", "critical", "warning", "message", "info", "debug"}

parseLogLevel(t) ==
  IF t = Unset THEN NotGiven ELSE IF t \in LogLevels THEN Parsed(t) ELSE Malformed
=============================================================================
