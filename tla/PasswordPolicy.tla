---------------------------- MODULE PasswordPolicy ----------------------------
(***************************************************************************)
(* Which new master passwords are taken (security/password_policy.rs).  The *)
(* same decision is made twice: by the form, in TypeScript, to say how     *)
(* strong a password is while it is typed, and by the service, in Rust, for *)
(* good.  Both are written out here, each the way its source has it, and   *)
(* compared on everything that can be typed from a few pieces.             *)
(*                                                                         *)
(* A character is its code; a password is a sequence of them.  Letters      *)
(* beyond ASCII have no case here.                                         *)
(***************************************************************************)
EXTENDS Integers, Sequences, FiniteSets, FiniteSetsExt, SequencesExt

CONSTANTS Start,      (* what has been typed to begin with: a set            *)
          Pieces,     (* what may be typed next                              *)
          MaxLength,  (* bound                                               *)
          Common, Keyboard    (* the words and key sequences that are known  *)

PasswordPolicyAssumption ==
    /\ MaxLength \in 0 .. 40
    /\ \A s \in Start \cup Pieces \cup Common \cup Keyboard :
          s \in Seq(32 .. 255) /\ Len(s) <= MaxLength

VARIABLE password

vars == <<password>>

---------------------------------------------------------------------------
(* Characters and parts of a password.                                     *)

Lowercase == 97 .. 122
Uppercase == 65 .. 90
Digits == 48 .. 57
IsSymbol(c) == c \notin Lowercase /\ c \notin Uppercase /\ c \notin Digits
IsWordCharacter(c) == c = 95 \/ c \in Lowercase \/ c \in Uppercase \/ c \in Digits
DateSeparators == {45, 47}
Nineteen == <<49, 57>>
Twenty == <<50, 48>>

Lowered(s) == [i \in DOMAIN s |-> IF s[i] \in Uppercase THEN s[i] + 32 ELSE s[i]]
windows(s, n) == {SubSeq(s, i, i + n - 1) : i \in 1 .. Len(s) - n + 1}
HasPart(s, words) == \E w \in words : w \in windows(s, Len(w))
All(s, characters) == ToSet(s) \subseteq characters

\* 100000 times the binary logarithm, rounded down: exact enough up to 40 characters.
Log2(pool) ==
    CASE pool = 10 -> 332192 [] pool = 26 -> 470043 [] pool = 32 -> 500000
      [] pool = 36 -> 516992 [] pool = 42 -> 539231 [] pool = 52 -> 570043
      [] pool = 58 -> 585798 [] pool = 62 -> 595419 [] pool = 68 -> 608746
      [] pool = 84 -> 639231 [] pool = 94 -> 655458 [] OTHER -> 0

If(condition, amount) == IF condition THEN amount ELSE 0

PoolSize(s) == If(ToSet(s) \cap Lowercase # {}, 26) + If(ToSet(s) \cap Uppercase # {}, 26)
               + If(ToSet(s) \cap Digits # {}, 10) + If(\E i \in DOMAIN s : IsSymbol(s[i]), 32)

---------------------------------------------------------------------------
(* The service.                                                            *)

has_sequential_pattern(s) ==
    \E w \in windows(s, 4) :
       /\ All(w, Lowercase) \/ All(w, Digits)
       /\ w[2] - w[1] \in {-1, 1}
       /\ \A i \in 2 .. 3 : w[i + 1] - w[i] = w[2] - w[1]

has_repeated_chunk(s) ==
    \E n \in 2 .. Min({6, Len(s) \div 2}) : \E start \in 1 .. Len(s) - 2 * n + 1 :
       SubSeq(s, start, start + n - 1) = SubSeq(s, start + n, start + 2 * n - 1)

\* The digits of a month or a day, from a position on.
DigitsAt(s, first, n) == first + n - 1 <= Len(s) /\ All(SubSeq(s, first, first + n - 1), Digits)

HasYear(s) ==
    \E w \in windows(s, 4) : SubSeq(w, 1, 2) \in {Nineteen, Twenty} /\ All(SubSeq(w, 3, 4), Digits)

(* Mutant: a date may go on with more digits.                              *)
has_date_pattern_open(s) ==
    \/ HasYear(s)
    \/ \E start \in 1 .. Len(s), month_len, day_len \in 1 .. 2 :
          LET separator == start + month_len
          IN  /\ start = 1 \/ ~IsWordCharacter(s[start - 1])
              /\ separator <= Len(s)
              /\ DigitsAt(s, start, month_len)
              /\ s[separator] \in DateSeparators
              /\ DigitsAt(s, separator + 1, day_len)

\* A month and a day, and nothing that belongs to the same word on either side.
has_date_pattern(s) ==
    \/ HasYear(s)
    \/ \E start \in 1 .. Len(s), month_len, day_len \in 1 .. 2 :
          LET separator == start + month_len
              end == separator + 1 + day_len
          IN  /\ start = 1 \/ ~IsWordCharacter(s[start - 1])
              /\ separator <= Len(s)
              /\ DigitsAt(s, start, month_len)
              /\ s[separator] \in DateSeparators
              /\ DigitsAt(s, separator + 1, day_len)
              /\ end > Len(s) \/ ~IsWordCharacter(s[end])

unique_character_count(s) == Cardinality({i \in DOMAIN s : \A j \in 1 .. i - 1 : s[j] # s[i]})
low_diversity(s) == Len(s) >= 8 /\ 100 * unique_character_count(s) < 35 * Len(s)
common_match(s) == HasPart(Lowered(s), Common)
keyboard_pattern(s) == HasPart(Lowered(s), Keyboard)

penalty(s) ==
    If(common_match(s), 30)
    + If(has_sequential_pattern(Lowered(s)), 20)
    + If(keyboard_pattern(s), 30)
    + If(\E w \in windows(s, 3) : w[1] = w[2] /\ w[2] = w[3], 24)
    + If(has_repeated_chunk(s), 24)
    + If(has_date_pattern(s), 15)
    + If(low_diversity(s), 30)

critical_pattern(s) ==
    \/ low_diversity(s)
    \/ has_repeated_chunk(s)
    \/ common_match(s) /\ Len(s) <= 16
    \/ keyboard_pattern(s) /\ Len(s) <= 16

accepts_master_password(s) ==
    /\ Len(s) >= 12
    /\ ~critical_pattern(s)
    /\ Len(s) * Log2(PoolSize(s)) >= 100000 * (55 + penalty(s))

validate_master_password(s) ==
    IF Len(s) < 12 THEN "PasswordTooShort"
    ELSE IF ~accepts_master_password(s) THEN "PasswordTooWeak"
    ELSE "Ok"

---------------------------------------------------------------------------
(* The form: passwordStrength.ts and masterPasswordPolicy.ts.              *)

\* "\b" between two positions: one of the characters belongs to a word.
Boundary(s, after) ==
    (after >= 1 /\ IsWordCharacter(s[after]))
        # (after < Len(s) /\ IsWordCharacter(s[after + 1]))

\* What the part from one position to another of a regular expression's match can be.
MonthAndDay(t) ==
    \E month_len, day_len \in 1 .. 2 :
       /\ Len(t) = month_len + 1 + day_len
       /\ DigitsAt(t, 1, month_len)
       /\ t[month_len + 1] \in DateSeparators
       /\ DigitsAt(t, month_len + 2, day_len)

WithYear(t) ==
    \E year_len \in 2 .. 4 : LET rest == Len(t) - year_len - 1
                             IN  /\ rest >= 3
                                 /\ MonthAndDay(SubSeq(t, 1, rest))
                                 /\ t[rest + 1] \in DateSeparators
                                 /\ DigitsAt(t, rest + 2, year_len)

datePattern(s) ==
    \/ HasYear(s)
    \/ \E first \in 1 .. Len(s) : \E last \in first + 2 .. Len(s) :
          /\ Boundary(s, first - 1)
          /\ Boundary(s, last)
          /\ MonthAndDay(SubSeq(s, first, last)) \/ WithYear(SubSeq(s, first, last))

hasRepeatedRun(s) == \E i \in 3 .. Len(s) : s[i] = s[i - 1] /\ s[i] = s[i - 2]

hasLowDiversity(s) == Len(s) >= 8 /\ 100 * Cardinality(ToSet(s)) < 35 * Len(s)

formPenalty(s) ==
    If(common_match(s), 30) + If(has_sequential_pattern(Lowered(s)), 20)
    + If(keyboard_pattern(s), 30) + If(hasRepeatedRun(s), 24)
    + If(has_repeated_chunk(s), 24) + If(datePattern(s), 15) + If(hasLowDiversity(s), 30)

analyzePassword(s) ==
    LET effectiveEntropy == Max({0, Len(s) * Log2(PoolSize(s)) - 100000 * formPenalty(s)})
        score == If(effectiveEntropy >= 2500000, 1) + If(effectiveEntropy >= 4000000, 1)
                 + If(effectiveEntropy >= 5500000, 1) + If(effectiveEntropy >= 7000000, 1)
        hasCriticalPattern == \/ hasLowDiversity(s) \/ has_repeated_chunk(s)
                              \/ Len(s) <= 16 /\ (common_match(s) \/ keyboard_pattern(s))
    IN  IF hasCriticalPattern /\ score > 1 THEN 1 ELSE score

masterPasswordStrength(s) ==
    IF Len(s) < 12 \/ analyzePassword(s) < 3 THEN "Weak"
    ELSE IF analyzePassword(s) = 3 THEN "Good" ELSE "Strong"

---------------------------------------------------------------------------
Init == password \in Start

Type(piece) ==
    /\ Len(password) + Len(piece) <= MaxLength
    /\ password' = password \o piece

Next == \E piece \in Pieces : Type(piece)

Spec == Init /\ [][Next]_vars

---------------------------------------------------------------------------
(* The hand-written search for a date finds exactly what the regular       *)
(* expression of the form matches, its word boundaries and optional year   *)
(* included (password_policy.rs:123).                                      *)
DatesAgree == has_date_pattern(password) <=> datePattern(password)

(* What the form calls good or strong is taken by the service, and what    *)
(* the form calls weak is not: nobody is turned down after the form said   *)
(* the password was fine.                                                  *)
FormAndServiceAgree ==
    validate_master_password(password) = "Ok" <=> masterPasswordStrength(password) # "Weak"
=============================================================================
