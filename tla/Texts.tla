------------------------------- MODULE Texts -------------------------------
(***************************************************************************)
(* The texts the library takes from its caller, character by character:    *)
(* logical paths, slot names, environment variables (src/model.cpp) and    *)
(* the hexadecimal form of an identity (src/identity_support.cpp, and the  *)
(* writer and the reader of src/result_codec.cpp).  A character is its     *)
(* code.  What a letter is depends on the locale of the process, which the *)
(* host sets.                                                              *)
(***************************************************************************)
EXTENDS Integers, Sequences, SequencesExt

CONSTANTS
  Letters,          \* the letters the locale adds to those of ASCII
  Reserved,         \* variable names the environment policy owns
  IdentityLength    \* digits in an identity

ASSUME TextsAssumption ==
  /\ Letters \subseteq 128..255
  /\ IdentityLength \in {n \in Nat : n % 2 = 0}

----------------------------------------------------------------------------
Slash == 47
Dot == 46
Colon == 58
Equals == 61
Underscore == 95

IsAlpha(c) == c \in 65..90 \/ c \in 97..122 \/ c \in Letters
IsAlnum(c) == IsAlpha(c) \/ c \in 48..57

ContainsNul(t) == \E i \in DOMAIN t : t[i] = 0

(* The token that may name a slot; 43 and 45 are + and -. *)
ValidSlotName(t) ==
  /\ t # <<>>
  /\ IsAlnum(t[1])
  /\ \A i \in DOMAIN t : IsAlnum(t[i]) \/ t[i] \in {Dot, Underscore, 43, 45}

(* resource_slot::text() *)
SlotText(role, name) ==
  IF name = <<>> THEN role ELSE role \o <<Colon>> \o name

(* Mutant of ValidEnvironmentName: the first character decides. *)
ValidEnvironmentStart(t) == t # <<>> /\ (IsAlpha(t[1]) \/ t[1] = Underscore)

ValidEnvironmentName(t) ==
  /\ t # <<>>
  /\ IsAlpha(t[1]) \/ t[1] = Underscore
  /\ \A i \in 2..Len(t) : IsAlnum(t[i]) \/ t[i] = Underscore

(* environment_variable, which checks what it is made of *)
VariableCode(name, v) ==
  IF ~ValidEnvironmentName(name) \/ ContainsNul(v) THEN "invalid_policy"
  ELSE IF name \in Reserved THEN "reserved_environment_variable"
  ELSE "ok"

(* From a slash to the next one, or to the end. *)
ComponentAfter(t, i) ==
  LET ends == {j \in (i + 1)..Len(t) : t[j] = Slash} \cup {Len(t) + 1}
  IN  SubSeq(t, i + 1, (CHOOSE j \in ends : \A k \in ends : j <= k) - 1)

(* Mutant of PathCode: a component may be a dot. *)
PathCodeDotted(t) ==
  IF t = <<>> \/ t[1] # Slash \/ ContainsNul(t) THEN "invalid_path"
  ELSE IF t = <<Slash>> THEN "ok"
  ELSE IF \E i \in DOMAIN t :
            t[i] = Slash /\ ComponentAfter(t, i) \in {<<>>, <<Dot, Dot>>}
    THEN "invalid_path"
  ELSE "ok"

(* logical_path::parse() *)
PathCode(t) ==
  IF t = <<>> \/ t[1] # Slash \/ ContainsNul(t) THEN "invalid_path"
  ELSE IF t = <<Slash>> THEN "ok"
  ELSE IF Last(t) = Slash THEN "invalid_path"
  ELSE IF \E i \in DOMAIN t :
            /\ t[i] = Slash
            /\ ComponentAfter(t, i) \in {<<>>, <<Dot>>, <<Dot, Dot>>}
    THEN "invalid_path"
  ELSE "ok"

(* Mutant of IsHexDigit: as isxdigit(). *)
IsHexDigitOfAnyCase(c) == c \in 48..57 \/ c \in 97..102 \/ c \in 65..70

IsHexDigit(c) == c \in 48..57 \/ c \in 97..102

(* require_sha256_hex() *)
IdentityCode(t) ==
  IF Len(t) = IdentityLength /\ \A i \in DOMAIN t : IsHexDigit(t[i])
    THEN "ok" ELSE "invalid_identity"

(* digit() of the writers, which takes anything but 0 to 9 for a to f; an   *)
(* unsigned byte wraps around.                                              *)
DigitOf(c) == IF c \in 48..57 THEN c - 48 ELSE (c - 97 + 10) % 256

BytesOf(hex) ==
  [i \in 1..(Len(hex) \div 2) |->
     (DigitOf(hex[2 * i - 1]) * 16 + DigitOf(hex[2 * i])) % 256]

(* hex_encode() and reader::identity() *)
HexOf(bytes) ==
  LET hexdigit(n) == IF n < 10 THEN 48 + n ELSE 97 + n - 10
  IN  [i \in 1..(2 * Len(bytes)) |->
         IF i % 2 = 1 THEN hexdigit(bytes[(i + 1) \div 2] \div 16)
                      ELSE hexdigit(bytes[i \div 2] % 16)]

(* What a text of this kind is answered. *)
TextCode(kind, t) ==
  CASE kind = "path"     -> PathCode(t)
    [] kind = "slot"     -> IF ValidSlotName(t) THEN "ok" ELSE "invalid_value"
    [] kind = "variable" -> VariableCode(t.name, t.value)
    [] kind = "digest"   -> IdentityCode(t)

----------------------------------------------------------------------------
(* Where a path leads, lexically, read one character after another: an      *)
(* empty or a dot component stays, two dots go back.                        *)
Enter(place, component) ==
  CASE component \in {<<>>, <<Dot>>} -> place
    [] component = <<Dot, Dot>>      -> IF place = <<>> THEN <<>>
                                        ELSE Front(place)
    [] OTHER                         -> Append(place, component)

Walk(state, c) ==
  IF c = Slash
    THEN [place |-> Enter(state.place, state.component), component |-> <<>>]
    ELSE [state EXCEPT !.component = Append(@, c)]

Walked(t) ==
  LET walked[n \in 0..Len(t)] ==
        IF n = 0 THEN [place |-> <<>>, component |-> <<>>]
        ELSE Walk(walked[n - 1], t[n])
  IN  walked

PlaceOf(t) ==
  LET end == Walked(t)[Len(t)] IN Enter(end.place, end.component)

(* The one way to write a place. *)
PathTo(place) ==
  IF place = <<>> THEN <<Slash>>
  ELSE FlattenSeq([i \in DOMAIN place |-> <<Slash>> \o place[i]])
=============================================================================
